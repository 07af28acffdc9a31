------------------------- MODULE ReferenceDataProofs -------------------------
(***************************************************************************)
(* ReferenceData proved for any number of sessions, rows and names.        *)
(*                                                                         *)
(* Names and the system category are unique by the partial unique indexes  *)
(* alone: no handler can be relied on for it, since each looks before it   *)
(* writes.  Who uses the system category and its name rests on what the    *)
(* handlers check, whatever overlaps; the references of active rows on     *)
(* what a request that runs alone has checked.                             *)
(***************************************************************************)
EXTENDS ReferenceData, TableProofs

(***************************************************************************)
(* Uniqueness of the committed rows is not inductive: it must hold of      *)
(* whichever of the open transactions commit, in whatever order.  Two rows *)
(* one transaction has written go public together; any other two may do so *)
(* in all four combinations of their old and new versions.                 *)
(***************************************************************************)
Apart(i, j) ==
    /\ ~ Clash(named.row[i], named.row[j])
    /\ named.lock[i] = named.lock[j] /\ named.lock[i] # Nobody =>
         ~ Clash(named.latest[i], named.latest[j])
    /\ named.lock[i] # named.lock[j] =>
         /\ ~ Clash(named.row[i], named.latest[j])
         /\ ~ Clash(named.latest[i], named.row[j])
         /\ ~ Clash(named.latest[i], named.latest[j])

IndexInv ==
    /\ DOMAIN named.latest = Named /\ DOMAIN named.lock = Named
    /\ Settled(named, Named)
    /\ \A i, j \in Named : i # j /\ SameTable(i, j) => Apart(i, j)

LEMMA Symmetric == \A i, j, v, w : /\ Clash(v, w) <=> Clash(w, v)
                                   /\ SameTable(i, j) <=> SameTable(j, i)
  BY DEF Clash, SameTable

LEMMA InitIndexed == Init => IndexInv
<1> SUFFICES ASSUME Init PROVE IndexInv
  OBVIOUS
<1>1. PICK names \in {n \in [Named -> NamedRow \cup {Missing}] : NamesConsistent(n)} :
        named = AtRest(names, Named)
  BY DEF Init
<1>2. /\ named.row = names /\ named.latest = names
      /\ named.lock = [i \in Named |-> Nobody] /\ DOMAIN names = Named
  BY <1>1 DEF AtRest
<1>3. \A i, j \in Named : i # j /\ SameTable(i, j) => ~ Clash(names[i], names[j])
  BY <1>1 DEF NamesConsistent
<1>4. \A i, j \in Named : i # j /\ SameTable(i, j) => Apart(i, j)
  BY <1>2, <1>3 DEF Apart
<1>5. QED
  BY <1>2, <1>4 DEF IndexInv, Settled

(* An INSERT or UPDATE that the index admits. *)
LEMMA WriteIndexed ==
  ASSUME IndexInv, NEW s \in Session, NEW k, NEW v,
         Free(named, s, k), ~ InDoubt(s, k, v), ~ Violates(s, k, v),
         named' = WriteRow(named, s, k, v)
  PROVE  IndexInv'
<1>1. /\ named'.row = named.row
      /\ named'.latest = [named.latest EXCEPT ![k] = v]
      /\ named'.lock = [named.lock EXCEPT ![k] = s]
  BY DEF WriteRow
<1>2. DOMAIN named.latest = Named /\ DOMAIN named.lock = Named
  BY DEF IndexInv
<1>3. /\ DOMAIN named'.latest = Named /\ DOMAIN named'.lock = Named
      /\ \A i \in Named \ {k} : /\ named'.latest[i] = named.latest[i]
                                /\ named'.lock[i] = named.lock[i]
      /\ k \in Named => named'.latest[k] = v /\ named'.lock[k] = s
  BY <1>1, <1>2
<1>4. s # Nobody
  BY SessionAssumption
<1>5. Settled(named, Named)'
  BY <1>1, <1>3, <1>4 DEF IndexInv, Settled
<1>6. ASSUME NEW j \in Named, k \in Named, j # k, SameTable(k, j) PROVE Apart(k, j)'
  <2>1. Apart(k, j) /\ named.lock[k] \in {Nobody, s}
    BY <1>6 DEF IndexInv, Free
  <2>2. /\ named'.row[k] = named.row[k] /\ named'.latest[k] = v /\ named'.lock[k] = s
        /\ named'.row[j] = named.row[j] /\ named'.latest[j] = named.latest[j]
        /\ named'.lock[j] = named.lock[j]
    BY <1>1, <1>3, <1>6
  <2>3. CASE named.lock[j] = s
    <3>1. ~ Clash(v, named.latest[j])
      BY <1>6, <2>3 DEF Violates, Free, Visible
    <3>2. QED
      BY <1>4, <2>1, <2>2, <2>3, <3>1 DEF Apart
  <2>4. CASE named.lock[j] = Nobody
    <3>1. ~ Clash(v, named.row[j]) /\ named.latest[j] = named.row[j]
      BY <1>4, <1>6, <2>4 DEF Violates, Free, Visible, IndexInv, Settled
    <3>2. QED
      BY <1>4, <2>1, <2>2, <2>4, <3>1 DEF Apart
  <2>5. CASE named.lock[j] \notin {Nobody, s}
    <3>1. ~ Clash(v, named.row[j]) /\ ~ Clash(v, named.latest[j])
      BY <1>6, <2>5 DEF InDoubt, Free
    <3>2. QED
      BY <1>4, <2>1, <2>2, <2>5, <3>1 DEF Apart
  <2>6. QED
    BY <2>3, <2>4, <2>5
<1>7. ASSUME NEW i \in Named \ {k}, NEW j \in Named \ {k}, Apart(i, j) PROVE Apart(i, j)'
  BY <1>1, <1>3, <1>7 DEF Apart
<1>8. ASSUME NEW i \in Named, NEW j \in Named, Apart(i, j)' PROVE Apart(j, i)'
  BY <1>8, Symmetric DEF Apart
<1>9. \A i, j \in Named : i # j /\ SameTable(i, j) => Apart(i, j)'
  BY <1>6, <1>7, <1>8, Symmetric DEF IndexInv
<1>10. QED
  BY <1>3, <1>5, <1>9 DEF IndexInv

LEMMA CommitIndexed ==
  ASSUME IndexInv, NEW s \in Session, named' = Commit(named, s, Named)
  PROVE  IndexInv'
<1>1. /\ named'.latest = named.latest /\ DOMAIN named'.lock = Named
      /\ \A i \in Named :
           /\ named'.row[i] = IF named.lock[i] = s THEN named.latest[i] ELSE named.row[i]
           /\ named'.lock[i] = IF named.lock[i] = s THEN Nobody ELSE named.lock[i]
  BY DEF Commit, Visible, Unlocked
<1>2. Settled(named, Named)'
  BY <1>1 DEF IndexInv, Settled
<1>3. s # Nobody
  BY SessionAssumption
<1>4. ASSUME NEW i \in Named, NEW j \in Named, i # j, SameTable(i, j) PROVE Apart(i, j)'
  <2>1. Apart(i, j)
    BY <1>4 DEF IndexInv
  <2>2. /\ named.lock[i] = Nobody => named.latest[i] = named.row[i]
        /\ named.lock[j] = Nobody => named.latest[j] = named.row[j]
    BY DEF IndexInv, Settled
  <2>3. QED
    BY <1>1, <1>3, <2>1, <2>2 DEF Apart
<1>5. QED
  BY <1>1, <1>2, <1>4 DEF IndexInv

LEMMA RollbackIndexed ==
  ASSUME IndexInv, NEW s \in Session, named' = Rollback(named, s, Named)
  PROVE  IndexInv'
<1>1. /\ named'.row = named.row /\ DOMAIN named'.lock = Named /\ DOMAIN named'.latest = Named
      /\ \A i \in Named :
           /\ named'.latest[i] = IF named.lock[i] = s THEN named.row[i] ELSE named.latest[i]
           /\ named'.lock[i] = IF named.lock[i] = s THEN Nobody ELSE named.lock[i]
  BY DEF Rollback, Unlocked
<1>2. Settled(named, Named)'
  BY <1>1 DEF IndexInv, Settled
<1>3. s # Nobody
  BY SessionAssumption
<1>4. ASSUME NEW i \in Named, NEW j \in Named, i # j, SameTable(i, j) PROVE Apart(i, j)'
  <2>1. Apart(i, j)
    BY <1>4 DEF IndexInv
  <2>2. /\ named.lock[i] = Nobody => named.latest[i] = named.row[i]
        /\ named.lock[j] = Nobody => named.latest[j] = named.row[j]
    BY DEF IndexInv, Settled
  <2>3. QED
    BY <1>1, <1>3, <2>1, <2>2 DEF Apart
<1>5. QED
  BY <1>1, <1>2, <1>4 DEF IndexInv

LEMMA Untouched == ASSUME IndexInv, UNCHANGED named PROVE IndexInv'
  BY DEF IndexInv, Apart, Settled

LEMMA StepIndexed == IndexInv /\ [Next]_vars => IndexInv'
<1> SUFFICES ASSUME IndexInv, [Next]_vars PROVE IndexInv'
  OBVIOUS
<1>1. ASSUME NEW s \in Session, NEW q \in Request, Begin(s, q) PROVE UNCHANGED named
  BY <1>1 DEF Begin
<1>2. ASSUME NEW s \in Session,
             \/ Fetch(s) \/ NameCheck(s) \/ TxnCheck(s) \/ DraftCheck(s)
             \/ AccountCheck(s) \/ CategoryCheck(s) \/ SeedCheck(s) \/ FindSystem(s)
             \/ RereadSystem(s) \/ LockEntry(s) \/ WriteEntry(s)
             \/ \E e \in Entry : InsertRow(s, e)
      PROVE  UNCHANGED named
  BY <1>2 DEF Fetch, NameCheck, TxnCheck, DraftCheck, AccountCheck, CategoryCheck, SeedCheck,
              FindSystem, RereadSystem, LockEntry, WriteEntry, InsertRow
<1>3. ASSUME NEW s \in Session, InsertSystem(s) PROVE IndexInv'
  <2> DEFINE c == request[s].category
             v == NewNamed(Reserved, TRUE)
  <2>1. \/ UNCHANGED named
        \/ /\ Free(named, s, c) /\ ~ InDoubt(s, c, v) /\ ~ Violates(s, c, v)
           /\ named' = WriteRow(named, s, c, v)
    BY <1>3 DEF InsertSystem
  <2> HIDE DEF c, v
  <2>2. QED
    BY <2>1, Untouched, WriteIndexed
<1>4. ASSUME NEW s \in Session, WriteNamed(s) PROVE IndexInv'
  <2> DEFINE k == request[s].id
             v == NamedAfter(request[s], Visible(named, s, k))
  <2>1. /\ Free(named, s, k) /\ ~ InDoubt(s, k, v) /\ ~ Violates(s, k, v)
        /\ named' = WriteRow(named, s, k, v)
    BY <1>4 DEF WriteNamed
  <2> HIDE DEF k, v
  <2>2. QED
    BY <2>1, WriteIndexed
<1>5. ASSUME NEW s \in Session, CommitAll(s) PROVE IndexInv'
  BY <1>5, CommitIndexed DEF CommitAll
<1>6. ASSUME NEW s \in Session, Abandon(s) PROVE IndexInv'
  BY <1>6, RollbackIndexed DEF Abandon
<1>7. CASE UNCHANGED vars
  BY <1>7, Untouched DEF vars
<1>8. QED
  BY <1>1, <1>2, <1>3, <1>4, <1>5, <1>6, <1>7, Untouched DEF Next, Step

(* No two active rows of a table share a name, and no two categories are the *)
(* active system category, whatever requests overlap and however they end.   *)
THEOREM NamesStayUnique == Spec => []NamesAreUnique
<1>1. IndexInv => NamesAreUnique
  BY DEF IndexInv, Apart, NamesAreUnique
<1>2. QED
  BY InitIndexed, StepIndexed, <1>1, PTL DEF Spec

-----------------------------------------------------------------------------
(* What the requests of any number of sessions keep to, whatever they        *)
(* interleave to: the invariant of the theorems below.                       *)

NamedOps == Create \cup Rename \cup Restore \cup Delete \cup Archive
Checks == Create \cup Rename \cup Restore
LockOps == {"update_transaction", "delete_transaction", "restore_transaction",
            "update_inbox_item", "promote_inbox_item"}
InsertOps == {"create_opening_balance", "create_transaction", "create_batch",
              "create_inbox_item", "promote_inbox_item"}

(* The writers of ledger rows that refuse a system category. *)
Guarded == {"create_transaction", "create_batch", "update_transaction", "promote_inbox_item"}

(***************************************************************************)
(* v and w are an earlier and a later version of the row i.  A row does    *)
(* not vanish and is a system row from the start or never; a system        *)
(* category stays active; a user category is not given the reserved name,  *)
(* nor brought back with it.                                               *)
(***************************************************************************)
Squat(i, v) == i \in Category /\ Active(v) /\ ~ v.system /\ v.name = Reserved
Follows(i, v, w) ==
    /\ v # Missing =>
         /\ w # Missing /\ (w.system <=> v.system)
         /\ i \in Category /\ v.system /\ v.active => w.active
         /\ i \in Category /\ ~ v.system /\ v.name # Reserved => w.name # Reserved
    /\ Squat(i, w) => Squat(i, v)

(* pc[s] is what is left of the plan of the request. *)
OnPlan(s) ==
    LET plan == Plan(request[s].op) IN
    \E n \in Nat : /\ n <= Len(plan) /\ Len(pc[s]) = Len(plan) - n
                   /\ \A k \in 1 .. Len(pc[s]) : pc[s][k] = plan[n + k]

AtItsPlan(s) ==
    /\ Idle(s) => /\ request[s] = NoRequest /\ seen[s] = Missing
                  /\ \A e \in Entry : entry.lock[e] # s
    /\ ~ Idle(s) => /\ request[s] \in Request /\ OnPlan(s)
                    /\ request[s].id \in Named => request[s].id \in TableOf(request[s].op)
                    /\ todo[s] \subseteq request[s].rows

(* A handler that read a row writes a later version of that one. *)
HasRead(s) ==
    LET q == request[s] IN
    /\ q.op \in Create => seen[s] = Missing
    /\ q.op \in NamedOps \ Create /\ ~ Idle(s) /\ ~ At(s, "fetch") =>
         /\ seen[s] # Missing /\ Follows(q.id, seen[s], Visible(named, s, q.id))
         /\ q.op = "delete_category" => ~ seen[s].system
    /\ q.op \in Checks /\ At(s, "write_named") => MayClaim(s)

(* A handler that locked or read a ledger row or a draft has found one. *)
HasRow(s) ==
    request[s].op \in LockOps \cup {"delete_inbox_item"} /\ ~ Idle(s)
        /\ ~ At(s, "lock") /\ ~ At(s, "fetch") =>
      Visible(entry, s, request[s].id) # Missing

(* A user category, for s. *)
Ordinary(s, c) ==
    c \in Category => Visible(named, s, c) # Missing /\ ~ Visible(named, s, c).system

HasChecked(s) ==
    request[s].op \in Guarded /\ (At(s, "insert_rows") \/ At(s, "write_entry")) =>
      Ordinary(s, refs[s].category)

HasSeeded(s) ==
    LET c == refs[s].category IN
    request[s].op = "create_opening_balance" /\ c # Null =>
      c \in Category /\ Active(Visible(named, s, c)) /\ Visible(named, s, c).system

WritesAreFiled(s) ==
    \A t \in Txn : entry.lock[t] = s =>
      /\ entry.latest[t] # Missing
      /\ IF request[s].op = "create_opening_balance" THEN t \in request[s].rows
         ELSE t \notin seeds => Ordinary(s, entry.latest[t].category)

SessionInv(s) == /\ AtItsPlan(s) /\ HasRead(s) /\ HasRow(s) /\ HasChecked(s)
                 /\ HasSeeded(s) /\ WritesAreFiled(s)

RowsAreFiled ==
    \A t \in Txn \ seeds : entry.row[t] # Missing /\ entry.row[t].category \in Category =>
      LET v == named.row[entry.row[t].category] IN v # Missing /\ ~ v.system

Typed ==
    /\ named \in Tables(Named, NamedRow \cup {Missing})
    /\ entry \in Tables(Entry, EntryRow \cup {Missing})
    /\ request \in [Session -> Request \cup {NoRequest}]
    /\ pc \in [Session -> Seq(Statements)]
    /\ seen \in [Session -> NamedRow \cup EntryRow \cup {Missing}]
    /\ refs \in [Session -> Refs]
    /\ todo \in [Session -> SUBSET Entry]

IInv == /\ Typed /\ IndexInv /\ Settled(entry, Entry)
        /\ \A i \in Named : Follows(i, named.row[i], named.latest[i])
        /\ \A e \in Entry : entry.row[e] # Missing => entry.latest[e] # Missing
        /\ \A s \in Session : SessionInv(s)
        /\ RowsAreFiled

LEMMA FollowsFacts ==
  /\ \A i, v : Follows(i, v, v)
  /\ \A i, u, v, w : Follows(i, u, v) /\ Follows(i, v, w) => Follows(i, u, w)
  BY DEF Follows

LEMMA IdFacts ==
  /\ \A i \in Named : i \notin Entry
  /\ \A c \in Category : c \in Named /\ c # Null /\ c \notin Account /\ c \notin Hashtag
  /\ \A t \in Txn : t \in Entry /\ t \notin Draft
  /\ \A d \in Draft : d \in Entry /\ d \notin Txn
  BY IdAssumption, SentinelAssumption DEF Named, Entry

-----------------------------------------------------------------------------
(* Requests and plans.                                                       *)

LEMMA RequestFacts ==
  ASSUME NEW q \in Request
  PROVE  /\ q.op \in Operation
         /\ q.op \in NamedOps => q.id \in Named
         /\ q.op \in Create \cup Rename => q.name \in Name \cup AccountName
         /\ q.op \in LockOps \cup {"delete_inbox_item"} => q.id \in Entry
         /\ q.op \in {"update_inbox_item", "delete_inbox_item", "promote_inbox_item"} =>
              q.id \in Draft
         /\ q.op \in {"update_transaction", "delete_transaction", "restore_transaction"} =>
              q.id \in Txn
         /\ q.op = "create_inbox_item" => q.rows \subseteq Draft
         /\ q.op = "create_opening_balance" => q.category \in Category
         /\ q.account \in Account \cup {Null} /\ q.category \in Category \cup {Null}
         /\ q.rows \subseteq Entry
<1> DEFINE Of(ops, Id, names, accounts, categories, Rows) ==
             /\ q.op \in ops /\ q.id \in Id /\ q.name \in names /\ q.account \in accounts
             /\ q.category \in categories /\ q.rows \in SUBSET Rows
           AnyAccount == Account \cup {Null}
           AnyCategory == Category \cup {Null}
<1>1. \/ Of(Create \cup Rename, Named, Name \cup AccountName, {Null}, {Null}, {})
      \/ Of(Restore \cup Delete \cup Archive, Named, {Null}, {Null}, {Null}, {})
      \/ Of({"create_opening_balance"}, {Null}, {Null}, Account, Category, Txn)
      \/ Of({"create_transaction", "create_batch"}, {Null}, {Null}, Account, Category, Txn)
      \/ Of({"update_transaction"}, Txn, {Null}, AnyAccount, AnyCategory, {})
      \/ Of({"create_inbox_item"}, {Null}, {Null}, AnyAccount, AnyCategory, Draft)
      \/ Of({"update_inbox_item"}, Draft, {Null}, AnyAccount, AnyCategory, {})
      \/ Of({"delete_transaction", "restore_transaction"}, Txn, {Null}, {Null}, {Null}, {})
      \/ Of({"delete_inbox_item"}, Draft, {Null}, {Null}, {Null}, {})
      \/ Of({"promote_inbox_item"}, Draft, {Null}, {Null}, {Null}, Txn)
  BY DEF Request, Asked, Refs
<1>2. q.op \in Operation
  BY <1>1 DEF Operation
<1>3. /\ q.op \in NamedOps => q.id \in Named
      /\ q.op \in Create \cup Rename => q.name \in Name \cup AccountName
  BY <1>1 DEF NamedOps, Create, Rename, Restore, Delete, Archive
<1>4. /\ q.op \in {"update_inbox_item", "delete_inbox_item", "promote_inbox_item"} =>
           q.id \in Draft
      /\ q.op \in {"update_transaction", "delete_transaction", "restore_transaction"} =>
           q.id \in Txn
  BY <1>1 DEF Create, Rename, Restore, Delete, Archive
<1>5. /\ q.op = "create_inbox_item" => q.rows \subseteq Draft
      /\ q.op = "create_opening_balance" => q.category \in Category
  BY <1>1 DEF Create, Rename, Restore, Delete, Archive
<1>6. q.account \in AnyAccount /\ q.category \in AnyCategory
  BY <1>1
<1>7. q.rows \subseteq Entry
  BY <1>1 DEF Entry
<1>8. QED
  BY <1>2, <1>3, <1>4, <1>5, <1>6, <1>7, IdFacts DEF LockOps

(* Which operations have which statements, and what precedes a write. *)
PlanFits(op, plan) ==
    /\ plan \in Seq(Statements) /\ Len(plan) >= 3 /\ plan[Len(plan)] = "commit"
    /\ \A n \in 1 .. Len(plan) :
         /\ plan[n] = "fetch" => op \in (NamedOps \ Create) \cup {"delete_inbox_item"}
         /\ plan[n] = "name_check" => op \in Checks
         /\ plan[n] = "write_named" => op \in NamedOps
         /\ plan[n] \in {"find_system", "insert_system", "reread_system"} =>
              op = "create_opening_balance"
         /\ plan[n] = "lock" => op \in LockOps
         /\ plan[n] = "write_entry" => op \in LockOps \cup {"delete_inbox_item"}
         /\ plan[n] = "insert_rows" => op \in InsertOps
         /\ plan[n] = "find_system" => n + 3 <= Len(plan)
         /\ plan[n] = "insert_system" => n + 2 <= Len(plan)
         /\ n > 1 /\ plan[n] = "insert_rows" => plan[n - 1] = "category_check"
         /\ n > 1 /\ plan[n] = "write_entry" /\ op \in Guarded =>
              plan[n - 1] \in {"category_check", "insert_rows"}
         /\ n > 1 /\ plan[n] = "write_named" /\ op \in Checks => plan[n - 1] = "name_check"
    /\ op \in NamedOps \ Create => plan[1] = "fetch"
    /\ op \in Create => plan[1] = "name_check"
    /\ op \in LockOps => plan[1] = "lock"
    /\ op = "delete_inbox_item" => plan[1] = "fetch"
    /\ plan[1] \notin {"insert_rows", "write_entry", "write_named"}

LEMMA PlanFacts ==
  ASSUME NEW op \in Operation PROVE PlanFits(op, Plan(op))
<1> USE DEF Create, Rename, Restore, Delete, Archive, NamedOps, LockOps, InsertOps, Guarded,
            Checks, Statements
<1>1. ASSUME NEW plan, op \in Create, plan = <<"name_check", "write_named", "commit">>
      PROVE  PlanFits(op, plan)
  BY <1>1 DEF PlanFits
<1>2. ASSUME NEW plan, op \in Rename \cup Restore,
             plan = <<"fetch", "name_check", "write_named", "commit">>
      PROVE  PlanFits(op, plan)
  BY <1>2 DEF PlanFits
<1>3. ASSUME NEW plan, op = "delete_account",
             plan = <<"fetch", "txn_check", "write_named", "commit">>
      PROVE  PlanFits(op, plan)
  BY <1>3 DEF PlanFits
<1>4. ASSUME NEW plan, op = "delete_category",
             plan = <<"fetch", "txn_check", "draft_check", "write_named", "commit">>
      PROVE  PlanFits(op, plan)
  BY <1>4 DEF PlanFits
<1>5. ASSUME NEW plan, op \in Archive \cup {"delete_hashtag"},
             plan = <<"fetch", "write_named", "commit">>
      PROVE  PlanFits(op, plan)
  BY <1>5 DEF PlanFits
<1>6. ASSUME NEW plan, op = "create_opening_balance",
             plan = <<"account_check", "seed_check", "find_system", "insert_system",
                      "reread_system", "account_check", "category_check", "insert_rows",
                      "commit">>
      PROVE  PlanFits(op, plan)
  BY <1>6 DEF PlanFits
<1>7. ASSUME NEW plan, op \in {"create_transaction", "create_batch", "create_inbox_item"},
             plan = <<"account_check", "category_check", "insert_rows", "commit">>
      PROVE  PlanFits(op, plan)
  BY <1>7 DEF PlanFits
<1>8. ASSUME NEW plan,
             op \in {"update_transaction", "restore_transaction", "update_inbox_item"},
             plan = <<"lock", "account_check", "category_check", "write_entry", "commit">>
      PROVE  PlanFits(op, plan)
  BY <1>8 DEF PlanFits
<1>9. ASSUME NEW plan, op = "delete_transaction", plan = <<"lock", "write_entry", "commit">>
      PROVE  PlanFits(op, plan)
  BY <1>9 DEF PlanFits
<1>10. ASSUME NEW plan, op = "delete_inbox_item", plan = <<"fetch", "write_entry", "commit">>
       PROVE  PlanFits(op, plan)
  BY <1>10 DEF PlanFits
<1>11. ASSUME NEW plan, op = "promote_inbox_item",
              plan = <<"lock", "account_check", "category_check", "insert_rows",
                       "write_entry", "commit">>
       PROVE  PlanFits(op, plan)
  BY <1>11 DEF PlanFits
<1>12. QED
  BY <1>1, <1>2, <1>3, <1>4, <1>5, <1>6, <1>7, <1>8, <1>9, <1>10, <1>11 DEF Plan, Operation

(* What s was asked, from the statement it is at. *)
LEMMA Stations ==
  ASSUME NEW s \in Session, AtItsPlan(s), pc[s] \in Seq(Statements), ~ Idle(s)
  PROVE  LET op == request[s].op IN
         /\ request[s] \in Request /\ op \in Operation
         /\ At(s, "fetch") => op \in (NamedOps \ Create) \cup {"delete_inbox_item"}
         /\ At(s, "name_check") => op \in Checks
         /\ At(s, "write_named") => op \in NamedOps
         /\ At(s, "find_system") \/ At(s, "insert_system") \/ At(s, "reread_system") =>
              op = "create_opening_balance"
         /\ At(s, "lock") => op \in LockOps
         /\ At(s, "write_entry") => op \in LockOps \cup {"delete_inbox_item"}
         /\ At(s, "insert_rows") => op \in InsertOps
<1> DEFINE op == request[s].op
           plan == Plan(op)
<1>1. request[s] \in Request /\ op \in Operation /\ OnPlan(s)
  BY RequestFacts DEF AtItsPlan
<1>2. PlanFits(op, plan)
  BY <1>1, PlanFacts
<1>3. PICK n \in Nat : /\ n <= Len(plan) /\ Len(pc[s]) = Len(plan) - n
                       /\ \A k \in 1 .. Len(pc[s]) : pc[s][k] = plan[n + k]
  BY <1>1 DEF OnPlan
<1>4. Len(pc[s]) >= 1 /\ Head(pc[s]) = pc[s][1]
  BY DEF Idle
<1>5. n + 1 \in 1 .. Len(plan) /\ Head(pc[s]) = plan[n + 1]
  <2>1. Len(plan) \in Nat /\ Len(pc[s]) \in Nat
    BY <1>2 DEF PlanFits
  <2>2. QED
    BY <1>3, <1>4, <2>1
<1> HIDE DEF plan
<1>6. QED
  BY <1>1, <1>2, <1>5 DEF At, PlanFits

(* The statements done are Tail, or the two jumps of ensure_system_category. *)
Advances(s) ==
    \E m \in {1, 2, 3} :
      /\ pc' = [pc EXCEPT ![s] = IF m = 1 THEN Tail(@) ELSE SubSeq(@, m + 1, Len(@))]
      /\ m = 2 => At(s, "insert_system")
      /\ m = 3 => At(s, "find_system")

LEMMA PlanAdvances ==
  ASSUME NEW s \in Session, AtItsPlan(s), pc \in [Session -> Seq(Statements)], ~ Idle(s),
         ~ At(s, "commit"), Advances(s), UNCHANGED request
  PROVE  LET op == request[s].op IN
         /\ pc' \in [Session -> Seq(Statements)]
         /\ \A u \in Session \ {s} : pc'[u] = pc[u]
         /\ OnPlan(s)' /\ ~ Idle(s)'
         /\ At(s, "insert_rows")' /\ op # "create_opening_balance" => At(s, "category_check")
         /\ At(s, "write_entry")' /\ op \in Guarded =>
              At(s, "category_check") \/ At(s, "insert_rows")
         /\ At(s, "write_named")' /\ op \in Checks => At(s, "name_check")
<1> DEFINE op == request[s].op
           plan == Plan(op)
<1>1. request[s] \in Request /\ op \in Operation /\ OnPlan(s)
  BY RequestFacts DEF AtItsPlan
<1>2. PlanFits(op, plan) /\ Len(plan) \in Nat
  BY <1>1, PlanFacts DEF PlanFits
<1>3. PICK n \in Nat : /\ n <= Len(plan) /\ Len(pc[s]) = Len(plan) - n
                       /\ \A k \in 1 .. Len(pc[s]) : pc[s][k] = plan[n + k]
  BY <1>1 DEF OnPlan
<1>4. /\ Len(pc[s]) \in Nat /\ Len(pc[s]) >= 1 /\ Head(pc[s]) = pc[s][1]
      /\ pc[s] \in Seq(Statements)
  BY DEF Idle
<1>5. n + 1 \in 1 .. Len(plan) /\ Head(pc[s]) = plan[n + 1] /\ plan[n + 1] # "commit"
  BY <1>2, <1>3, <1>4 DEF At
<1>6. PICK m \in {1, 2, 3} :
        /\ pc' = [pc EXCEPT ![s] = IF m = 1 THEN Tail(pc[s])
                                   ELSE SubSeq(pc[s], m + 1, Len(pc[s]))]
        /\ m = 2 => At(s, "insert_system")
        /\ m = 3 => At(s, "find_system")
  BY DEF Advances
<1>7. n + m < Len(plan)
  <2>1. n + 1 # Len(plan)
    BY <1>2, <1>5 DEF PlanFits
  <2>2. m = 2 => plan[n + 1] = "insert_system"
    BY <1>5, <1>6 DEF At
  <2>3. m = 3 => plan[n + 1] = "find_system"
    BY <1>5, <1>6 DEF At
  <2>4. /\ plan[n + 1] = "insert_system" => n + 3 <= Len(plan)
        /\ plan[n + 1] = "find_system" => n + 4 <= Len(plan)
    BY <1>2, <1>5 DEF PlanFits
  <2>5. QED
    BY <1>2, <1>5, <2>1, <2>2, <2>3, <2>4
<1> HIDE DEF plan
<1>8. /\ pc'[s] \in Seq(Statements) /\ Len(pc'[s]) = Len(pc[s]) - m
      /\ \A k \in 1 .. Len(pc'[s]) : pc'[s][k] = pc[s][m + k]
  <2>1. pc'[s] = IF m = 1 THEN Tail(pc[s]) ELSE SubSeq(pc[s], m + 1, Len(pc[s]))
    BY <1>6
  <2>2. m + 1 \in 1 .. Len(pc[s])
    BY <1>2, <1>3, <1>4, <1>7
  <2>3. CASE m = 1
    BY <1>4, <2>1, <2>2, <2>3
  <2>4. CASE m \in {2, 3}
    <3>1. pc'[s] = SubSeq(pc[s], m + 1, Len(pc[s]))
      BY <2>1, <2>4
    <3>2. QED
      BY <1>4, <2>2, <2>4, <3>1
  <2>5. QED
    BY <2>3, <2>4
<1>9. /\ Len(pc'[s]) = Len(plan) - (n + m) /\ n + m \in Nat
      /\ \A k \in 1 .. Len(pc'[s]) : pc'[s][k] = plan[n + m + k]
  BY <1>2, <1>3, <1>4, <1>7, <1>8
<1>10. pc'[s] # <<>> /\ Head(pc'[s]) = plan[n + m + 1] /\ n + m + 1 \in 1 .. Len(plan)
  BY <1>2, <1>7, <1>8, <1>9
<1>11. OnPlan(s)' /\ ~ Idle(s)'
  BY <1>2, <1>7, <1>9, <1>10 DEF OnPlan, Idle, plan
<1>12. pc' \in [Session -> Seq(Statements)] /\ \A u \in Session \ {s} : pc'[u] = pc[u]
  BY <1>6, <1>8
<1>13. \A x : At(s, x)' => plan[n + m + 1] = x
  BY <1>10 DEF At
<1>14. CASE m = 1
  <2>1. plan[n + 1] \in {"category_check"} => At(s, "category_check")
    BY <1>5 DEF At
  <2>2. plan[n + 1] = "insert_rows" => At(s, "insert_rows")
    BY <1>5 DEF At
  <2>3. plan[n + 1] = "name_check" => At(s, "name_check")
    BY <1>5 DEF At
  <2>4. /\ plan[n + 2] = "insert_rows" => plan[n + 1] = "category_check"
        /\ plan[n + 2] = "write_entry" /\ op \in Guarded =>
             plan[n + 1] \in {"category_check", "insert_rows"}
        /\ plan[n + 2] = "write_named" /\ op \in Checks => plan[n + 1] = "name_check"
    <3>1. n + 2 \in 1 .. Len(plan) /\ n + 2 > 1 /\ (n + 2) - 1 = n + 1
      BY <1>2, <1>10, <1>14
    <3>2. QED
      BY <1>2, <3>1 DEF PlanFits
  <2>5. QED
    BY <1>11, <1>12, <1>13, <1>14, <2>1, <2>2, <2>3, <2>4
<1>15. CASE m # 1
  <2>1. op = "create_opening_balance"
    BY <1>6, <1>15, Stations
  <2>2. op \notin Guarded \cup Checks
    BY <2>1 DEF Guarded, Checks, Create, Rename, Restore
  <2>3. QED
    BY <1>11, <1>12, <2>1, <2>2
<1>16. QED
  BY <1>14, <1>15

-----------------------------------------------------------------------------
(* What a statement of s does to the tables, and leaves to the others.       *)

NamedMoves(s) ==
    /\ named' \in Tables(Named, NamedRow \cup {Missing})
    /\ named'.row = named.row /\ FrameOf(named, named', s, Named)
    /\ \A i \in Named : /\ Follows(i, named'.row[i], named'.latest[i])
                        /\ Follows(i, Visible(named, s, i), Visible(named', s, i))

EntryMoves(s) ==
    /\ entry' \in Tables(Entry, EntryRow \cup {Missing}) /\ Settled(entry', Entry)
    /\ entry'.row = entry.row /\ FrameOf(entry, entry', s, Entry)
    /\ \A e \in Entry :
         /\ entry'.row[e] # Missing => entry'.latest[e] # Missing
         /\ Visible(entry, s, e) # Missing => Visible(entry', s, e) # Missing

LEMMA NamedRests ==
  ASSUME IInv, NEW s \in Session, UNCHANGED named PROVE NamedMoves(s)
  BY FollowsFacts DEF IInv, Typed, NamedMoves, FrameOf

LEMMA EntryRests ==
  ASSUME IInv, NEW s \in Session, UNCHANGED entry PROVE EntryMoves(s)
  BY DEF IInv, Typed, EntryMoves, FrameOf

LEMMA NamedWrites ==
  ASSUME IInv, NEW s \in Session, NEW k \in Named, NEW v \in NamedRow, Free(named, s, k),
         Follows(k, Visible(named, s, k), v), named' = WriteRow(named, s, k, v)
  PROVE  NamedMoves(s)
<1>1. /\ named \in Tables(Named, NamedRow \cup {Missing}) /\ Settled(named, Named)
      /\ \A i \in Named : Follows(i, named.row[i], named.latest[i])
  BY DEF IInv, Typed, IndexInv
<1>2. /\ named' \in Tables(Named, NamedRow \cup {Missing}) /\ FrameOf(named, named', s, Named)
      /\ named'.row = named.row
      /\ \A j \in Named : /\ named'.latest[j] = IF j = k THEN v ELSE named.latest[j]
                          /\ named'.lock[j] = IF j = k THEN s ELSE named.lock[j]
  BY <1>1, WriteFacts
<1>3. Visible(named, s, k) \in {named.row[k], named.latest[k]}
  BY DEF Visible
<1>4. Follows(k, named.row[k], Visible(named, s, k))
  BY <1>1, <1>3, FollowsFacts
<1>5. Follows(k, named.row[k], v)
  BY <1>4, FollowsFacts
<1>6. ASSUME NEW i \in Named
      PROVE  /\ Follows(i, named'.row[i], named'.latest[i])
             /\ Follows(i, Visible(named, s, i), Visible(named', s, i))
  <2>1. CASE i = k
    BY <1>2, <1>5, <2>1 DEF Visible
  <2>2. CASE i # k
    <3>1. Visible(named', s, i) = Visible(named, s, i)
      BY <1>2, <2>2 DEF Visible
    <3>2. QED
      BY <1>1, <1>2, <2>2, <3>1, FollowsFacts
  <2>3. QED
    BY <2>1, <2>2
<1>7. QED
  BY <1>2, <1>6 DEF NamedMoves

LEMMA EntryLocks ==
  ASSUME IInv, NEW s \in Session, NEW e \in Entry, Free(entry, s, e),
         entry' = LockRow(entry, s, e)
  PROVE  /\ EntryMoves(s)
         /\ \A d \in Entry : Visible(entry', s, d) = Visible(entry, s, d)
         /\ \A t \in Entry : entry'.lock[t] = s /\ entry.lock[t] # s =>
              entry'.latest[t] = entry.row[t]
         /\ entry'.latest = entry.latest
<1>1. /\ entry \in Tables(Entry, EntryRow \cup {Missing}) /\ Settled(entry, Entry)
      /\ \A d \in Entry : entry.row[d] # Missing => entry.latest[d] # Missing
  BY DEF IInv, Typed
<1>2. /\ entry' \in Tables(Entry, EntryRow \cup {Missing}) /\ Settled(entry', Entry)
      /\ FrameOf(entry, entry', s, Entry)
      /\ entry'.row = entry.row /\ entry'.latest = entry.latest
      /\ \A j \in Entry : entry'.lock[j] = IF j = e THEN s ELSE entry.lock[j]
  BY <1>1, LockFacts
<1>3. \A d \in Entry : Visible(entry', s, d) = Visible(entry, s, d)
  BY <1>1, <1>2 DEF Visible, Free, Settled
<1>4. \A t \in Entry : entry'.lock[t] = s /\ entry.lock[t] # s => entry'.latest[t] = entry.row[t]
  BY <1>1, <1>2 DEF Free, Settled
<1>5. EntryMoves(s)
  BY <1>1, <1>2, <1>3 DEF EntryMoves
<1>6. QED
  BY <1>2, <1>3, <1>4, <1>5

LEMMA EntryWrites ==
  ASSUME IInv, NEW s \in Session, NEW e \in Entry, NEW v \in EntryRow, Free(entry, s, e),
         entry' = WriteRow(entry, s, e, v)
  PROVE  /\ EntryMoves(s)
         /\ \A j \in Entry : /\ entry'.latest[j] = IF j = e THEN v ELSE entry.latest[j]
                             /\ entry'.lock[j] = IF j = e THEN s ELSE entry.lock[j]
<1>1. /\ entry \in Tables(Entry, EntryRow \cup {Missing}) /\ Settled(entry, Entry)
      /\ \A d \in Entry : entry.row[d] # Missing => entry.latest[d] # Missing
  BY DEF IInv, Typed
<1>2. /\ entry' \in Tables(Entry, EntryRow \cup {Missing}) /\ Settled(entry', Entry)
      /\ FrameOf(entry, entry', s, Entry) /\ entry'.row = entry.row
      /\ \A j \in Entry : /\ entry'.latest[j] = IF j = e THEN v ELSE entry.latest[j]
                          /\ entry'.lock[j] = IF j = e THEN s ELSE entry.lock[j]
  BY <1>1, WriteFacts
<1>3. v # Missing
  BY MissingAssumption
<1>4. \A d \in Entry : Visible(entry, s, d) # Missing => Visible(entry', s, d) # Missing
  BY <1>2, <1>3 DEF Visible
<1>5. EntryMoves(s)
  BY <1>1, <1>2, <1>3, <1>4 DEF EntryMoves
<1>6. QED
  BY <1>2, <1>5

(* A step of s, seen by another session u. *)
LeavesOthers(s) ==
    /\ FrameOf(named, named', s, Named) /\ FrameOf(entry, entry', s, Entry)
    /\ \A i \in Named : Follows(i, named.row[i], named'.row[i])
    /\ \A e \in Entry : entry.row[e] # Missing => entry'.row[e] # Missing
    /\ seeds \subseteq seeds'
    /\ \A u \in Session \ {s} :
         /\ request'[u] = request[u] /\ pc'[u] = pc[u] /\ seen'[u] = seen[u]
         /\ refs'[u] = refs[u] /\ todo'[u] = todo[u]

LEMMA OrdinaryStays ==
  ASSUME NEW s \in Session, NEW c, Ordinary(s, c),
         \A i \in Named : Follows(i, Visible(named, s, i), Visible(named', s, i))
  PROVE  Ordinary(s, c)'
  BY IdFacts DEF Ordinary, Follows

LEMMA SeededStays ==
  ASSUME NEW s \in Session, HasSeeded(s), request'[s] = request[s], refs'[s] = refs[s],
         \A i \in Named : Follows(i, Visible(named, s, i), Visible(named', s, i))
  PROVE  HasSeeded(s)'
  BY IdFacts DEF HasSeeded, Follows, Active

LEMMA Bystander ==
  ASSUME IInv, NEW s \in Session, NEW u \in Session \ {s}, LeavesOthers(s)
  PROVE  SessionInv(u)'
<1>1. /\ request'[u] = request[u] /\ pc'[u] = pc[u] /\ seen'[u] = seen[u]
      /\ refs'[u] = refs[u] /\ todo'[u] = todo[u] /\ seeds \subseteq seeds'
  BY DEF LeavesOthers
<1>2. u # Nobody /\ u # s
  BY SessionAssumption
<1>3. SessionInv(u)
  BY DEF IInv
<1>4. ASSUME NEW i \in Named PROVE Follows(i, Visible(named, u, i), Visible(named', u, i))
  <2>1. CASE named.lock[i] \in {Nobody, s}
    BY <1>2, <2>1 DEF LeavesOthers, FrameOf, Visible
  <2>2. CASE named.lock[i] \notin {Nobody, s}
    <3>1. Visible(named', u, i) = Visible(named, u, i)
      BY <2>2 DEF LeavesOthers, FrameOf, Visible
    <3>2. QED
      BY <3>1, FollowsFacts
  <2>3. QED
    BY <2>1, <2>2
<1>5. ASSUME NEW e \in Entry
      PROVE  /\ Visible(entry, u, e) # Missing => Visible(entry', u, e) # Missing
             /\ entry'.lock[e] = u => entry.lock[e] = u /\ entry'.latest[e] = entry.latest[e]
  <2>1. CASE entry.lock[e] \in {Nobody, s}
    BY <1>2, <2>1 DEF LeavesOthers, FrameOf, Visible
  <2>2. CASE entry.lock[e] \notin {Nobody, s}
    BY <2>2 DEF LeavesOthers, FrameOf, Visible
  <2>3. QED
    BY <2>1, <2>2
<1>6. AtItsPlan(u)'
  BY <1>1, <1>3, <1>5 DEF SessionInv, AtItsPlan, Idle, OnPlan
<1>7. ~ Idle(u) => request[u] \in Request
  BY <1>3 DEF SessionInv, AtItsPlan
<1>8. HasRead(u)'
  <2>1. HasRead(u) /\ (Idle(u)' <=> Idle(u)) /\ (\A x : At(u, x)' <=> At(u, x))
    BY <1>1, <1>3 DEF SessionInv, Idle, At
  <2>2. ~ Idle(u) /\ request[u].op \in NamedOps => request[u].id \in Named
    BY <1>7, RequestFacts
  <2>3. MayClaim(u)' <=> MayClaim(u)
    BY <1>1 DEF MayClaim, Claimed
  <2>4. ASSUME request[u].op \in NamedOps \ Create, ~ Idle(u), ~ At(u, "fetch")
        PROVE  Follows(request[u].id, seen[u], Visible(named', u, request[u].id))
    <3>1. Follows(request[u].id, seen[u], Visible(named, u, request[u].id))
      BY <2>1, <2>4 DEF HasRead
    <3>2. Follows(request[u].id, Visible(named, u, request[u].id),
                  Visible(named', u, request[u].id))
      BY <1>4, <2>2, <2>4
    <3>3. QED
      BY <3>1, <3>2, FollowsFacts
  <2>5. QED
    BY <1>1, <2>1, <2>3, <2>4 DEF HasRead
<1>9. HasRow(u)'
  <2>1. HasRow(u) /\ (Idle(u)' <=> Idle(u)) /\ (\A x : At(u, x)' <=> At(u, x))
    BY <1>1, <1>3 DEF SessionInv, Idle, At
  <2>2. ~ Idle(u) /\ request[u].op \in LockOps \cup {"delete_inbox_item"} =>
          request[u].id \in Entry
    BY <1>7, RequestFacts
  <2>3. QED
    BY <1>1, <1>5, <2>1, <2>2 DEF HasRow
<1>10. HasChecked(u)'
  BY <1>1, <1>3, <1>4, OrdinaryStays DEF SessionInv, HasChecked, At, Idle
<1>11. HasSeeded(u)'
  BY <1>1, <1>3, <1>4, SeededStays DEF SessionInv
<1>12. WritesAreFiled(u)'
  <2>1. \A c : Ordinary(u, c) => Ordinary(u, c)'
    BY <1>4, OrdinaryStays
  <2>2. WritesAreFiled(u)
    BY <1>3 DEF SessionInv
  <2>3. ASSUME NEW t \in Txn, entry'.lock[t] = u
        PROVE  /\ entry'.latest[t] # Missing
               /\ IF request'[u].op = "create_opening_balance" THEN t \in request'[u].rows
                  ELSE t \notin seeds' => Ordinary(u, entry.latest[t].category)'
    <3>1. entry.lock[t] = u /\ entry'.latest[t] = entry.latest[t]
      BY <1>5, <2>3, IdFacts
    <3>2. /\ entry.latest[t] # Missing
          /\ IF request[u].op = "create_opening_balance" THEN t \in request[u].rows
             ELSE t \notin seeds => Ordinary(u, entry.latest[t].category)
      BY <2>2, <3>1 DEF WritesAreFiled
    <3>3. Ordinary(u, entry.latest[t].category) => Ordinary(u, entry.latest[t].category)'
      BY <2>1, <3>1 DEF Ordinary
    <3>4. QED
      BY <1>1, <3>1, <3>2, <3>3
  <2>4. QED
    BY <2>3 DEF WritesAreFiled
<1>13. QED
  BY <1>6, <1>8, <1>9, <1>10, <1>11, <1>12 DEF SessionInv

-----------------------------------------------------------------------------
(* A statement of s.                                                         *)

(* Its place in the plan: a batch stays at its insertions until the last.    *)
Moves(s) == Advances(s) \/ (UNCHANGED pc /\ At(s, "insert_rows"))

Local(s) ==
    /\ seen' \in [Session -> NamedRow \cup EntryRow \cup {Missing}]
    /\ refs' \in [Session -> Refs] /\ todo' \in [Session -> SUBSET Entry]
    /\ todo'[s] \subseteq todo[s]
    /\ \A u \in Session \ {s} :
         seen'[u] = seen[u] /\ refs'[u] = refs[u] /\ todo'[u] = todo[u]
    /\ UNCHANGED <<request, seeds>>

LEMMA MoveFacts ==
  ASSUME IInv, NEW s \in Session, ~ Idle(s), ~ At(s, "commit"), Moves(s), UNCHANGED request
  PROVE  LET op == request[s].op IN
         /\ pc' \in [Session -> Seq(Statements)]
         /\ \A u \in Session \ {s} : pc'[u] = pc[u]
         /\ OnPlan(s)' /\ ~ Idle(s)'
         /\ At(s, "insert_rows")' /\ op \in Guarded =>
              At(s, "category_check") \/ At(s, "insert_rows")
         /\ At(s, "write_entry")' /\ op \in Guarded =>
              At(s, "category_check") \/ At(s, "insert_rows")
         /\ At(s, "write_named")' /\ op \in Checks => At(s, "name_check")
<1>1. AtItsPlan(s) /\ pc \in [Session -> Seq(Statements)]
  BY DEF IInv, Typed, SessionInv
<1>2. CASE Advances(s)
  <2>1. request[s].op \in Guarded => request[s].op # "create_opening_balance"
    BY DEF Guarded
  <2>2. QED
    BY <1>1, <1>2, <2>1, PlanAdvances
<1>3. CASE UNCHANGED pc /\ At(s, "insert_rows")
  <2>1. OnPlan(s)' /\ ~ Idle(s)'
    BY <1>1, <1>3 DEF AtItsPlan, OnPlan, Idle
  <2>2. ~ At(s, "write_named")'
    BY <1>3 DEF At
  <2>3. QED
    BY <1>1, <1>3, <2>1, <2>2
<1>4. QED
  BY <1>2, <1>3 DEF Moves

LEMMA WorkingReads ==
  ASSUME IInv, NEW s \in Session, ~ Idle(s), ~ At(s, "commit"), Moves(s), Local(s),
         NamedMoves(s),
         seen'[s] = seen[s] \/ At(s, "fetch"),
         At(s, "name_check") => MayClaim(s),
         At(s, "fetch") /\ request[s].op \in NamedOps =>
           /\ seen'[s] # Missing
           /\ Follows(request[s].id, seen'[s], Visible(named', s, request[s].id))
           /\ request[s].op = "delete_category" => ~ seen'[s].system
  PROVE  HasRead(s)'
<1>1. /\ AtItsPlan(s) /\ HasRead(s) /\ pc[s] \in Seq(Statements)
      /\ request[s] \in Request
  BY DEF IInv, Typed, SessionInv, AtItsPlan
<1>2. request[s].op \in Create => seen'[s] = Missing
  <2>1. "delete_inbox_item" \notin Create
    BY DEF Create
  <2>2. QED
    BY <1>1, <2>1, Stations DEF HasRead
<1>3. ASSUME request[s].op \in NamedOps \ Create, ~ At(s, "fetch")
      PROVE  /\ seen'[s] # Missing
             /\ Follows(request[s].id, seen'[s], Visible(named', s, request[s].id))
             /\ request[s].op = "delete_category" => ~ seen'[s].system
  <2>1. /\ seen'[s] = seen[s] /\ seen[s] # Missing
        /\ Follows(request[s].id, seen[s], Visible(named, s, request[s].id))
        /\ request[s].op = "delete_category" => ~ seen[s].system
    BY <1>1, <1>3 DEF HasRead
  <2>2. Follows(request[s].id, Visible(named, s, request[s].id),
                Visible(named', s, request[s].id))
    BY <1>1, <1>3, RequestFacts DEF NamedMoves
  <2>3. QED
    BY <2>1, <2>2, FollowsFacts
<1>4. request' = request
  BY DEF Local
<1>5. request[s].op \in Checks /\ At(s, "write_named")' => MayClaim(s)'
  <2>1. SUFFICES ASSUME request[s].op \in Checks, At(s, "write_named")' PROVE MayClaim(s)'
    OBVIOUS
  <2>2. At(s, "name_check")
    BY <1>4, <2>1, MoveFacts
  <2>3. seen'[s] = seen[s] /\ MayClaim(s)
    BY <2>2 DEF At
  <2>4. QED
    BY <1>4, <2>3 DEF MayClaim, Claimed
<1>6. QED
  BY <1>2, <1>3, <1>4, <1>5 DEF HasRead

LEMMA Working ==
  ASSUME IInv, [Next]_vars, NEW s \in Session, ~ Idle(s), ~ At(s, "commit"), Moves(s),
         Local(s), NamedMoves(s), EntryMoves(s), HasRead(s)',
         refs'[s] = refs[s] \/ At(s, "lock")
           \/ (request[s].op = "create_opening_balance" /\ HasSeeded(s)'),
         At(s, "category_check") => CategoryUsable(s),
         (At(s, "lock") \/ At(s, "fetch"))
             /\ request[s].op \in LockOps \cup {"delete_inbox_item"} =>
           Visible(entry', s, request[s].id) # Missing,
         UNCHANGED entry \/ WritesAreFiled(s)'
  PROVE  IInv'
<1>1. /\ AtItsPlan(s) /\ HasRow(s) /\ HasChecked(s) /\ HasSeeded(s) /\ WritesAreFiled(s)
      /\ pc[s] \in Seq(Statements) /\ request[s] \in Request
      /\ request \in [Session -> Request \cup {NoRequest}]
  BY DEF IInv, Typed, SessionInv, AtItsPlan
<1>2. /\ pc' \in [Session -> Seq(Statements)] /\ OnPlan(s)' /\ ~ Idle(s)'
      /\ \A u \in Session \ {s} : pc'[u] = pc[u]
      /\ request' = request /\ seeds' = seeds
      /\ named'.row = named.row /\ entry'.row = entry.row
  BY MoveFacts DEF Local, NamedMoves, EntryMoves
<1>3. Typed'
  BY <1>1, <1>2 DEF Typed, Local, NamedMoves, EntryMoves
<1>4. IndexInv'
  BY StepIndexed DEF IInv
<1>5. /\ Settled(entry, Entry)'
      /\ (\A i \in Named : Follows(i, named.row[i], named.latest[i]))'
      /\ (\A e \in Entry : entry.row[e] # Missing => entry.latest[e] # Missing)'
  BY DEF NamedMoves, EntryMoves
<1>6. RowsAreFiled'
  BY <1>2 DEF IInv, RowsAreFiled
<1>7. ASSUME NEW u \in Session \ {s} PROVE SessionInv(u)'
  <2>1. LeavesOthers(s)
    BY <1>2, FollowsFacts DEF LeavesOthers, Local, NamedMoves, EntryMoves
  <2>2. QED
    BY <2>1, Bystander
<1>8. AtItsPlan(s)'
  BY <1>1, <1>2 DEF AtItsPlan, Local
<1>9. HasRow(s)'
  <2>1. request[s].op \in LockOps \cup {"delete_inbox_item"} => request[s].id \in Entry
    BY <1>1, RequestFacts
  <2>2. QED
    BY <1>1, <1>2, <2>1 DEF HasRow, EntryMoves
<1>10. \A c : Ordinary(s, c) => Ordinary(s, c)'
  BY OrdinaryStays DEF NamedMoves
<1>11. HasChecked(s)'
  <2>1. SUFFICES ASSUME request[s].op \in Guarded, At(s, "insert_rows")' \/ At(s, "write_entry")'
                 PROVE  Ordinary(s, refs[s].category)'
    BY <1>2 DEF HasChecked
  <2>2. At(s, "category_check") \/ At(s, "insert_rows")
    BY <1>2, <2>1, MoveFacts
  <2>3. Ordinary(s, refs[s].category)
    <3>1. CASE At(s, "insert_rows")
      BY <1>1, <2>1, <3>1 DEF HasChecked
    <3>2. CASE At(s, "category_check")
      <4>1. CategoryUsable(s) /\ request[s].op \notin TakesSystem
        BY <2>1, <3>2 DEF Guarded, TakesSystem
      <4>2. QED
        BY <4>1, IdFacts DEF CategoryUsable, Ordinary, Row, Active
    <3>3. QED
      BY <2>2, <3>1, <3>2
  <2>4. refs'[s] = refs[s]
    <3>1. ~ At(s, "lock")
      BY <2>2 DEF At
    <3>2. request[s].op # "create_opening_balance"
      BY <2>1 DEF Guarded
    <3>3. QED
      BY <3>1, <3>2
  <2>5. QED
    BY <1>10, <2>3, <2>4 DEF Ordinary
<1>12. HasSeeded(s)'
  <2>1. CASE refs'[s] = refs[s]
    BY <1>1, <1>2, <2>1, SeededStays DEF NamedMoves
  <2>2. CASE At(s, "lock")
    <3>1. request[s].op # "create_opening_balance"
      BY <1>1, <2>2, Stations DEF LockOps
    <3>2. QED
      BY <1>2, <3>1 DEF HasSeeded
  <2>3. QED
    BY <2>1, <2>2
<1>13. WritesAreFiled(s)'
  <2>1. CASE UNCHANGED entry
    <3>1. ASSUME NEW t \in Txn, entry.lock[t] = s
          PROVE  /\ entry.latest[t] # Missing
                 /\ IF request[s].op = "create_opening_balance" THEN t \in request[s].rows
                    ELSE t \notin seeds => Ordinary(s, entry.latest[t].category)'
      <4>1. Ordinary(s, entry.latest[t].category) => Ordinary(s, entry.latest[t].category)'
        BY <1>10, <2>1 DEF Ordinary
      <4>2. QED
        BY <1>1, <3>1, <4>1 DEF WritesAreFiled
    <3>2. QED
      BY <1>2, <2>1, <3>1 DEF WritesAreFiled
  <2>2. QED
    BY <2>1
<1>14. SessionInv(s)'
  BY <1>8, <1>9, <1>11, <1>12, <1>13 DEF SessionInv
<1>15. QED
  BY <1>3, <1>4, <1>5, <1>6, <1>7, <1>14 DEF IInv

-----------------------------------------------------------------------------
(* The statements that only read.                                            *)

LEMMA ProceedMoves ==
  ASSUME NEW s \in Session, Proceed(s) PROVE Moves(s) /\ UNCHANGED <<request, seeds>>
  BY DEF Proceed, Moves, Advances

LEMMA Looking ==
  ASSUME IInv, [Next]_vars, NEW s \in Session, ~ Idle(s), ~ At(s, "commit"), ~ At(s, "fetch"),
         ~ At(s, "lock"), Proceed(s), UNCHANGED <<named, entry, seen, refs, todo>>,
         At(s, "name_check") => MayClaim(s), At(s, "category_check") => CategoryUsable(s)
  PROVE  IInv'
<1>1. Moves(s) /\ UNCHANGED <<request, seeds>>
  BY ProceedMoves
<1>2. Local(s)
  BY <1>1 DEF Local, IInv, Typed
<1>3. NamedMoves(s) /\ EntryMoves(s)
  BY NamedRests, EntryRests
<1>4. HasRead(s)'
  BY <1>1, <1>2, <1>3, WorkingReads
<1>5. QED
  BY <1>1, <1>2, <1>3, <1>4, Working

LEMMA Checking ==
  ASSUME IInv, [Next]_vars, NEW s \in Session,
         \/ NameCheck(s) \/ TxnCheck(s) \/ DraftCheck(s) \/ AccountCheck(s)
         \/ CategoryCheck(s) \/ SeedCheck(s)
  PROVE  IInv'
<1>1. /\ \E x \in {"name_check", "txn_check", "draft_check", "account_check",
                   "category_check", "seed_check"} :
           /\ ~ Idle(s) /\ Head(pc[s]) = x
           /\ x = "name_check" => MayClaim(s)
           /\ x = "category_check" => CategoryUsable(s)
      /\ Proceed(s) /\ UNCHANGED <<named, entry, seen, refs, todo>>
  BY DEF NameCheck, TxnCheck, DraftCheck, AccountCheck, CategoryCheck, SeedCheck, At
<1>2. QED
  BY <1>1, Looking DEF At

LEMMA Fetching ==
  ASSUME IInv, [Next]_vars, NEW s \in Session, Fetch(s)
  PROVE  IInv'
<1> DEFINE q == request[s]
           v == Row(s, q.id)
<1>1. /\ ~ Idle(s) /\ At(s, "fetch") /\ ~ At(s, "commit") /\ ~ At(s, "name_check")
      /\ ~ At(s, "category_check") /\ ~ At(s, "lock")
      /\ Found(q, v) /\ seen' = [seen EXCEPT ![s] = v] /\ Proceed(s)
      /\ UNCHANGED <<named, entry, refs, todo>>
  BY DEF Fetch, At
<1>2. /\ q \in Request /\ q.op \in (NamedOps \ Create) \cup {"delete_inbox_item"}
  BY <1>1, Stations DEF IInv, Typed, SessionInv
<1>3. v # Missing /\ (q.op = "delete_category" => ~ v.system)
  BY <1>1 DEF Found, Active, Buried
<1>4. /\ q.op \in NamedOps => q.id \in Named /\ v = Visible(named, s, q.id)
      /\ q.op \in LockOps \cup {"delete_inbox_item"} =>
           q.id \in Entry /\ v = Visible(entry, s, q.id)
  <2>1. q.op = "delete_inbox_item" => q.id \notin Named
    BY <1>2, RequestFacts, IdFacts
  <2>2. /\ q.op \in NamedOps => q.id \in Named
        /\ q.op \in LockOps \cup {"delete_inbox_item"} => q.id \in Entry
    BY <1>2, RequestFacts
  <2>3. q.id \in Entry => q.id \notin Named
    BY IdFacts
  <2>4. QED
    BY <2>2, <2>3 DEF Row
<1>5. v \in NamedRow \cup EntryRow \cup {Missing}
  BY <1>2, <1>4 DEF IInv, Typed, Tables, Visible
<1>6. Moves(s) /\ UNCHANGED <<request, seeds>>
  BY <1>1, ProceedMoves
<1> HIDE DEF v
<1>7. Local(s) /\ seen'[s] = v
  BY <1>1, <1>5, <1>6 DEF Local, IInv, Typed
<1>8. NamedMoves(s) /\ EntryMoves(s)
  BY <1>1, NamedRests, EntryRests
<1>9. HasRead(s)'
  <2>1. q.op \in NamedOps => Follows(q.id, seen'[s], Visible(named', s, q.id))
    BY <1>1, <1>4, <1>7, FollowsFacts
  <2>2. QED
    BY <1>1, <1>3, <1>6, <1>7, <1>8, <2>1, WorkingReads
<1>10. QED
  BY <1>1, <1>3, <1>4, <1>6, <1>7, <1>8, <1>9, Working

-----------------------------------------------------------------------------
(* ensure_system_category.                                                   *)

LEMMA SystemRowFacts ==
  ASSUME NEW s \in Session, NEW c \in SystemRows(s)
  PROVE  c \in Category /\ Active(Visible(named, s, c)) /\ Visible(named, s, c).system
  BY IdFacts DEF SystemRows, Sees, Row, Active

(* The handler has found the system category, or made it. *)
LEMMA Seeding ==
  ASSUME IInv, [Next]_vars, NEW s \in Session, ~ Idle(s), ~ At(s, "commit"), ~ At(s, "fetch"),
         ~ At(s, "lock"), ~ At(s, "name_check"), ~ At(s, "category_check"),
         request[s].op = "create_opening_balance", NEW c \in Category,
         Moves(s), refs' = [refs EXCEPT ![s].category = c], NamedMoves(s),
         Active(Visible(named', s, c)), Visible(named', s, c).system,
         UNCHANGED <<request, seeds, entry, seen, todo>>
  PROVE  IInv'
<1>1. refs \in [Session -> Refs] /\ refs'[s].category = c /\ refs' \in [Session -> Refs]
      /\ \A u \in Session \ {s} : refs'[u] = refs[u]
  BY DEF IInv, Typed, Refs
<1>2. Local(s)
  BY <1>1 DEF Local, IInv, Typed
<1>3. HasRead(s)'
  BY <1>2, WorkingReads
<1>4. HasSeeded(s)'
  BY <1>1 DEF HasSeeded
<1>5. EntryMoves(s)
  BY EntryRests
<1>6. QED
  BY <1>2, <1>3, <1>4, <1>5, Working

LEMMA Finding ==
  ASSUME IInv, [Next]_vars, NEW s \in Session, FindSystem(s)
  PROVE  IInv'
<1>1. /\ ~ Idle(s) /\ At(s, "find_system") /\ ~ At(s, "commit") /\ ~ At(s, "name_check")
      /\ ~ At(s, "category_check") /\ ~ At(s, "lock") /\ ~ At(s, "fetch")
      /\ UNCHANGED <<named, entry, seen, todo>>
  BY DEF FindSystem, At
<1>2. request[s].op = "create_opening_balance"
  BY <1>1, Stations DEF IInv, Typed, SessionInv
<1>3. CASE Proceed(s) /\ UNCHANGED refs
  BY <1>1, <1>3, Looking
<1>4. ASSUME NEW c \in SystemRows(s), refs' = [refs EXCEPT ![s].category = c],
             pc' = [pc EXCEPT ![s] = SubSeq(@, 4, Len(@))],
             UNCHANGED <<request, seeds>>
      PROVE  IInv'
  <2>1. Moves(s)
    <3>1. pc' = [pc EXCEPT ![s] = IF 3 = 1 THEN Tail(@) ELSE SubSeq(@, 3 + 1, Len(@))]
      BY <1>4
    <3>2. QED
      BY <1>1, <3>1 DEF Moves, Advances
  <2>2. NamedMoves(s)
    BY <1>1, NamedRests
  <2>3. /\ c \in Category /\ Active(Visible(named', s, c)) /\ Visible(named', s, c).system
    BY <1>1, SystemRowFacts
  <2>4. QED
    BY <1>1, <1>2, <1>4, <2>1, <2>2, <2>3, Seeding
<1>5. QED
  BY <1>3, <1>4 DEF FindSystem

LEMMA Rereading ==
  ASSUME IInv, [Next]_vars, NEW s \in Session, RereadSystem(s)
  PROVE  IInv'
<1>1. /\ ~ Idle(s) /\ At(s, "reread_system") /\ ~ At(s, "commit") /\ ~ At(s, "name_check")
      /\ ~ At(s, "category_check") /\ ~ At(s, "lock") /\ ~ At(s, "fetch")
      /\ SystemRows(s) # {} /\ refs' = [refs EXCEPT ![s].category = Winner(s)] /\ Proceed(s)
      /\ UNCHANGED <<named, entry, seen, todo>>
  BY DEF RereadSystem, At
<1>2. request[s].op = "create_opening_balance"
  BY <1>1, Stations DEF IInv, Typed, SessionInv
<1>3. Winner(s) \in SystemRows(s)
  BY <1>1 DEF Winner
<1>4. Moves(s) /\ UNCHANGED <<request, seeds>> /\ NamedMoves(s)
  BY <1>1, ProceedMoves, NamedRests
<1>5. PICK c \in SystemRows(s) : refs' = [refs EXCEPT ![s].category = c]
  BY <1>1, <1>3
<1>6. c \in Category /\ Active(Visible(named', s, c)) /\ Visible(named', s, c).system
  BY <1>1, SystemRowFacts
<1>7. QED
  BY <1>1, <1>2, <1>4, <1>5, <1>6, Seeding

LEMMA NewNamedFacts ==
  ASSUME NEW n \in Name \cup AccountName, NEW system \in BOOLEAN
  PROVE  LET v == NewNamed(n, system) IN
         /\ v \in NamedRow /\ v # Missing /\ v.name = n /\ v.active /\ (v.system <=> system)
<1>1. [name |-> n, active |-> TRUE, archived |-> FALSE, system |-> system] \in NamedRow
  BY DEF NamedRow
<1>2. QED
  BY <1>1, MissingAssumption DEF NewNamed

LEMMA Inserting ==
  ASSUME IInv, [Next]_vars, NEW s \in Session, InsertSystem(s)
  PROVE  IInv'
<1> DEFINE c == request[s].category
           v == NewNamed(Reserved, TRUE)
<1>1. /\ ~ Idle(s) /\ At(s, "insert_system") /\ ~ At(s, "commit") /\ ~ At(s, "name_check")
      /\ ~ At(s, "category_check") /\ ~ At(s, "lock") /\ ~ At(s, "fetch")
      /\ UNCHANGED <<entry, seen, todo>>
  BY DEF InsertSystem, At
<1>2. /\ request[s].op = "create_opening_balance" /\ request[s] \in Request
  BY <1>1, Stations DEF IInv, Typed, SessionInv
<1>3. c \in Category /\ c \in Named
  BY <1>2, RequestFacts, IdFacts
<1>4. v \in NamedRow /\ v # Missing /\ v.active /\ v.system
  BY NameAssumption, NewNamedFacts
<1>5. CASE UNCHANGED <<named, refs>> /\ Proceed(s)
  BY <1>1, <1>5, Looking
<1>6. ASSUME Free(named, s, c), Visible(named, s, c) = Missing, named' = WriteRow(named, s, c, v),
             refs' = [refs EXCEPT ![s].category = c],
             pc' = [pc EXCEPT ![s] = SubSeq(@, 3, Len(@))], UNCHANGED <<request, seeds>>
      PROVE  IInv'
  <2> HIDE DEF c, v
  <2>1. Moves(s)
    <3>1. pc' = [pc EXCEPT ![s] = IF 2 = 1 THEN Tail(@) ELSE SubSeq(@, 2 + 1, Len(@))]
      BY <1>6
    <3>2. QED
      BY <1>1, <3>1 DEF Moves, Advances
  <2>2. Follows(c, Visible(named, s, c), v)
    BY <1>4, <1>6 DEF Follows, Squat
  <2>3. NamedMoves(s)
    BY <1>3, <1>4, <1>6, <2>2, NamedWrites
  <2>4. Visible(named', s, c) = v
    BY <1>3, <1>6 DEF WriteRow, Visible, IInv, Typed, Tables
  <2>5. QED
    BY <1>1, <1>2, <1>3, <1>4, <1>6, <2>1, <2>3, <2>4, Seeding DEF Active
<1>7. QED
  BY <1>5, <1>6 DEF InsertSystem

-----------------------------------------------------------------------------
(* The statements that write.                                                *)

(***************************************************************************)
(* The statement makes a later version of the row it finds, of whatever    *)
(* version that is by now: the handler has looked at an earlier one.       *)
(***************************************************************************)
LEMMA NamedAfterFollows ==
  ASSUME IInv, NEW s \in Session, At(s, "write_named"), ~ Idle(s),
         Applies(request[s], Visible(named, s, request[s].id))
  PROVE  LET k == request[s].id
             old == Visible(named, s, k)
             new == NamedAfter(request[s], old) IN
         k \in Named /\ new \in NamedRow /\ Follows(k, old, new)
<1> DEFINE q == request[s]
           k == q.id
           old == Visible(named, s, k)
           new == NamedAfter(q, old)
<1>1. /\ q \in Request /\ q.op \in NamedOps /\ HasRead(s)
      /\ ~ At(s, "fetch") /\ k \in TableOf(q.op) /\ k \in Named
  <2>1. AtItsPlan(s) /\ HasRead(s) /\ pc[s] \in Seq(Statements)
    BY DEF IInv, Typed, SessionInv
  <2>2. q \in Request /\ q.op \in NamedOps
    BY <2>1, Stations
  <2>3. k \in Named
    BY <2>2, RequestFacts
  <2>4. QED
    BY <2>1, <2>2, <2>3 DEF AtItsPlan, At
<1>2. old \in NamedRow \cup {Missing} /\ (q.op \in Create => old = Missing)
      /\ (q.op \notin Create => old # Missing)
  <2>1. old \in NamedRow \cup {Missing}
    BY <1>1 DEF IInv, Typed, Tables, Visible
  <2>2. QED
    BY <1>1, <2>1 DEF Applies, Active, Buried, Create, Rename, Restore
<1>3. k \in Category => TableOf(q.op) = Category
  <2>1. TableOf(q.op) \in {Account, Category, Hashtag}
    BY DEF TableOf
  <2>2. QED
    BY <1>1, <2>1, IdFacts
<1>4. q.op \in Checks => MayClaim(s)
  BY <1>1 DEF HasRead
<1>5. q.op \in NamedOps \ Create => seen[s] # Missing /\ Follows(k, seen[s], old)
  BY <1>1 DEF HasRead
<1> HIDE DEF old, k, q
<1>6. CASE q.op \in Create
  <2>1. new = [name |-> q.name, active |-> TRUE, archived |-> FALSE, system |-> FALSE]
    BY <1>6 DEF NamedAfter, NewNamed, Create, Rename, Restore, Delete, Archive
  <2>2. q.name \in Name \cup AccountName
    BY <1>1, <1>6, RequestFacts
  <2>3. new \in NamedRow
    BY <2>1, <2>2 DEF NamedRow
  <2>4. k \in Category => q.name # Reserved
    <3>1. seen[s] = Missing
      BY <1>1, <1>6 DEF HasRead, q
    <3>2. Claimed(s) = q.name
      BY <1>6 DEF Claimed, Create, Restore, q
    <3>3. QED
      BY <1>3, <1>4, <1>6, <3>1, <3>2 DEF MayClaim, Checks, q
  <2>5. Follows(k, old, new)
    BY <1>2, <1>6, <2>1, <2>4 DEF Follows, Squat
  <2>6. QED
    BY <1>1, <2>3, <2>5 DEF k, q, old
<1>7. CASE q.op \in Rename
  <2>1. old \in NamedRow /\ old # Missing /\ new = [old EXCEPT !.name = q.name]
    BY <1>2, <1>7 DEF NamedAfter, Create, Rename, Restore, Delete, Archive
  <2>2. q.name \in Name \cup AccountName
    BY <1>1, <1>7, RequestFacts
  <2>3. /\ new \in NamedRow /\ new.name = q.name /\ new.active = old.active
        /\ new.system = old.system
    BY <2>1, <2>2 DEF NamedRow
  <2>4. k \in Category /\ ~ old.system => q.name # Reserved
    <3>1. q.op \notin Create /\ q.op \in Checks /\ q.op \in NamedOps
      BY <1>7 DEF Create, Rename, Checks, NamedOps
    <3>2. Claimed(s) = q.name
      BY <1>7 DEF Claimed, Rename, Restore, q
    <3>3. seen[s].system <=> old.system
      BY <1>5, <3>1 DEF Follows
    <3>4. QED
      BY <1>3, <1>4, <3>1, <3>2, <3>3 DEF MayClaim, q
  <2>5. Follows(k, old, new)
    BY <2>1, <2>3, <2>4, MissingAssumption DEF Follows, Squat
  <2>6. QED
    BY <1>1, <2>3, <2>5 DEF k, q, old
<1>8. CASE q.op \in Restore
  <2>1. old \in NamedRow /\ old # Missing /\ new = [old EXCEPT !.active = TRUE]
    BY <1>2, <1>8 DEF NamedAfter, Create, Rename, Restore, Delete, Archive
  <2>2. /\ new \in NamedRow /\ new.name = old.name /\ new.active = TRUE
        /\ new.system = old.system
    BY <2>1 DEF NamedRow
  <2>3. k \in Category /\ ~ old.system => old.name # Reserved
    <3>1. q.op \notin Create /\ q.op \in Checks /\ q.op \in NamedOps
      BY <1>8 DEF Create, Restore, Checks, NamedOps
    <3>2. Claimed(s) = seen[s].name
      BY <1>8 DEF Claimed, q
    <3>3. /\ seen[s].system <=> old.system
          /\ k \in Category /\ ~ seen[s].system /\ seen[s].name # Reserved => old.name # Reserved
      BY <1>5, <3>1 DEF Follows
    <3>4. QED
      BY <1>3, <1>4, <3>1, <3>2, <3>3 DEF MayClaim, q
  <2>4. Follows(k, old, new)
    BY <2>1, <2>2, <2>3, MissingAssumption DEF Follows, Squat
  <2>5. QED
    BY <1>1, <2>2, <2>4 DEF k, q, old
<1>9. CASE q.op \in Delete
  <2>1. old \in NamedRow /\ old # Missing /\ new = [old EXCEPT !.active = FALSE]
    BY <1>2, <1>9 DEF NamedAfter, Create, Rename, Restore, Delete, Archive
  <2>2. /\ new \in NamedRow /\ new.name = old.name /\ new.active = FALSE
        /\ new.system = old.system
    BY <2>1 DEF NamedRow
  <2>3. k \in Category => ~ old.system
    <3>1. SUFFICES ASSUME k \in Category PROVE ~ old.system
      OBVIOUS
    <3>2. TableOf("delete_account") = Account /\ TableOf("delete_hashtag") = Hashtag
      BY DEF TableOf, Archive
    <3>3. q.op = "delete_category"
      BY <1>3, <1>9, <3>1, <3>2, IdFacts DEF Delete
    <3>4. ~ seen[s].system
      BY <1>1, <3>3 DEF HasRead, NamedOps, Create, Delete, Idle, q
    <3>5. QED
      BY <1>5, <3>3, <3>4 DEF NamedOps, Create, Delete, Follows
  <2>4. Follows(k, old, new)
    BY <2>1, <2>2, <2>3, MissingAssumption DEF Follows, Squat, Active
  <2>5. QED
    BY <1>1, <2>2, <2>4 DEF k, q, old
<1>10. CASE q.op \in Archive
  <2>1. old \in NamedRow /\ old # Missing /\ q.op \in {"archive_account", "unarchive_account"}
    BY <1>2, <1>10 DEF Create, Archive
  <2>2. new = [old EXCEPT !.archived = (q.op = "archive_account")]
    BY <2>1 DEF NamedAfter, Create, Rename, Restore, Delete, Archive
  <2>3. /\ new \in NamedRow /\ new.name = old.name /\ new.active = old.active
        /\ new.system = old.system
    BY <2>1, <2>2 DEF NamedRow
  <2>4. Follows(k, old, new)
    BY <2>1, <2>3, MissingAssumption DEF Follows, Squat, Active
  <2>5. QED
    BY <1>1, <2>3, <2>4 DEF k, q, old
<1>11. QED
  BY <1>1, <1>6, <1>7, <1>8, <1>9, <1>10 DEF NamedOps, q

LEMMA WritingNamed ==
  ASSUME IInv, [Next]_vars, NEW s \in Session, WriteNamed(s)
  PROVE  IInv'
<1> DEFINE k == request[s].id
           v == NamedAfter(request[s], Visible(named, s, k))
<1>1. /\ ~ Idle(s) /\ At(s, "write_named") /\ ~ At(s, "commit") /\ ~ At(s, "name_check")
      /\ ~ At(s, "category_check") /\ ~ At(s, "lock") /\ ~ At(s, "fetch")
      /\ Free(named, s, k) /\ Applies(request[s], Visible(named, s, k))
      /\ named' = WriteRow(named, s, k, v) /\ Proceed(s)
      /\ UNCHANGED <<entry, seen, refs, todo>>
  BY DEF WriteNamed, At
<1>2. k \in Named /\ v \in NamedRow /\ Follows(k, Visible(named, s, k), v)
  BY <1>1, NamedAfterFollows
<1>3. Moves(s) /\ UNCHANGED <<request, seeds>>
  BY <1>1, ProceedMoves
<1> HIDE DEF k, v
<1>4. NamedMoves(s) /\ EntryMoves(s)
  BY <1>1, <1>2, NamedWrites, EntryRests
<1>5. Local(s)
  BY <1>1, <1>3 DEF Local, IInv, Typed
<1>6. HasRead(s)'
  BY <1>1, <1>3, <1>4, <1>5, WorkingReads
<1>7. QED
  BY <1>1, <1>3, <1>4, <1>5, <1>6, Working

(* What s sees of a row that no opening balance filed is not under the *)
(* system category, nor will it be.                                    *)
LEMMA VisibleIsFiled ==
  ASSUME IInv, NEW s \in Session, NEW t \in Txn, t \notin seeds,
         request[s].op # "create_opening_balance", Visible(entry, s, t) # Missing
  PROVE  Ordinary(s, Visible(entry, s, t).category)
<1>1. CASE entry.lock[t] = s
  BY <1>1 DEF IInv, SessionInv, WritesAreFiled, Visible
<1>2. CASE entry.lock[t] # s
  <2>1. Visible(entry, s, t) = entry.row[t]
    BY <1>2 DEF Visible
  <2>2. ASSUME NEW c \in Category, c = entry.row[t].category
        PROVE  Visible(named, s, c) # Missing /\ ~ Visible(named, s, c).system
    <3>1. named.row[c] # Missing /\ ~ named.row[c].system
      BY <2>1, <2>2 DEF IInv, RowsAreFiled
    <3>2. Follows(c, named.row[c], named.latest[c])
      BY IdFacts DEF IInv
    <3>3. QED
      BY <3>1, <3>2 DEF Follows, Visible
  <2>3. QED
    BY <2>1, <2>2 DEF Ordinary
<1>3. QED
  BY <1>1, <1>2

(* The rows of s stay filed if each that it writes is. *)
LEMMA Filing ==
  ASSUME IInv, NEW s \in Session, UNCHANGED <<named, request, seeds>>,
         \A t \in Txn : entry'.lock[t] = s =>
           \/ entry.lock[t] = s /\ entry'.latest[t] = entry.latest[t]
           \/ /\ entry'.latest[t] # Missing
              /\ IF request[s].op = "create_opening_balance" THEN t \in request[s].rows
                 ELSE t \notin seeds => Ordinary(s, entry'.latest[t].category)
  PROVE  WritesAreFiled(s)'
<1>1. WritesAreFiled(s)
  BY DEF IInv, SessionInv
<1>2. QED
  BY <1>1 DEF WritesAreFiled, Ordinary

LEMMA Locking ==
  ASSUME IInv, [Next]_vars, NEW s \in Session, LockEntry(s)
  PROVE  IInv'
<1> DEFINE q == request[s]
           v == Visible(entry, s, q.id)
<1>1. /\ ~ Idle(s) /\ At(s, "lock") /\ ~ At(s, "commit") /\ ~ At(s, "name_check")
      /\ ~ At(s, "category_check") /\ ~ At(s, "fetch")
      /\ Free(entry, s, q.id) /\ Found(q, v)
      /\ entry' = LockRow(entry, s, q.id) /\ Proceed(s)
      /\ UNCHANGED <<named, seen, todo>>
      /\ refs' = IF q.op \in {"restore_transaction", "promote_inbox_item"}
                 THEN [refs EXCEPT ![s] = [account |-> v.account, category |-> v.category]]
                 ELSE refs
  BY DEF LockEntry, At
<1>2. q \in Request /\ q.op \in LockOps /\ q.id \in Entry
  BY <1>1, Stations, RequestFacts DEF IInv, Typed, SessionInv
<1>3. Moves(s) /\ UNCHANGED <<request, seeds>>
  BY <1>1, ProceedMoves
<1>4. v # Missing
  BY <1>1 DEF Found, Active, Buried
<1>5. v \in EntryRow
  BY <1>2, <1>4 DEF IInv, Typed, Tables, Visible
<1> HIDE DEF v
<1>6. Local(s)
  <2>1. [account |-> v.account, category |-> v.category] \in Refs
    BY <1>5 DEF EntryRow, Refs
  <2>2. refs \in [Session -> Refs]
    BY DEF IInv, Typed
  <2>3. refs' \in [Session -> Refs] /\ \A u \in Session \ {s} : refs'[u] = refs[u]
    BY <1>1, <2>1, <2>2
  <2>4. QED
    BY <1>1, <1>3, <2>3 DEF Local, IInv, Typed
<1>7. NamedMoves(s)
  BY <1>1, NamedRests
<1>8. /\ EntryMoves(s) /\ Visible(entry', s, q.id) = v
      /\ \A t \in Entry : entry'.lock[t] = s /\ entry.lock[t] # s =>
           entry'.latest[t] = entry.row[t]
      /\ entry'.latest = entry.latest
  BY <1>1, <1>2, EntryLocks DEF v
<1>9. WritesAreFiled(s)'
  <2>1. ASSUME NEW t \in Txn, entry'.lock[t] = s, entry.lock[t] # s
        PROVE  /\ entry'.latest[t] # Missing
               /\ t \notin seeds => Ordinary(s, entry'.latest[t].category)
    <3>1. entry'.latest[t] = entry.row[t] /\ Visible(entry, s, t) = entry.row[t]
      BY <1>8, <2>1, IdFacts DEF Visible
    <3>2. t = q.id
      BY <1>1, <2>1, IdFacts DEF LockRow, IInv, Typed, Tables
    <3>3. q.op # "create_opening_balance"
      BY <1>2 DEF LockOps
    <3>4. QED
      BY <1>4, <3>1, <3>2, <3>3, VisibleIsFiled DEF v
  <2>2. q.op # "create_opening_balance"
    BY <1>2 DEF LockOps
  <2>3. \A t \in Txn : entry'.lock[t] = s =>
           \/ entry.lock[t] = s /\ entry'.latest[t] = entry.latest[t]
           \/ /\ entry'.latest[t] # Missing
              /\ IF request[s].op = "create_opening_balance" THEN t \in request[s].rows
                 ELSE t \notin seeds => Ordinary(s, entry'.latest[t].category)
    BY <1>8, <2>1, <2>2
  <2>4. QED
    BY <1>1, <1>3, <2>3, Filing
<1>10. HasRead(s)'
  BY <1>1, <1>3, <1>6, <1>7, WorkingReads
<1>11. QED
  BY <1>1, <1>3, <1>4, <1>6, <1>7, <1>8, <1>9, <1>10, Working

LEMMA InsertingRows ==
  ASSUME IInv, [Next]_vars, NEW s \in Session, NEW e \in Entry, InsertRow(s, e)
  PROVE  IInv'
<1> DEFINE q == request[s]
           v == [account |-> refs[s].account, category |-> refs[s].category, active |-> TRUE]
<1>1. /\ ~ Idle(s) /\ At(s, "insert_rows") /\ ~ At(s, "commit") /\ ~ At(s, "name_check")
      /\ ~ At(s, "category_check") /\ ~ At(s, "fetch") /\ ~ At(s, "lock")
      /\ e \in todo[s] /\ Free(entry, s, e) /\ entry' = WriteRow(entry, s, e, v)
      /\ todo' = [todo EXCEPT ![s] = @ \ {e}] /\ UNCHANGED <<named, seen, refs>>
      /\ Proceed(s) \/ UNCHANGED <<request, pc, seeds>>
  BY DEF InsertRow, At
<1>2. /\ q \in Request /\ q.op \in InsertOps /\ e \in q.rows
      /\ HasChecked(s) /\ refs[s] \in Refs
  <2>1. AtItsPlan(s) /\ HasChecked(s) /\ pc[s] \in Seq(Statements) /\ refs[s] \in Refs
    BY DEF IInv, Typed, SessionInv
  <2>2. QED
    BY <1>1, <2>1, Stations DEF AtItsPlan
<1>3. Moves(s) /\ UNCHANGED <<request, seeds>>
  BY <1>1, ProceedMoves DEF Moves
<1>4. v \in EntryRow /\ v.category = refs[s].category
  BY <1>2 DEF EntryRow, Refs
<1> HIDE DEF v
<1>5. /\ EntryMoves(s)
      /\ \A j \in Entry : /\ entry'.latest[j] = IF j = e THEN v ELSE entry.latest[j]
                          /\ entry'.lock[j] = IF j = e THEN s ELSE entry.lock[j]
  BY <1>1, <1>4, EntryWrites
<1>6. NamedMoves(s)
  BY <1>1, NamedRests
<1>7. Local(s)
  BY <1>1, <1>3 DEF Local, IInv, Typed
<1>8. WritesAreFiled(s)'
  <2>1. e \in Txn /\ q.op # "create_opening_balance" => Ordinary(s, v.category)
    <3>1. SUFFICES ASSUME e \in Txn, q.op # "create_opening_balance"
                   PROVE  Ordinary(s, v.category)
      OBVIOUS
    <3>2. q.op # "create_inbox_item"
      BY <1>2, <3>1, RequestFacts, IdFacts
    <3>3. q.op \in Guarded
      BY <1>2, <3>1, <3>2 DEF InsertOps, Guarded
    <3>4. QED
      BY <1>1, <1>2, <1>4, <3>3 DEF HasChecked
  <2>2. \A t \in Txn : entry'.lock[t] = s =>
           \/ entry.lock[t] = s /\ entry'.latest[t] = entry.latest[t]
           \/ /\ entry'.latest[t] # Missing
              /\ IF request[s].op = "create_opening_balance" THEN t \in request[s].rows
                 ELSE t \notin seeds => Ordinary(s, entry'.latest[t].category)
    BY <1>2, <1>4, <1>5, <2>1, IdFacts, MissingAssumption
  <2>3. QED
    BY <1>1, <1>3, <2>2, Filing
<1>9. HasRead(s)'
  BY <1>1, <1>6, <1>7, <1>3, WorkingReads
<1>10. QED
  BY <1>1, <1>3, <1>5, <1>6, <1>7, <1>8, <1>9, Working

LEMMA WritingEntries ==
  ASSUME IInv, [Next]_vars, NEW s \in Session, WriteEntry(s)
  PROVE  IInv'
<1> DEFINE q == request[s]
           e == q.id
           old == Visible(entry, s, e)
           v == EntryAfter(s, old)
<1>1. /\ ~ Idle(s) /\ At(s, "write_entry") /\ ~ At(s, "commit") /\ ~ At(s, "name_check")
      /\ ~ At(s, "category_check") /\ ~ At(s, "fetch") /\ ~ At(s, "lock")
      /\ Free(entry, s, e) /\ entry' = WriteRow(entry, s, e, v) /\ Proceed(s)
      /\ UNCHANGED <<named, seen, refs, todo>>
  BY DEF WriteEntry, At
<1>2. /\ q \in Request /\ q.op \in LockOps \cup {"delete_inbox_item"} /\ e \in Entry
      /\ HasChecked(s) /\ HasRow(s) /\ refs[s] \in Refs
  <2>1. AtItsPlan(s) /\ HasChecked(s) /\ HasRow(s) /\ pc[s] \in Seq(Statements)
        /\ refs[s] \in Refs
    BY DEF IInv, Typed, SessionInv
  <2>2. q \in Request /\ q.op \in LockOps \cup {"delete_inbox_item"}
    BY <1>1, <2>1, Stations
  <2>3. QED
    BY <2>1, <2>2, RequestFacts
<1>3. old # Missing
  BY <1>1, <1>2 DEF HasRow
<1>4. old \in EntryRow
  BY <1>2, <1>3 DEF IInv, Typed, Tables, Visible
<1>5. Moves(s) /\ UNCHANGED <<request, seeds>>
  BY <1>1, ProceedMoves
<1> HIDE DEF old
<1>6. /\ v \in EntryRow
      /\ \/ v.category = old.category
         \/ /\ v.category = refs[s].category
            /\ q.op \in {"update_transaction", "update_inbox_item"}
  <2>1. CASE q.op \in {"update_transaction", "update_inbox_item"}
    <3>1. v = [old EXCEPT !.account = Given(refs[s].account, @),
                          !.category = Given(refs[s].category, @)]
      BY <2>1 DEF EntryAfter
    <3>2. /\ Given(refs[s].account, old.account) \in Account \cup {Null}
          /\ Given(refs[s].category, old.category) \in Category \cup {Null}
          /\ Given(refs[s].category, old.category) \in {refs[s].category, old.category}
      BY <1>2, <1>4 DEF Given, EntryRow, Refs
    <3>3. QED
      BY <1>4, <2>1, <3>1, <3>2 DEF EntryRow
  <2>2. CASE q.op \notin {"update_transaction", "update_inbox_item"}
    <3>1. v = [old EXCEPT !.active = TRUE] \/ v = [old EXCEPT !.active = FALSE]
      BY <2>2 DEF EntryAfter
    <3>2. QED
      BY <1>4, <3>1 DEF EntryRow
  <2>3. QED
    BY <2>1, <2>2
<1> HIDE DEF v
<1>7. /\ EntryMoves(s)
      /\ \A j \in Entry : /\ entry'.latest[j] = IF j = e THEN v ELSE entry.latest[j]
                          /\ entry'.lock[j] = IF j = e THEN s ELSE entry.lock[j]
  BY <1>1, <1>2, <1>6, EntryWrites
<1>8. NamedMoves(s)
  BY <1>1, NamedRests
<1>9. Local(s)
  BY <1>1, <1>5 DEF Local, IInv, Typed
<1>10. q.op # "create_opening_balance"
  BY <1>2 DEF LockOps
<1>11. WritesAreFiled(s)'
  <2>1. e \in Txn /\ e \notin seeds => Ordinary(s, v.category)
    <3>1. SUFFICES ASSUME e \in Txn, e \notin seeds PROVE Ordinary(s, v.category)
      OBVIOUS
    <3>2. Ordinary(s, old.category)
      BY <1>3, <1>10, <3>1, VisibleIsFiled DEF old
    <3>3. q.op # "update_inbox_item"
      BY <1>2, <3>1, RequestFacts, IdFacts
    <3>4. q.op = "update_transaction" => Ordinary(s, refs[s].category)
      BY <1>1, <1>2 DEF HasChecked, Guarded
    <3>5. QED
      BY <1>6, <3>2, <3>3, <3>4
  <2>2. \A t \in Txn : entry'.lock[t] = s =>
           \/ entry.lock[t] = s /\ entry'.latest[t] = entry.latest[t]
           \/ /\ entry'.latest[t] # Missing
              /\ IF request[s].op = "create_opening_balance" THEN t \in request[s].rows
                 ELSE t \notin seeds => Ordinary(s, entry'.latest[t].category)
    BY <1>6, <1>7, <1>10, <2>1, IdFacts, MissingAssumption
  <2>3. QED
    BY <1>1, <1>5, <2>2, Filing
<1>12. HasRead(s)'
  BY <1>1, <1>5, <1>8, <1>9, WorkingReads
<1>13. QED
  BY <1>1, <1>5, <1>7, <1>8, <1>9, <1>11, <1>12, Working

-----------------------------------------------------------------------------
(* The start and the end of a request.                                       *)

LEMMA Beginning ==
  ASSUME IInv, [Next]_vars, NEW s \in Session, NEW q \in Request, Begin(s, q)
  PROVE  IInv'
<1>1. /\ Idle(s) /\ request' = [request EXCEPT ![s] = q] /\ pc' = [pc EXCEPT ![s] = Plan(q.op)]
      /\ todo' = [todo EXCEPT ![s] = q.rows] /\ UNCHANGED <<named, entry, seen, seeds>>
      /\ q.id \in Named => q.id \in TableOf(q.op)
      /\ refs' = [refs EXCEPT ![s] = [account |-> q.account,
                                      category |-> IF q.op = "create_opening_balance"
                                                   THEN Null ELSE q.category]]
  BY DEF Begin
<1>2. /\ q.op \in Operation /\ q.rows \subseteq Entry
      /\ q.account \in Account \cup {Null} /\ q.category \in Category \cup {Null}
  BY RequestFacts
<1>3. PlanFits(q.op, Plan(q.op))
  BY <1>2, PlanFacts
<1>4. /\ Plan(q.op) \in Seq(Statements) /\ Plan(q.op) # <<>>
      /\ Head(Plan(q.op)) = Plan(q.op)[1] /\ Len(Plan(q.op)) \in Nat
  BY <1>3 DEF PlanFits
<1>5. Typed /\ SessionInv(s)
  BY DEF IInv
<1>6. /\ request'[s] = q /\ pc'[s] = Plan(q.op) /\ todo'[s] = q.rows
      /\ q.op = "create_opening_balance" => refs'[s].category = Null
      /\ \A u \in Session \ {s} :
           /\ request'[u] = request[u] /\ pc'[u] = pc[u] /\ seen'[u] = seen[u]
           /\ refs'[u] = refs[u] /\ todo'[u] = todo[u]
  BY <1>1, <1>5 DEF Typed
<1>7. Typed'
  <2>1. [account |-> q.account, category |-> IF q.op = "create_opening_balance"
                                             THEN Null ELSE q.category] \in Refs
    BY <1>2 DEF Refs
  <2>2. refs' \in [Session -> Refs]
    BY <1>1, <1>5, <2>1 DEF Typed
  <2>3. QED
    BY <1>1, <1>2, <1>4, <1>5, <2>2 DEF Typed
<1>8. LeavesOthers(s)
  BY <1>1, <1>6, FollowsFacts DEF LeavesOthers, FrameOf
<1>9. \A x : At(s, x)' <=> x = Plan(q.op)[1]
  BY <1>4, <1>6 DEF At, Idle
<1>10. /\ ~ Idle(s)' /\ seen'[s] = Missing /\ \A e \in Entry : entry'.lock[e] # s
  BY <1>1, <1>4, <1>5, <1>6 DEF Idle, SessionInv, AtItsPlan
<1>11. OnPlan(s)'
  <2>1. Len(pc'[s]) = Len(Plan(q.op)) - 0
        /\ \A k \in 1 .. Len(pc'[s]) : pc'[s][k] = Plan(q.op)[0 + k]
    BY <1>4, <1>6
  <2>2. QED
    BY <1>4, <1>6, <2>1 DEF OnPlan
<1>12. AtItsPlan(s)'
  BY <1>1, <1>6, <1>10, <1>11 DEF AtItsPlan
<1>13. HasRead(s)' /\ HasRow(s)' /\ HasChecked(s)'
  <2>1. q.op \in NamedOps \ Create => At(s, "fetch")'
    BY <1>3, <1>9 DEF PlanFits
  <2>2. ~ At(s, "write_named")' /\ ~ At(s, "insert_rows")' /\ ~ At(s, "write_entry")'
    BY <1>3, <1>9 DEF PlanFits
  <2>3. q.op \in LockOps \cup {"delete_inbox_item"} => At(s, "lock")' \/ At(s, "fetch")'
    BY <1>3, <1>9 DEF PlanFits
  <2>4. QED
    BY <1>6, <1>10, <2>1, <2>2, <2>3 DEF HasRead, HasRow, HasChecked
<1>14. HasSeeded(s)' /\ WritesAreFiled(s)'
  BY <1>6, <1>10, IdFacts DEF HasSeeded, WritesAreFiled
<1>15. SessionInv(s)'
  BY <1>12, <1>13, <1>14 DEF SessionInv
<1>16. \A u \in Session \ {s} : SessionInv(u)'
  BY <1>8, Bystander
<1>17. IndexInv'
  BY StepIndexed DEF IInv
<1>18. QED
  BY <1>1, <1>7, <1>15, <1>16, <1>17 DEF IInv, RowsAreFiled

(* COMMIT and ROLLBACK leave the session as it was before its request. *)
LEMMA Ending ==
  ASSUME IInv, [Next]_vars, NEW s \in Session, End(s), seeds \subseteq seeds',
         named' = Commit(named, s, Named) \/ named' = Rollback(named, s, Named),
         entry' = Commit(entry, s, Entry) \/ entry' = Rollback(entry, s, Entry),
         RowsAreFiled'
  PROVE  IInv'
<1>1. /\ named \in Tables(Named, NamedRow \cup {Missing}) /\ Settled(named, Named)
      /\ entry \in Tables(Entry, EntryRow \cup {Missing}) /\ Settled(entry, Entry)
      /\ \A i \in Named : Follows(i, named.row[i], named.latest[i])
      /\ \A e \in Entry : entry.row[e] # Missing => entry.latest[e] # Missing
  BY DEF IInv, Typed, IndexInv
<1>2. /\ named' \in Tables(Named, NamedRow \cup {Missing}) /\ FrameOf(named, named', s, Named)
      /\ \A i \in Named : /\ Follows(i, named.row[i], named'.row[i])
                          /\ Follows(i, named'.row[i], named'.latest[i])
  <2>1. CASE named' = Commit(named, s, Named)
    <3>1. /\ named' \in Tables(Named, NamedRow \cup {Missing})
          /\ FrameOf(named, named', s, Named) /\ named'.latest = named.latest
          /\ \A i \in Named : named'.row[i] = Visible(named, s, i)
      BY <1>1, <2>1, CommitFacts
    <3>2. QED
      BY <1>1, <3>1, FollowsFacts DEF Visible
  <2>2. CASE named' = Rollback(named, s, Named)
    <3>1. /\ named' \in Tables(Named, NamedRow \cup {Missing})
          /\ FrameOf(named, named', s, Named) /\ named'.row = named.row
      BY <1>1, <2>2, RollbackFacts
    <3>2. \A i \in Named : named'.latest[i] \in {named.row[i], named.latest[i]}
      BY <2>2 DEF Rollback
    <3>3. QED
      BY <1>1, <3>1, <3>2, FollowsFacts
  <2>3. QED
    BY <2>1, <2>2
<1>3. /\ entry' \in Tables(Entry, EntryRow \cup {Missing}) /\ FrameOf(entry, entry', s, Entry)
      /\ Settled(entry', Entry)
      /\ \A e \in Entry : /\ entry.row[e] # Missing => entry'.row[e] # Missing
                          /\ entry'.row[e] # Missing => entry'.latest[e] # Missing
                          /\ entry'.lock[e] # s
  <2>1. CASE entry' = Commit(entry, s, Entry)
    <3>1. /\ entry' \in Tables(Entry, EntryRow \cup {Missing})
          /\ FrameOf(entry, entry', s, Entry) /\ entry'.latest = entry.latest
          /\ Settled(entry', Entry)
          /\ \A e \in Entry :
               /\ entry'.row[e] = Visible(entry, s, e)
               /\ entry'.lock[e] = IF entry.lock[e] = s THEN Nobody ELSE entry.lock[e]
      BY <1>1, <2>1, CommitFacts
    <3>2. QED
      BY <1>1, <3>1, SessionAssumption DEF Visible
  <2>2. CASE entry' = Rollback(entry, s, Entry)
    <3>1. /\ entry' \in Tables(Entry, EntryRow \cup {Missing})
          /\ FrameOf(entry, entry', s, Entry) /\ entry'.row = entry.row
          /\ Settled(entry', Entry)
          /\ \A e \in Entry :
               entry'.lock[e] = IF entry.lock[e] = s THEN Nobody ELSE entry.lock[e]
      BY <1>1, <2>2, RollbackFacts
    <3>2. \A e \in Entry : entry'.latest[e] \in {entry.row[e], entry.latest[e]}
      BY <2>2 DEF Rollback
    <3>3. QED
      BY <1>1, <3>1, <3>2, SessionAssumption
  <2>3. QED
    BY <2>1, <2>2
<1>4. Typed
  BY DEF IInv
<1>5. /\ request'[s] = NoRequest /\ pc'[s] = <<>> /\ seen'[s] = Missing
      /\ \A u \in Session \ {s} :
           /\ request'[u] = request[u] /\ pc'[u] = pc[u] /\ seen'[u] = seen[u]
           /\ refs'[u] = refs[u] /\ todo'[u] = todo[u]
  BY <1>4 DEF End, Typed
<1>6. Typed'
  <2>1. NoRefs \in Refs
    BY DEF NoRefs, Refs
  <2>2. <<>> \in Seq(Statements)
    OBVIOUS
  <2>3. QED
    BY <1>2, <1>3, <1>4, <2>1, <2>2 DEF End, Typed
<1>7. \A u \in Session \ {s} : SessionInv(u)'
  <2>1. LeavesOthers(s)
    BY <1>2, <1>3, <1>5 DEF LeavesOthers
  <2>2. QED
    BY <2>1, Bystander
<1>8. SessionInv(s)'
  <2>1. NoRequest.op = "none"
    BY DEF NoRequest, Asked
  <2>2. HasRead(s)'
    BY <1>5, <2>1 DEF HasRead, NamedOps, Checks, Create, Rename, Restore, Delete, Archive
  <2>3. HasRow(s)' /\ HasChecked(s)' /\ HasSeeded(s)'
    BY <1>5, <2>1 DEF HasRow, HasChecked, HasSeeded, LockOps, Guarded
  <2>4. AtItsPlan(s)' /\ WritesAreFiled(s)'
    BY <1>3, <1>5, IdFacts DEF AtItsPlan, Idle, WritesAreFiled
  <2>5. QED
    BY <2>2, <2>3, <2>4 DEF SessionInv
<1>9. IndexInv'
  BY StepIndexed DEF IInv
<1>10. QED
  BY <1>2, <1>3, <1>6, <1>7, <1>8, <1>9 DEF IInv

LEMMA Committing ==
  ASSUME IInv, [Next]_vars, NEW s \in Session, CommitAll(s)
  PROVE  IInv'
<1>1. /\ named' = Commit(named, s, Named) /\ entry' = Commit(entry, s, Entry) /\ End(s)
      /\ ~ Idle(s)
      /\ seeds' = IF request[s].op = "create_opening_balance"
                  THEN seeds \cup request[s].rows ELSE seeds
  BY DEF CommitAll, At
<1>2. /\ \A i \in Named : named'.row[i] = Visible(named, s, i)
      /\ \A e \in Entry : entry'.row[e] = Visible(entry, s, e)
  BY <1>1 DEF Commit
<1>3. RowsAreFiled'
  <2>1. SUFFICES ASSUME NEW t \in Txn, t \notin seeds', Visible(entry, s, t) # Missing
                 PROVE  Ordinary(s, Visible(entry, s, t).category)
    BY <1>2, IdFacts DEF RowsAreFiled, Ordinary
  <2>2. t \notin seeds
    BY <1>1, <2>1
  <2>3. CASE request[s].op # "create_opening_balance"
    BY <2>1, <2>2, <2>3, VisibleIsFiled
  <2>4. CASE request[s].op = "create_opening_balance"
    <3>1. entry.lock[t] # s
      BY <1>1, <2>1, <2>4 DEF IInv, SessionInv, WritesAreFiled
    <3>2. Visible(entry, s, t) = entry.row[t]
      BY <3>1 DEF Visible
    <3>3. \A c \in Category : Follows(c, named.row[c], named.latest[c])
      BY IdFacts DEF IInv
    <3>4. ASSUME NEW c \in Category, c = entry.row[t].category
          PROVE  Visible(named, s, c) # Missing /\ ~ Visible(named, s, c).system
      BY <2>1, <2>2, <3>2, <3>3, <3>4 DEF IInv, RowsAreFiled, Visible, Follows
    <3>5. QED
      BY <3>2, <3>4 DEF Ordinary
  <2>5. QED
    BY <2>3, <2>4
<1>4. QED
  BY <1>1, <1>3, Ending

LEMMA Abandoning ==
  ASSUME IInv, [Next]_vars, NEW s \in Session, Abandon(s)
  PROVE  IInv'
<1>1. /\ named' = Rollback(named, s, Named) /\ entry' = Rollback(entry, s, Entry) /\ End(s)
      /\ UNCHANGED seeds
  BY DEF Abandon
<1>2. RowsAreFiled'
  BY <1>1 DEF IInv, RowsAreFiled, Rollback
<1>3. QED
  BY <1>1, <1>2, Ending

-----------------------------------------------------------------------------

LEMMA Starts == Init => IInv
<1> SUFFICES ASSUME Init PROVE IInv
  OBVIOUS
<1>1. PICK names \in {n \in [Named -> NamedRow \cup {Missing}] : NamesConsistent(n)} :
      \E rows \in [Entry -> EntryRow \cup {Missing}] :
        /\ EntriesConsistent(names, rows)
        /\ named = AtRest(names, Named)
        /\ entry = AtRest(rows, Entry)
        /\ seeds = {t \in Txn : rows[t] # Missing /\ Opening(names, rows[t].category)}
  BY DEF Init
<1>2. PICK rows \in [Entry -> EntryRow \cup {Missing}] :
        /\ EntriesConsistent(names, rows)
        /\ named = AtRest(names, Named)
        /\ entry = AtRest(rows, Entry)
        /\ seeds = {t \in Txn : rows[t] # Missing /\ Opening(names, rows[t].category)}
  BY <1>1
<1>3. /\ named.row = names /\ named.latest = names /\ named.lock = [i \in Named |-> Nobody]
      /\ entry.row = rows /\ entry.latest = rows /\ entry.lock = [e \in Entry |-> Nobody]
      /\ named \in Tables(Named, NamedRow \cup {Missing}) /\ Settled(entry, Entry)
      /\ entry \in Tables(Entry, EntryRow \cup {Missing})
  BY <1>1, <1>2 DEF AtRest, Tables, Settled
<1>4. /\ request = [s \in Session |-> NoRequest] /\ pc = [s \in Session |-> <<>>]
      /\ seen = [s \in Session |-> Missing] /\ refs = [s \in Session |-> NoRefs]
      /\ todo = [s \in Session |-> {}]
  BY DEF Init
<1>5. Typed
  BY <1>3, <1>4 DEF Typed, NoRefs, Refs
<1>6. IndexInv
  BY InitIndexed
<1>7. ASSUME NEW s \in Session PROVE SessionInv(s)
  <2>1. NoRequest.op = "none" /\ request[s] = NoRequest
    BY <1>4 DEF NoRequest, Asked
  <2>2. HasRead(s)
    BY <2>1 DEF HasRead, NamedOps, Checks, Create, Rename, Restore, Delete, Archive
  <2>3. HasRow(s) /\ HasChecked(s) /\ HasSeeded(s)
    BY <2>1 DEF HasRow, HasChecked, HasSeeded, LockOps, Guarded
  <2>4. AtItsPlan(s) /\ WritesAreFiled(s)
    BY <1>3, <1>4, SessionAssumption, IdFacts DEF AtItsPlan, Idle, WritesAreFiled
  <2>5. QED
    BY <2>2, <2>3, <2>4 DEF SessionInv
<1>8. RowsAreFiled
  <2>1. SUFFICES ASSUME NEW t \in Txn, t \notin seeds, rows[t] # Missing,
                        rows[t].category \in Category
                 PROVE  names[rows[t].category] # Missing /\ ~ names[rows[t].category].system
    BY <1>3 DEF RowsAreFiled
  <2>2. ~ Opening(names, rows[t].category)
    BY <1>2, <2>1
  <2>3. names[rows[t].category] # Missing
    BY <1>2, <2>1, IdFacts DEF EntriesConsistent, Active
  <2>4. names[rows[t].category].system => names[rows[t].category].active
    BY <1>1, <2>1, <2>3, IdFacts DEF NamesConsistent
  <2>5. QED
    BY <2>1, <2>2, <2>3, <2>4 DEF Opening, Active
<1>9. QED
  BY <1>3, <1>5, <1>6, <1>7, <1>8, FollowsFacts DEF IInv

LEMMA Steps == IInv /\ [Next]_vars => IInv'
<1> SUFFICES ASSUME IInv, [Next]_vars PROVE IInv'
  OBVIOUS
<1>1. ASSUME NEW s \in Session, NEW q \in Request, Begin(s, q) PROVE IInv'
  BY <1>1, Beginning
<1>2. ASSUME NEW s \in Session, Step(s) PROVE IInv'
  BY <1>2, Fetching, Checking, Finding, Inserting, Rereading, WritingNamed, Locking,
     InsertingRows, WritingEntries, Committing DEF Step
<1>3. ASSUME NEW s \in Session, Abandon(s) PROVE IInv'
  BY <1>3, Abandoning
<1>4. CASE UNCHANGED vars
  <2>1. /\ named' = named /\ entry' = entry /\ request' = request /\ pc' = pc
        /\ seen' = seen /\ refs' = refs /\ todo' = todo /\ seeds' = seeds
    BY <1>4 DEF vars
  <2>2. IndexInv'
    BY StepIndexed DEF IInv
  <2>3. Typed' /\ RowsAreFiled'
    BY <2>1 DEF IInv, Typed, RowsAreFiled
  <2>4. ASSUME NEW s \in Session PROVE SessionInv(s)'
    <3>1. /\ AtItsPlan(s) /\ HasRead(s) /\ HasRow(s) /\ HasChecked(s) /\ HasSeeded(s)
          /\ WritesAreFiled(s)
      BY DEF IInv, SessionInv
    <3>2. AtItsPlan(s)' /\ HasRow(s)'
      BY <2>1, <3>1 DEF AtItsPlan, HasRow, OnPlan, Idle, At
    <3>3. HasRead(s)'
      BY <2>1, <3>1 DEF HasRead, Idle, At, MayClaim, Claimed
    <3>4. HasChecked(s)' /\ HasSeeded(s)' /\ WritesAreFiled(s)'
      BY <2>1, <3>1 DEF HasChecked, HasSeeded, WritesAreFiled, Idle, At, Ordinary
    <3>5. QED
      BY <3>2, <3>3, <3>4 DEF SessionInv
  <2>5. QED
    BY <2>1, <2>2, <2>3, <2>4 DEF IInv
<1>5. QED
  BY <1>1, <1>2, <1>3, <1>4 DEF Next

(* Every reachable state satisfies the invariant, however requests overlap. *)
THEOREM Invariance == Spec => []IInv
  BY Starts, Steps, PTL DEF Spec

(* No ledger row but those that opening balances filed is under the active   *)
(* system category, whatever requests overlap: creations, edits, promotions  *)
(* and restores check the category without locking it.                       *)
THEOREM OnlySeeds == Spec => []OnlySeedsAreOpening
<1>1. IInv => OnlySeedsAreOpening
  BY DEF IInv, RowsAreFiled, OnlySeedsAreOpening, Opening, Active
<1>2. QED
  BY <1>1, Invariance, PTL

(* An opening balance has the one active system category from the moment it  *)
(* has a category, its own or that of the request that won the insertion.    *)
THEOREM SeedersAgree == Spec => []SeederUsesTheSystemRow
<1>1. ASSUME IInv PROVE SeederUsesTheSystemRow
  <2>1. SUFFICES ASSUME NEW s \in Session, request[s].op = "create_opening_balance",
                        refs[s].category # Null
                 PROVE  SystemRows(s) = {refs[s].category} /\ CategoryUsable(s)
    BY DEF SeederUsesTheSystemRow
  <2> DEFINE c == refs[s].category
  <2>2. c \in Category /\ Active(Visible(named, s, c)) /\ Visible(named, s, c).system
    BY <1>1, <2>1 DEF IInv, SessionInv, HasSeeded
  <2>3. c \in SystemRows(s)
    BY <2>2, IdFacts DEF SystemRows, Sees, Row, Active
  <2>4. ASSUME NEW d \in SystemRows(s), d # c PROVE FALSE
    <3>1. d \in Category /\ Active(Visible(named, s, d)) /\ Visible(named, s, d).system
      BY SystemRowFacts
    <3>2. Apart(c, d)
      BY <1>1, <2>2, <2>4, <3>1, IdFacts DEF IInv, IndexInv, SameTable
    <3>3. ~ Clash(Visible(named, s, c), Visible(named, s, d))
      BY <3>2, SessionAssumption DEF Apart, Visible
    <3>4. QED
      BY <2>2, <3>1, <3>3 DEF Clash
  <2>5. CategoryUsable(s)
    BY <2>1, <2>2, IdFacts DEF CategoryUsable, Row, TakesSystem
  <2>6. QED
    BY <2>3, <2>4, <2>5
<1>2. QED
  BY <1>1, Invariance, PTL

(* A step publishes later versions of the rows, if any.                      *)
LEMMA RowsFollow ==
  ASSUME IInv, [Next]_vars
  PROVE  \A i \in Named : Follows(i, named.row[i], named'.row[i])
<1>1. ASSUME NEW s \in Session, Step(s) \/ Abandon(s),
             \A i \in Named : named'.row[i] \in {named.row[i], named.latest[i]}
      PROVE  \A i \in Named : Follows(i, named.row[i], named'.row[i])
  BY <1>1, FollowsFacts DEF IInv
<1>2. ASSUME NEW s \in Session, CommitAll(s)
      PROVE  \A i \in Named : named'.row[i] \in {named.row[i], named.latest[i]}
  BY <1>2 DEF CommitAll, Commit, Visible
<1>3. ASSUME NEW s \in Session, NEW q, Begin(s, q) PROVE named'.row = named.row
  BY <1>3 DEF Begin
<1>4. ASSUME NEW s \in Session, Step(s) \/ Abandon(s), ~ CommitAll(s)
      PROVE  named'.row = named.row
  <2>1. ASSUME WriteNamed(s) \/ InsertSystem(s) \/ Abandon(s) PROVE named'.row = named.row
    <3>1. \/ named' = named
          \/ named' = Rollback(named, s, Named)
          \/ \E i, v : named' = WriteRow(named, s, i, v)
      BY <2>1 DEF WriteNamed, InsertSystem, Abandon
    <3>2. QED
      BY <3>1 DEF WriteRow, Rollback
  <2>2. ASSUME \/ Fetch(s) \/ NameCheck(s) \/ TxnCheck(s) \/ DraftCheck(s)
               \/ AccountCheck(s) \/ CategoryCheck(s) \/ SeedCheck(s) \/ FindSystem(s)
               \/ RereadSystem(s) \/ LockEntry(s) \/ WriteEntry(s)
               \/ \E e \in Entry : InsertRow(s, e)
        PROVE  named' = named
    BY <2>2 DEF Fetch, NameCheck, TxnCheck, DraftCheck, AccountCheck, CategoryCheck, SeedCheck,
                FindSystem, RereadSystem, LockEntry, WriteEntry, InsertRow
  <2>3. QED
    BY <1>4, <2>1, <2>2 DEF Step
<1>5. CASE UNCHANGED vars
  BY <1>5, FollowsFacts DEF vars
<1>6. QED
  BY <1>1, <1>2, <1>3, <1>4, <1>5, FollowsFacts DEF Next, Step

(* No step, of any handler or race of handlers, deletes the active system    *)
(* category or makes it another row's.                                       *)
THEOREM SystemCategoryIsKept == Spec => SystemCategoryStays
<1>1. IInv /\ [Next]_vars => \A c \in Category : Opening(named.row, c) => Opening(named'.row, c)
  BY RowsFollow, IdFacts DEF Follows, Opening, Active
<1>2. QED
  BY <1>1, Invariance, PTL DEF Spec, SystemCategoryStays

(* No step gives a user category the reserved name or revives one with it:   *)
(* a handler checks the name once, on a row read before it writes.           *)
THEOREM ReservedNameIsKept == Spec => NoNewSquatter
<1>1. IInv /\ [Next]_vars => \A c \in Category : Squats(named'.row, c) => Squats(named.row, c)
  BY RowsFollow, IdFacts DEF Follows, Squat, Squats
<1>2. QED
  BY <1>1, Invariance, PTL DEF Spec, NoNewSquatter

-----------------------------------------------------------------------------
(* Requests that run alone.                                                  *)

(* The statement x of the handler of s is behind it, or none of its plan.    *)
Past(s, x) == \A k \in 1 .. Len(pc[s]) : pc[s][k] # x

Filled(v) == v # Missing => v.account \in Account /\ v.category \in Category
RowsAreFilled == \A t \in Txn : Filled(entry.row[t]) /\ Filled(entry.latest[t])

(* The references that a handler is about to write to a ledger row.          *)
RefsAreFilled(s) ==
    LET q == request[s]
        r == refs[s] IN
    /\ q.op \in {"create_transaction", "create_batch"} => r.account # Null /\ r.category # Null
    /\ q.op = "create_opening_balance" =>
         r.account # Null /\ (Past(s, "reread_system") => r.category # Null)
    /\ q.op = "promote_inbox_item" =>
         /\ Past(s, "account_check") => r.account # Null
         /\ Past(s, "category_check") => r.category # Null

(* The writers of references; the others only end a row.                     *)
Writers == {"create_opening_balance", "create_transaction", "create_batch",
            "create_inbox_item", "promote_inbox_item", "update_transaction",
            "restore_transaction", "update_inbox_item"}

Lone(s) == alone[s] /\ ~ Idle(s)

NobodyBeside(s) == Lone(s) => \A o \in Session \ {s} : Idle(o)

(* A lone deletion has looked at every row that may name its own.            *)
NamesNot(Id, i) ==
    \A e \in Id : Active(entry.row[e]) => i \notin {entry.row[e].account, entry.row[e].category}
DeletesUnused(s) ==
    LET q == request[s] IN
    /\ q.op \in {"delete_account", "delete_category"} /\ Past(s, "txn_check") => NamesNot(Txn, q.id)
    /\ q.op = "delete_category" /\ Past(s, "draft_check") => NamesNot(Draft, q.id)

(* A lone writer has checked what it refers to.                              *)
RefersToActive(s) ==
    LET r == refs[s] IN
    request[s].op \in Writers =>
      /\ Past(s, "account_check") /\ r.account # Null => Active(Visible(named, s, r.account))
      /\ Past(s, "category_check") /\ r.category # Null => Active(Visible(named, s, r.category))

HoldsItsRefs(s) ==
    LET q == request[s] IN
    q.op = "restore_transaction" /\ Past(s, "lock") =>
      /\ entry.lock[q.id] = s
      /\ entry.latest[q.id].account = refs[s].account
      /\ entry.latest[q.id].category = refs[s].category

(* Only a deletion makes a row inactive, and it its own.                     *)
KeepsActive(s) ==
    /\ request[s].op \in NamedOps => \A e \in Entry : entry.lock[e] # s
    /\ \A i \in Named : named.lock[i] = s /\ Active(named.row[i]) =>
         Active(named.latest[i]) \/ (request[s].op \in Delete /\ i = request[s].id)

(* What v refers to is active for s.                                         *)
Supported(s, e, v) ==
    /\ e \in Txn => Active(Visible(named, s, v.account))
    /\ v.category # Null => Active(Visible(named, s, v.category))
WritesSupported(s) ==
    ReferencesAreActive(named.row, entry.row) =>
      \A e \in Entry : entry.lock[e] = s /\ Active(entry.latest[e]) =>
        Supported(s, e, entry.latest[e])

LoneInv(s) == /\ DeletesUnused(s) /\ RefersToActive(s) /\ HoldsItsRefs(s)
              /\ KeepsActive(s) /\ WritesSupported(s)

LInv == /\ IInv /\ RowsAreFilled
        /\ alone \in [Session -> BOOLEAN] /\ seeds \subseteq Txn /\ served \in Nat
        /\ \A s \in Session : /\ RefsAreFilled(s) /\ NobodyBeside(s)
                              /\ Lone(s) => LoneInv(s)
                              /\ Idle(s) => \A i \in Named : named.lock[i] # s

(* What a statement that writes comes after. *)
Looks == {"account_check", "category_check", "txn_check", "draft_check", "lock"}
Ends == {"insert_rows", "write_entry", "write_named", "commit"}

PlanRuns(op, plan) ==
    /\ \A n \in 1 .. Len(plan) :
         /\ plan[n] \in Ends =>
              \A m \in n .. Len(plan) : plan[m] \notin Looks \cup {"reread_system"}
         /\ plan[n] = "find_system" =>
              /\ n + 2 \in 1 .. Len(plan)
              /\ plan[n + 1] = "insert_system" /\ plan[n + 2] = "reread_system"
         /\ plan[n] = "insert_system" => n + 1 \in 1 .. Len(plan) /\ plan[n + 1] = "reread_system"
         /\ plan[n] = "lock" /\ op \in {"restore_transaction", "promote_inbox_item"} =>
              /\ n + 2 \in 1 .. Len(plan)
              /\ plan[n + 1] = "account_check" /\ plan[n + 2] = "category_check"
    /\ op \in Writers => \E n, m \in 1 .. Len(plan) : /\ plan[n] = "account_check"
                                                      /\ plan[m] = "category_check"
    /\ op \in {"delete_account", "delete_category"} => \E n \in 1 .. Len(plan) : plan[n] = "txn_check"
    /\ op = "delete_category" => \E n \in 1 .. Len(plan) : plan[n] = "draft_check"
    /\ op = "restore_transaction" => \E n \in 1 .. Len(plan) : plan[n] = "lock"
    /\ op = "create_opening_balance" => \E n \in 1 .. Len(plan) : plan[n] = "reread_system"

LEMMA PlanOrder ==
  ASSUME NEW op \in Operation PROVE PlanRuns(op, Plan(op))
<1> USE DEF Create, Rename, Restore, Delete, Archive, Writers, Looks, Ends
<1>1. ASSUME NEW plan, op \in Create, plan = <<"name_check", "write_named", "commit">>
      PROVE  PlanRuns(op, plan)
  BY <1>1 DEF PlanRuns
<1>2. ASSUME NEW plan, op \in Rename \cup Restore,
             plan = <<"fetch", "name_check", "write_named", "commit">>
      PROVE  PlanRuns(op, plan)
  BY <1>2 DEF PlanRuns
<1>3. ASSUME NEW plan, op = "delete_account",
             plan = <<"fetch", "txn_check", "write_named", "commit">>
      PROVE  PlanRuns(op, plan)
  BY <1>3 DEF PlanRuns
<1>4. ASSUME NEW plan, op = "delete_category",
             plan = <<"fetch", "txn_check", "draft_check", "write_named", "commit">>
      PROVE  PlanRuns(op, plan)
  BY <1>4 DEF PlanRuns
<1>5. ASSUME NEW plan, op \in Archive \cup {"delete_hashtag"},
             plan = <<"fetch", "write_named", "commit">>
      PROVE  PlanRuns(op, plan)
  BY <1>5 DEF PlanRuns
<1>6. ASSUME NEW plan, op = "create_opening_balance",
             plan = <<"account_check", "seed_check", "find_system", "insert_system",
                      "reread_system", "account_check", "category_check", "insert_rows",
                      "commit">>
      PROVE  PlanRuns(op, plan)
  BY <1>6 DEF PlanRuns
<1>7. ASSUME NEW plan, op \in {"create_transaction", "create_batch", "create_inbox_item"},
             plan = <<"account_check", "category_check", "insert_rows", "commit">>
      PROVE  PlanRuns(op, plan)
  BY <1>7 DEF PlanRuns
<1>8. ASSUME NEW plan,
             op \in {"update_transaction", "restore_transaction", "update_inbox_item"},
             plan = <<"lock", "account_check", "category_check", "write_entry", "commit">>
      PROVE  PlanRuns(op, plan)
  BY <1>8 DEF PlanRuns
<1>9. ASSUME NEW plan, op = "delete_transaction", plan = <<"lock", "write_entry", "commit">>
      PROVE  PlanRuns(op, plan)
  BY <1>9 DEF PlanRuns
<1>10. ASSUME NEW plan, op = "delete_inbox_item", plan = <<"fetch", "write_entry", "commit">>
       PROVE  PlanRuns(op, plan)
  BY <1>10 DEF PlanRuns
<1>11. ASSUME NEW plan, op = "promote_inbox_item",
              plan = <<"lock", "account_check", "category_check", "insert_rows",
                       "write_entry", "commit">>
       PROVE  PlanRuns(op, plan)
  BY <1>11 DEF PlanRuns
<1>12. QED
  BY <1>1, <1>2, <1>3, <1>4, <1>5, <1>6, <1>7, <1>8, <1>9, <1>10, <1>11 DEF Plan, Operation

(* The statements behind a handler, from the one it is at. *)
LEMMA PastFacts ==
  ASSUME NEW s \in Session, AtItsPlan(s), pc[s] \in Seq(Statements), ~ Idle(s)
  PROVE  /\ \A x \in Looks \cup {"reread_system"} : (\E w \in Ends : At(s, w)) => Past(s, x)
         /\ At(s, "lock") /\ request[s].op \in {"restore_transaction", "promote_inbox_item"} =>
              ~ Past(s, "account_check") /\ ~ Past(s, "category_check")
         /\ At(s, "find_system") =>
              Len(pc[s]) >= 3 /\ pc[s][2] = "insert_system" /\ pc[s][3] = "reread_system"
         /\ At(s, "insert_system") => Len(pc[s]) >= 2 /\ pc[s][2] = "reread_system"
<1> DEFINE op == request[s].op
           plan == Plan(op)
<1>1. op \in Operation /\ OnPlan(s)
  BY RequestFacts DEF AtItsPlan
<1>2. PlanRuns(op, plan) /\ Len(plan) \in Nat
  BY <1>1, PlanOrder, PlanFacts DEF PlanFits
<1>3. PICK n \in Nat : /\ n <= Len(plan) /\ Len(pc[s]) = Len(plan) - n
                       /\ \A k \in 1 .. Len(pc[s]) : pc[s][k] = plan[n + k]
  BY <1>1 DEF OnPlan
<1>4. Len(pc[s]) \in Nat /\ Len(pc[s]) >= 1 /\ Head(pc[s]) = pc[s][1]
  BY DEF Idle
<1>5. n + 1 \in 1 .. Len(plan) /\ \A x : At(s, x) <=> plan[n + 1] = x
  BY <1>2, <1>3, <1>4 DEF At, Idle
<1> HIDE DEF plan
<1>6. ASSUME NEW x \in Looks \cup {"reread_system"}, NEW w \in Ends, At(s, w) PROVE Past(s, x)
  <2>1. \A m \in n + 1 .. Len(plan) : plan[m] # x
    BY <1>2, <1>5, <1>6 DEF PlanRuns
  <2>2. \A k \in 1 .. Len(pc[s]) : n + k \in n + 1 .. Len(plan)
    BY <1>2, <1>3, <1>4
  <2>3. QED
    BY <1>3, <2>1, <2>2 DEF Past
<1>7. ASSUME NEW j \in 1 .. 2, n + 1 + j \in 1 .. Len(plan)
      PROVE  1 + j \in 1 .. Len(pc[s]) /\ pc[s][1 + j] = plan[n + 1 + j]
  BY <1>2, <1>3, <1>4, <1>7
<1>8. /\ n + 1 + 1 \in 1 .. Len(plan) => pc[s][2] = plan[n + 1 + 1] /\ 2 \in 1 .. Len(pc[s])
      /\ n + 1 + 2 \in 1 .. Len(plan) => pc[s][3] = plan[n + 1 + 2] /\ 3 \in 1 .. Len(pc[s])
  BY <1>7
<1>9. At(s, "lock") /\ op \in {"restore_transaction", "promote_inbox_item"} =>
        ~ Past(s, "account_check") /\ ~ Past(s, "category_check")
  <2>1. SUFFICES ASSUME At(s, "lock"), op \in {"restore_transaction", "promote_inbox_item"}
                 PROVE  ~ Past(s, "account_check") /\ ~ Past(s, "category_check")
    OBVIOUS
  <2>2. /\ n + 1 + 2 \in 1 .. Len(plan)
        /\ plan[n + 1 + 1] = "account_check" /\ plan[n + 1 + 2] = "category_check"
    BY <1>2, <1>5, <2>1 DEF PlanRuns
  <2>3. n + 1 + 1 \in 1 .. Len(plan)
    BY <1>2, <1>3, <2>2
  <2>4. QED
    BY <1>8, <2>2, <2>3 DEF Past
<1>10. At(s, "find_system") =>
         Len(pc[s]) >= 3 /\ pc[s][2] = "insert_system" /\ pc[s][3] = "reread_system"
  <2>1. SUFFICES ASSUME At(s, "find_system")
                 PROVE  Len(pc[s]) >= 3 /\ pc[s][2] = "insert_system" /\ pc[s][3] = "reread_system"
    OBVIOUS
  <2>2. /\ n + 1 + 2 \in 1 .. Len(plan)
        /\ plan[n + 1 + 1] = "insert_system" /\ plan[n + 1 + 2] = "reread_system"
    BY <1>2, <1>5, <2>1 DEF PlanRuns
  <2>3. n + 1 + 1 \in 1 .. Len(plan)
    BY <1>2, <1>3, <2>2
  <2>4. QED
    BY <1>4, <1>8, <2>2, <2>3
<1>11. At(s, "insert_system") => Len(pc[s]) >= 2 /\ pc[s][2] = "reread_system"
  BY <1>2, <1>4, <1>5, <1>8 DEF PlanRuns
<1>12. QED
  BY <1>6, <1>9, <1>10, <1>11

(* A step to the next statement. *)
LEMMA PastTail ==
  ASSUME NEW s \in Session, pc \in [Session -> Seq(Statements)], ~ Idle(s),
         pc' = [pc EXCEPT ![s] = Tail(@)]
  PROVE  \A x : Past(s, x)' => Past(s, x) \/ At(s, x)
<1>1. /\ pc[s] \in Seq(Statements) /\ Len(pc[s]) \in Nat /\ Len(pc[s]) >= 1
      /\ Head(pc[s]) = pc[s][1]
  BY DEF Idle
<1>2. /\ Len(pc'[s]) = Len(pc[s]) - 1 /\ Len(pc'[s]) \in Nat
      /\ \A k \in 1 .. Len(pc'[s]) : pc'[s][k] = pc[s][k + 1]
  <2>1. pc'[s] = Tail(pc[s])
    OBVIOUS
  <2>2. QED
    BY <1>1, <2>1
<1>3. SUFFICES ASSUME NEW x, Past(s, x)', ~ At(s, x), NEW k \in 1 .. Len(pc[s]), pc[s][k] = x
               PROVE  FALSE
  BY DEF Past
<1>4. k # 1
  BY <1>1, <1>3 DEF At
<1>5. k - 1 \in 1 .. Len(pc'[s]) /\ k = (k - 1) + 1
  BY <1>1, <1>2, <1>4
<1>6. QED
  BY <1>2, <1>3, <1>5 DEF Past

(* The two jumps of ensure_system_category. *)
LEMMA PastJump ==
  ASSUME NEW s \in Session, AtItsPlan(s), pc \in [Session -> Seq(Statements)], ~ Idle(s),
         \/ At(s, "find_system") /\ pc' = [pc EXCEPT ![s] = SubSeq(@, 4, Len(@))]
         \/ At(s, "insert_system") /\ pc' = [pc EXCEPT ![s] = SubSeq(@, 3, Len(@))]
  PROVE  \A x \in Looks : Past(s, x)' => Past(s, x)
<1>1. /\ pc[s] \in Seq(Statements) /\ Len(pc[s]) \in Nat /\ Len(pc[s]) >= 1
      /\ Head(pc[s]) = pc[s][1]
  BY DEF Idle
<1>2. PICK m \in {2, 3} : /\ pc'[s] = SubSeq(pc[s], m + 1, Len(pc[s])) /\ m <= Len(pc[s])
                          /\ \A k \in 1 .. m : pc[s][k] \notin Looks
  <2>1. CASE At(s, "find_system") /\ pc' = [pc EXCEPT ![s] = SubSeq(@, 4, Len(@))]
    <3>1. /\ pc[s][1] = "find_system" /\ pc[s][2] = "insert_system"
          /\ pc[s][3] = "reread_system" /\ Len(pc[s]) >= 3
      BY <1>1, <2>1, PastFacts DEF At
    <3>2. \A k \in 1 .. 3 : pc[s][k] \notin Looks
      BY <3>1 DEF Looks
    <3>3. pc'[s] = SubSeq(pc[s], 3 + 1, Len(pc[s]))
      BY <2>1
    <3>4. QED
      BY <3>1, <3>2, <3>3
  <2>2. CASE At(s, "insert_system") /\ pc' = [pc EXCEPT ![s] = SubSeq(@, 3, Len(@))]
    <3>1. pc[s][1] = "insert_system" /\ pc[s][2] = "reread_system" /\ Len(pc[s]) >= 2
      BY <1>1, <2>2, PastFacts DEF At
    <3>2. \A k \in 1 .. 2 : pc[s][k] \notin Looks
      BY <3>1 DEF Looks
    <3>3. pc'[s] = SubSeq(pc[s], 2 + 1, Len(pc[s]))
      BY <2>2
    <3>4. QED
      BY <3>1, <3>2, <3>3
  <2>3. QED
    BY <2>1, <2>2
<1>3. /\ Len(pc'[s]) = Len(pc[s]) - m /\ Len(pc'[s]) \in Nat
      /\ \A k \in 1 .. Len(pc'[s]) : pc'[s][k] = pc[s][m + k]
  BY <1>1, <1>2
<1>4. SUFFICES ASSUME NEW x \in Looks, Past(s, x)', NEW k \in 1 .. Len(pc[s]), pc[s][k] = x
               PROVE  FALSE
  BY DEF Past
<1>5. k > m
  BY <1>2, <1>4
<1>6. k - m \in 1 .. Len(pc'[s]) /\ k = m + (k - m)
  BY <1>1, <1>2, <1>3, <1>5
<1>7. QED
  BY <1>3, <1>4, <1>6 DEF Past

(* The fields of the requests that write references. *)
LEMMA RequestRefs ==
  ASSUME NEW q \in Request
  PROVE  /\ q.op \in {"create_transaction", "create_batch", "create_opening_balance"} =>
              q.account \in Account /\ q.category \in Category
         /\ q.op = "create_opening_balance" => q.rows \subseteq Txn
<1> DEFINE Writes == {"create_transaction", "create_batch", "create_opening_balance"}
<1>1. \/ /\ q.op \in Writes /\ q.account \in Account /\ q.category \in Category
         /\ q.rows \in SUBSET Txn
      \/ q.op \in Create \cup Rename \cup Restore \cup Delete \cup Archive
      \/ q.op \in {"update_transaction", "create_inbox_item", "update_inbox_item",
                   "delete_transaction", "restore_transaction", "delete_inbox_item",
                   "promote_inbox_item"}
  BY DEF Request, Asked
<1>2. QED
  BY <1>1 DEF Create, Rename, Restore, Delete, Archive

LEMMA ActiveFacts ==
  ASSUME NEW s \in Session
  PROVE  /\ \A a \in Account : a \in Named /\ a # Null /\ Row(s, a) = Visible(named, s, a)
         /\ \A c \in Category : c \in Named /\ c # Null /\ Row(s, c) = Visible(named, s, c)
         /\ \A e \in Entry : e \notin Named /\ Row(s, e) = Visible(entry, s, e)
         /\ \A v : Usable(v) => Active(v)
  BY IdFacts, SentinelAssumption DEF Row, Usable, Named

(* What a session at work knows, and what leaves it so. *)
LEMMA LoneAtWork ==
  ASSUME LInv, NEW s \in Session, ~ Idle(s)
  PROVE  /\ AtItsPlan(s) /\ request[s] \in Request /\ request[s].op \in Operation
         /\ pc \in [Session -> Seq(Statements)] /\ refs[s] \in Refs
         /\ RefsAreFilled(s)
         /\ \A u \in Session \ {s} : ~ Lone(u)
<1>1. AtItsPlan(s) /\ pc \in [Session -> Seq(Statements)] /\ refs[s] \in Refs
  BY DEF LInv, IInv, Typed, SessionInv
<1>2. request[s] \in Request /\ request[s].op \in Operation
  BY <1>1, RequestFacts DEF AtItsPlan
<1>3. RefsAreFilled(s) /\ \A u \in Session \ {s} : ~ Lone(u)
  BY DEF LInv, NobodyBeside
<1>4. QED
  BY <1>1, <1>2, <1>3

LEMMA LoneStep ==
  ASSUME LInv, IInv', NEW s \in Session, ~ Idle(s), ~ Idle(s)',
         UNCHANGED <<request, alone, seeds, served>>,
         named'.row = named.row, entry'.row = entry.row,
         \A i \in Named : named'.lock[i] \in {named.lock[i], s},
         \A u \in Session \ {s} : pc'[u] = pc[u] /\ refs'[u] = refs[u],
         \A t \in Txn : Filled(entry'.latest[t]),
         RefsAreFilled(s)', Lone(s) => LoneInv(s)'
  PROVE  LInv'
<1>1. RowsAreFilled'
  BY DEF LInv, RowsAreFilled
<1>2. ASSUME NEW u \in Session \ {s} PROVE RefsAreFilled(u)'
  BY <1>2 DEF LInv, RefsAreFilled, Past
<1>3. \A u \in Session \ {s} : ~ Lone(u)'
  BY LoneAtWork DEF Lone, Idle
<1>4. NobodyBeside(s)' /\ (Lone(s)' => Lone(s))
  BY DEF LInv, NobodyBeside, Lone, Idle
<1>5. ASSUME NEW u \in Session, Idle(u)' PROVE \A i \in Named : named'.lock[i] # u
  BY <1>5 DEF LInv, Idle
<1>6. QED
  BY <1>1, <1>2, <1>3, <1>4, <1>5 DEF LInv, NobodyBeside

(* A statement that only reads: whatever it requires is so. *)
LEMMA LoneLooks ==
  ASSUME LInv, IInv', NEW s \in Session, ~ Idle(s), ~ Idle(s)',
         pc' = [pc EXCEPT ![s] = Tail(@)],
         UNCHANGED <<named, entry, request, refs, alone, seeds, served>>,
         At(s, "txn_check") => Unused(s, Txn), At(s, "draft_check") => Unused(s, Draft),
         At(s, "account_check") => AccountUsable(s),
         At(s, "category_check") => CategoryUsable(s),
         ~ At(s, "lock"), ~ At(s, "reread_system")
  PROVE  LInv'
<1> DEFINE q == request[s]
           r == refs[s]
<1>1. /\ q \in Request /\ q.op \in Operation /\ r \in Refs /\ RefsAreFilled(s)
      /\ pc \in [Session -> Seq(Statements)]
  BY LoneAtWork
<1>2. /\ \A x : Past(s, x)' => Past(s, x) \/ At(s, x)
      /\ \A u \in Session \ {s} : pc'[u] = pc[u] /\ refs'[u] = refs[u]
  BY <1>1, PastTail
<1>3. RefsAreFilled(s)'
  BY <1>1, <1>2 DEF RefsAreFilled, AccountUsable, CategoryUsable
<1>4. ASSUME Lone(s) PROVE LoneInv(s)'
  <2>1. LoneInv(s)
    BY <1>4 DEF LInv
  <2>2. KeepsActive(s)' /\ WritesSupported(s)'
    BY <2>1 DEF LoneInv, KeepsActive, WritesSupported, Supported
  <2>3. HoldsItsRefs(s)'
    BY <1>2, <2>1 DEF LoneInv, HoldsItsRefs
  <2>4. RefersToActive(s)'
    <3>1. /\ At(s, "account_check") /\ r.account # Null => Active(Visible(named, s, r.account))
          /\ At(s, "category_check") /\ r.category # Null => Active(Visible(named, s, r.category))
      BY <1>1, ActiveFacts DEF AccountUsable, CategoryUsable, Refs
    <3>2. QED
      BY <1>2, <2>1, <3>1 DEF LoneInv, RefersToActive
  <2>5. DeletesUnused(s)'
    <3>1. SUFFICES ASSUME q.op \in {"delete_account", "delete_category"} PROVE DeletesUnused(s)'
      BY DEF DeletesUnused
    <3>2. \A e \in Entry : entry.lock[e] # s
      BY <2>1, <3>1 DEF LoneInv, KeepsActive, NamedOps, Delete
    <3>3. ASSUME NEW Id \in {Txn, Draft}, Unused(s, Id) PROVE NamesNot(Id, q.id)
      <4>1. \A e \in Id : e \in Entry /\ Row(s, e) = entry.row[e]
        BY <3>2, ActiveFacts, IdFacts DEF Visible
      <4>2. QED
        BY <3>3, <4>1 DEF Unused, Sees, NamesNot, Active
    <3>4. QED
      BY <1>2, <2>1, <3>3 DEF LoneInv, DeletesUnused, NamesNot
  <2>6. QED
    BY <2>2, <2>3, <2>4, <2>5 DEF LoneInv
<1>5. \A t \in Txn : Filled(entry'.latest[t])
  BY DEF LInv, RowsAreFilled
<1>6. QED
  BY <1>2, <1>3, <1>4, <1>5, LoneStep

LEMMA LoneChecking ==
  ASSUME LInv, IInv', NEW s \in Session,
         \/ Fetch(s) \/ NameCheck(s) \/ TxnCheck(s) \/ DraftCheck(s) \/ AccountCheck(s)
         \/ CategoryCheck(s) \/ SeedCheck(s)
         \/ At(s, "find_system") /\ Proceed(s) /\ UNCHANGED <<named, entry, refs>>
         \/ At(s, "insert_system") /\ Proceed(s) /\ UNCHANGED <<named, entry, refs>>,
         ~ Idle(s)'
  PROVE  LInv'
<1>1. /\ \E x \in {"fetch", "name_check", "txn_check", "draft_check", "account_check",
                   "category_check", "seed_check", "find_system", "insert_system"} :
           /\ ~ Idle(s) /\ Head(pc[s]) = x
           /\ x = "txn_check" => Unused(s, Txn)
           /\ x = "draft_check" => Unused(s, Draft)
           /\ x = "account_check" => AccountUsable(s)
           /\ x = "category_check" => CategoryUsable(s)
      /\ Proceed(s) /\ UNCHANGED <<named, entry, refs>>
  BY DEF Fetch, NameCheck, TxnCheck, DraftCheck, AccountCheck, CategoryCheck, SeedCheck, At
<1>2. /\ ~ Idle(s) /\ ~ At(s, "lock") /\ ~ At(s, "reread_system")
      /\ At(s, "txn_check") => Unused(s, Txn)
      /\ At(s, "draft_check") => Unused(s, Draft)
      /\ At(s, "account_check") => AccountUsable(s)
      /\ At(s, "category_check") => CategoryUsable(s)
  BY <1>1 DEF At
<1>3. /\ pc' = [pc EXCEPT ![s] = Tail(@)]
      /\ UNCHANGED <<named, entry, request, refs, alone, seeds, served>>
  BY <1>1 DEF Proceed
<1>4. QED
  BY <1>2, <1>3, LoneLooks

(* The handler has found the system category, or made it. *)
LEMMA LoneSeeding ==
  ASSUME LInv, IInv', NEW s \in Session, ~ Idle(s), ~ Idle(s)',
         request[s].op = "create_opening_balance", NEW c \in Category,
         refs' = [refs EXCEPT ![s].category = c], Active(Visible(named', s, c)),
         UNCHANGED <<entry, request, alone, seeds, served>>,
         \A u \in Session \ {s} : pc'[u] = pc[u],
         \A x \in Looks : Past(s, x)' => Past(s, x),
         \/ UNCHANGED named
         \/ \E v \in NamedRow : named' = WriteRow(named, s, c, v) /\ Active(v)
  PROVE  LInv'
<1> DEFINE r == refs[s]
<1>1. /\ refs \in [Session -> Refs] /\ refs'[s].category = c /\ refs'[s].account = r.account
      /\ \A u \in Session \ {s} : refs'[u] = refs[u]
  BY DEF LInv, IInv, Typed, Refs
<1>2. RefsAreFilled(s)'
  BY <1>1, IdFacts, LoneAtWork DEF RefsAreFilled
<1>3. /\ named'.row = named.row
      /\ \A i \in Named : /\ named'.lock[i] \in {named.lock[i], s}
                          /\ Active(Visible(named, s, i)) => Active(Visible(named', s, i))
                          /\ \/ named'.lock[i] = named.lock[i] /\ named'.latest[i] = named.latest[i]
                             \/ Active(named'.latest[i])
  <2>1. CASE UNCHANGED named
    BY <2>1
  <2>2. ASSUME NEW v \in NamedRow, named' = WriteRow(named, s, c, v), Active(v)
        PROVE  /\ named'.row = named.row
               /\ \A i \in Named :
                    /\ named'.lock[i] = (IF i = c THEN s ELSE named.lock[i])
                    /\ named'.latest[i] = IF i = c THEN v ELSE named.latest[i]
    BY <2>2 DEF WriteRow, LInv, IInv, Typed, Tables
  <2>3. QED
    BY <2>1, <2>2 DEF Visible
<1>4. ASSUME Lone(s) PROVE LoneInv(s)'
  <2>1. LoneInv(s)
    BY <1>4 DEF LInv
  <2>2. DeletesUnused(s)' /\ HoldsItsRefs(s)'
    BY DEF DeletesUnused, HoldsItsRefs
  <2>3. r.account \in Account
    BY <1>1, LoneAtWork DEF RefsAreFilled, Refs
  <2>4. RefersToActive(s)'
    BY <1>1, <1>3, <2>1, <2>3, ActiveFacts DEF LoneInv, RefersToActive, Looks
  <2>5. KeepsActive(s)'
    <3>1. request[s].op \notin NamedOps
      BY DEF NamedOps, Create, Rename, Restore, Delete, Archive
    <3>2. QED
      BY <1>3, <2>1, <3>1 DEF LoneInv, KeepsActive
  <2>6. WritesSupported(s)'
    <3>1. ASSUME NEW e \in Entry, NEW v \in EntryRow, e \in Txn => Filled(v), Supported(s, e, v)
          PROVE  Supported(s, e, v)'
      <4>1. e \in Txn => v.account \in Named
        BY <3>1, ActiveFacts, MissingAssumption DEF Filled
      <4>2. v.category # Null => v.category \in Named
        BY <3>1, ActiveFacts DEF EntryRow
      <4>3. QED
        BY <1>3, <3>1, <4>1, <4>2 DEF Supported
    <3>2. ASSUME NEW e \in Entry, Active(entry.latest[e])
          PROVE  entry.latest[e] \in EntryRow /\ (e \in Txn => Filled(entry.latest[e]))
      BY <3>2 DEF Active, LInv, IInv, Typed, Tables, RowsAreFilled
    <3>3. QED
      BY <1>3, <2>1, <3>1, <3>2 DEF LoneInv, WritesSupported
  <2>7. QED
    BY <2>2, <2>4, <2>5, <2>6 DEF LoneInv
<1>5. \A t \in Txn : Filled(entry'.latest[t])
  BY DEF LInv, RowsAreFilled
<1>6. QED
  BY <1>1, <1>2, <1>3, <1>4, <1>5, LoneStep

LEMMA LoneFinding ==
  ASSUME LInv, IInv', NEW s \in Session, FindSystem(s) \/ RereadSystem(s) \/ InsertSystem(s),
         ~ Idle(s)'
  PROVE  LInv'
<1>1. /\ ~ Idle(s) /\ \E x \in {"find_system", "reread_system", "insert_system"} : At(s, x)
      /\ UNCHANGED entry
  BY DEF FindSystem, RereadSystem, InsertSystem, At
<1>2. /\ request[s].op = "create_opening_balance" /\ request[s] \in Request /\ AtItsPlan(s)
      /\ pc \in [Session -> Seq(Statements)]
  BY <1>1, LoneAtWork, Stations
<1>3. ASSUME NEW c \in SystemRows(s), refs' = [refs EXCEPT ![s].category = c], UNCHANGED named,
             UNCHANGED <<request, alone, seeds, served>>,
             \A x \in Looks : Past(s, x)' => Past(s, x),
             \A u \in Session \ {s} : pc'[u] = pc[u]
      PROVE  LInv'
  BY <1>1, <1>2, <1>3, SystemRowFacts, LoneSeeding
<1>4. CASE FindSystem(s) /\ Proceed(s) /\ UNCHANGED refs
  BY <1>4, LoneChecking DEF FindSystem
<1>5. CASE /\ FindSystem(s) /\ pc' = [pc EXCEPT ![s] = SubSeq(@, 4, Len(@))]
           /\ UNCHANGED <<request, seeds, alone, served>>
           /\ \E c \in SystemRows(s) : refs' = [refs EXCEPT ![s].category = c]
  <2>1. At(s, "find_system") /\ UNCHANGED named
    BY <1>5 DEF FindSystem
  <2>2. \A x \in Looks : Past(s, x)' => Past(s, x)
    BY <1>1, <1>2, <1>5, <2>1, PastJump
  <2>3. QED
    BY <1>2, <1>3, <1>5, <2>1, <2>2
<1>6. CASE RereadSystem(s)
  <2>1. /\ At(s, "reread_system") /\ Proceed(s) /\ UNCHANGED named
        /\ refs' = [refs EXCEPT ![s].category = Winner(s)] /\ Winner(s) \in SystemRows(s)
    BY <1>6 DEF RereadSystem, Winner
  <2>2. \A x \in Looks : Past(s, x)' => Past(s, x)
    BY <1>1, <1>2, <2>1, PastTail DEF At, Looks, Proceed
  <2>3. QED
    BY <1>2, <1>3, <2>1, <2>2 DEF Proceed
<1>7. CASE InsertSystem(s) /\ Proceed(s) /\ UNCHANGED <<named, refs>>
  BY <1>7, LoneChecking DEF InsertSystem
<1>8. CASE /\ InsertSystem(s) /\ pc' = [pc EXCEPT ![s] = SubSeq(@, 3, Len(@))]
           /\ UNCHANGED <<request, seeds, alone, served>>
           /\ named' = WriteRow(named, s, request[s].category, NewNamed(Reserved, TRUE))
           /\ refs' = [refs EXCEPT ![s].category = request[s].category]
  <2> DEFINE c == request[s].category
             v == NewNamed(Reserved, TRUE)
  <2>1. At(s, "insert_system") /\ c \in Category /\ c \in Named
    BY <1>2, <1>8, RequestFacts, IdFacts DEF InsertSystem
  <2>2. \A x \in Looks : Past(s, x)' => Past(s, x)
    BY <1>1, <1>2, <1>8, <2>1, PastJump
  <2>3. v \in NamedRow /\ Active(v)
    BY NameAssumption, NewNamedFacts DEF Active
  <2> HIDE DEF c, v
  <2>4. named' = WriteRow(named, s, c, v) /\ refs' = [refs EXCEPT ![s].category = c]
    BY <1>8 DEF c, v
  <2>5. Visible(named', s, c) = v
    BY <2>1, <2>4 DEF WriteRow, Visible, LInv, IInv, Typed, Tables
  <2>6. QED
    BY <1>1, <1>2, <1>8, <2>1, <2>2, <2>3, <2>4, <2>5, LoneSeeding
<1>9. QED
  BY <1>4, <1>5, <1>6, <1>7, <1>8 DEF FindSystem, InsertSystem

LEMMA LoneWritingNamed ==
  ASSUME LInv, IInv', NEW s \in Session, WriteNamed(s), ~ Idle(s)'
  PROVE  LInv'
<1> DEFINE q == request[s]
           k == q.id
           old == Visible(named, s, k)
           v == NamedAfter(q, old)
<1>1. /\ ~ Idle(s) /\ At(s, "write_named") /\ Applies(q, old)
      /\ named' = WriteRow(named, s, k, v) /\ pc' = [pc EXCEPT ![s] = Tail(@)]
      /\ UNCHANGED <<entry, refs, request, alone, seeds, served>>
  BY DEF WriteNamed, At, Proceed
<1>2. /\ AtItsPlan(s) /\ q \in Request /\ pc \in [Session -> Seq(Statements)]
      /\ refs[s] \in Refs /\ RefsAreFilled(s)
  BY <1>1, LoneAtWork
<1>3. q.op \in NamedOps
  BY <1>1, <1>2, Stations
<1>4. k \in Named /\ v \in NamedRow /\ old \in NamedRow \cup {Missing}
  <2>1. k \in Named /\ v \in NamedRow
    BY <1>1, NamedAfterFollows DEF LInv
  <2>2. QED
    BY <2>1 DEF LInv, IInv, Typed, Tables, Visible
<1>5. Active(old) /\ q.op \notin Delete => Active(v)
  <2>1. SUFFICES ASSUME Active(old), q.op \notin Delete PROVE Active(v)
    OBVIOUS
  <2>2. CASE q.op \in Create
    <3>1. ASSUME NEW x, Applies(q, x) PROVE x = Missing
      BY <2>2, <3>1 DEF Applies, Create, Rename, Restore
    <3>2. QED
      BY <1>1, <2>1, <3>1 DEF Active
  <2> HIDE DEF q, old
  <2>3. CASE q.op \in Rename \cup Restore
    <3>1. v = [old EXCEPT !.name = q.name] \/ v = [old EXCEPT !.active = TRUE]
      BY <2>3 DEF NamedAfter, Create, Rename, Restore, Delete, Archive
    <3>2. v.active
      BY <1>4, <2>1, <3>1 DEF Active, NamedRow
    <3>3. QED
      BY <1>4, <3>2, MissingAssumption DEF Active
  <2>4. CASE q.op \in Archive
    <3>1. v = [old EXCEPT !.archived = (q.op = "archive_account")]
      BY <2>4 DEF NamedAfter, Create, Rename, Restore, Delete, Archive
    <3>2. v.active
      BY <1>4, <2>1, <3>1 DEF Active, NamedRow
    <3>3. QED
      BY <1>4, <3>2, MissingAssumption DEF Active
  <2>5. QED
    BY <1>3, <2>1, <2>2, <2>3, <2>4 DEF NamedOps, q
<1> HIDE DEF v
<1>6. /\ named'.row = named.row
      /\ \A i \in Named : /\ named'.lock[i] = (IF i = k THEN s ELSE named.lock[i])
                          /\ named'.latest[i] = IF i = k THEN v ELSE named.latest[i]
  BY <1>1, <1>4 DEF WriteRow, LInv, IInv, Typed, Tables
<1>7. /\ \A x : Past(s, x)' => Past(s, x) \/ At(s, x)
      /\ \A x \in Looks : ~ At(s, x)
      /\ \A u \in Session \ {s} : pc'[u] = pc[u]
  BY <1>1, <1>2, PastTail DEF At, Looks
<1>8. q.op \notin Writers \cup {"promote_inbox_item"}
  BY <1>3 DEF NamedOps, Writers, Create, Rename, Restore, Delete, Archive
<1>9. RefsAreFilled(s)'
  BY <1>1, <1>8 DEF RefsAreFilled, Writers
<1>10. ASSUME Lone(s) PROVE LoneInv(s)'
  <2>1. LoneInv(s)
    BY <1>10 DEF LInv
  <2>2. DeletesUnused(s)'
    BY <1>1, <1>7, <2>1 DEF LoneInv, DeletesUnused, NamesNot, Looks
  <2>3. RefersToActive(s)' /\ HoldsItsRefs(s)'
    BY <1>1, <1>8 DEF RefersToActive, HoldsItsRefs, Writers
  <2>4. \A e \in Entry : entry.lock[e] # s
    BY <1>3, <2>1 DEF LoneInv, KeepsActive
  <2>5. KeepsActive(s)'
    <3>1. ASSUME Active(named.row[k]), q.op \notin Delete PROVE Active(v)
      BY <1>4, <1>5, <2>1, <3>1 DEF LoneInv, KeepsActive, Visible
    <3>2. QED
      BY <1>1, <1>6, <2>1, <2>4, <3>1 DEF LoneInv, KeepsActive
  <2>6. WritesSupported(s)'
    BY <1>1, <2>4 DEF WritesSupported
  <2>7. QED
    BY <2>2, <2>3, <2>5, <2>6 DEF LoneInv
<1>11. \A t \in Txn : Filled(entry'.latest[t])
  BY <1>1 DEF LInv, RowsAreFilled
<1>12. QED
  BY <1>1, <1>6, <1>7, <1>9, <1>10, <1>11, LoneStep

(* What an entry refers to is active for a session alone, if nothing else    *)
(* was amiss when it began.                                                  *)
LEMMA SupportedRows ==
  ASSUME LInv, NEW s \in Session, Lone(s), request[s].op \notin Delete,
         ReferencesAreActive(named.row, entry.row),
         NEW e \in Entry, Active(Visible(entry, s, e))
  PROVE  Supported(s, e, Visible(entry, s, e))
<1> DEFINE v == Visible(entry, s, e)
<1>1. LoneInv(s)
  BY DEF LInv
<1>2. CASE entry.lock[e] = s
  BY <1>1, <1>2 DEF LoneInv, WritesSupported, Visible
<1>3. CASE entry.lock[e] # s
  <2>1. v = entry.row[e] /\ Active(v) /\ v \in EntryRow
    BY <1>3 DEF Visible, Active, LInv, IInv, Typed, Tables
  <2>2. /\ e \in Txn => v.account \in Named /\ Active(named.row[v.account])
        /\ v.category # Null => v.category \in Named /\ Active(named.row[v.category])
    BY <2>1, ActiveFacts DEF ReferencesAreActive, LInv, RowsAreFilled, Filled, Active, EntryRow
  <2>3. \A i \in Named : Active(named.row[i]) => Active(Visible(named, s, i))
    BY <1>1 DEF LoneInv, KeepsActive, Visible
  <2>4. QED
    BY <2>1, <2>2, <2>3 DEF Supported
<1>4. QED
  BY <1>2, <1>3

(* A write of a ledger row or a draft. *)
LEMMA LoneWrite ==
  ASSUME LInv, IInv', NEW s \in Session, ~ Idle(s), ~ Idle(s)', NEW w \in Ends, At(s, w),
         request[s].op \notin NamedOps,
         NEW e \in Entry, NEW v \in EntryRow, entry' = WriteRow(entry, s, e, v),
         UNCHANGED <<named, refs, request, alone, seeds, served>>,
         \A u \in Session \ {s} : pc'[u] = pc[u],
         e \in Txn => Filled(v),
         Lone(s) /\ Active(v) /\ ReferencesAreActive(named.row, entry.row) => Supported(s, e, v),
         Lone(s) /\ request[s].op = "restore_transaction" /\ e = request[s].id =>
           v.account = refs[s].account /\ v.category = refs[s].category
  PROVE  LInv'
<1>1. \A x \in Looks \cup {"reread_system"} : Past(s, x)
  BY LoneAtWork, PastFacts
<1>2. /\ entry'.row = entry.row
      /\ \A j \in Entry : /\ entry'.lock[j] = (IF j = e THEN s ELSE entry.lock[j])
                          /\ entry'.latest[j] = IF j = e THEN v ELSE entry.latest[j]
  BY DEF WriteRow, LInv, IInv, Typed, Tables
<1>3. RefsAreFilled(s) /\ request[s] \in Request
  BY LoneAtWork
<1>4. RefsAreFilled(s)'
  BY <1>1, <1>3 DEF RefsAreFilled, Looks
<1>5. \A t \in Txn : Filled(entry'.latest[t])
  BY <1>2, IdFacts DEF LInv, RowsAreFilled
<1>6. ASSUME Lone(s) PROVE LoneInv(s)'
  <2>1. LoneInv(s)
    BY <1>6 DEF LInv
  <2>2. DeletesUnused(s)'
    BY DEF DeletesUnused, NamedOps, Delete
  <2>3. RefersToActive(s)'
    BY <1>1, <2>1 DEF LoneInv, RefersToActive, Looks
  <2>4. HoldsItsRefs(s)'
    <3>1. request[s].op = "restore_transaction" => request[s].id \in Entry
      BY <1>3, RequestFacts DEF LockOps
    <3>2. QED
      BY <1>1, <1>2, <1>6, <2>1, <3>1 DEF LoneInv, HoldsItsRefs, Looks
  <2>5. KeepsActive(s)'
    BY <2>1 DEF LoneInv, KeepsActive
  <2>6. WritesSupported(s)'
    BY <1>2, <1>6, <2>1 DEF LoneInv, WritesSupported, Supported
  <2>7. QED
    BY <2>2, <2>3, <2>4, <2>5, <2>6 DEF LoneInv
<1>7. QED
  BY <1>2, <1>4, <1>5, <1>6, LoneStep

LEMMA LoneInserting ==
  ASSUME LInv, IInv', NEW s \in Session, NEW e \in Entry, InsertRow(s, e), ~ Idle(s)'
  PROVE  LInv'
<1> DEFINE q == request[s]
           r == refs[s]
           v == [account |-> r.account, category |-> r.category, active |-> TRUE]
<1>1. /\ ~ Idle(s) /\ At(s, "insert_rows") /\ e \in todo[s]
      /\ entry' = WriteRow(entry, s, e, v)
      /\ UNCHANGED <<named, refs, request, alone, seeds, served>>
      /\ \A u \in Session \ {s} : pc'[u] = pc[u]
  BY DEF InsertRow, At, Proceed, LInv, IInv, Typed
<1>2. /\ AtItsPlan(s) /\ q \in Request /\ pc[s] \in Seq(Statements) /\ r \in Refs
      /\ RefsAreFilled(s) /\ \A x \in Looks \cup {"reread_system"} : Past(s, x)
  BY <1>1, LoneAtWork, PastFacts DEF Ends
<1>3. q.op \in InsertOps /\ e \in q.rows
  BY <1>1, <1>2, Stations DEF AtItsPlan
<1>4. q.op \in Writers /\ q.op \notin NamedOps /\ q.op # "restore_transaction"
  BY <1>3 DEF InsertOps, Writers, NamedOps, Create, Rename, Restore, Delete, Archive
<1>5. v \in EntryRow
  BY <1>2 DEF EntryRow, Refs
<1>6. e \in Txn => r.account \in Account /\ r.category \in Category
  <2>1. e \in Txn => q.op # "create_inbox_item"
    BY <1>2, <1>3, RequestFacts, IdFacts
  <2>2. e \in Txn => r.account # Null /\ r.category # Null
    BY <1>2, <1>3, <2>1 DEF InsertOps, RefsAreFilled, Looks
  <2>3. QED
    BY <1>2, <2>2 DEF Refs
<1>7. e \in Txn => Filled(v)
  BY <1>6 DEF Filled
<1>8. Lone(s) => Supported(s, e, v)
  <2>1. SUFFICES ASSUME Lone(s) PROVE Supported(s, e, v)
    OBVIOUS
  <2>2. RefersToActive(s)
    BY <2>1 DEF LInv, LoneInv
  <2>3. QED
    BY <1>2, <1>4, <1>6, <2>2, ActiveFacts DEF RefersToActive, Supported, Looks
<1> HIDE DEF v
<1>9. QED
  BY <1>1, <1>4, <1>5, <1>7, <1>8, LoneWrite DEF Ends

LEMMA LoneWritingEntry ==
  ASSUME LInv, IInv', NEW s \in Session, WriteEntry(s), ~ Idle(s)'
  PROVE  LInv'
<1> DEFINE q == request[s]
           e == q.id
           r == refs[s]
           old == Visible(entry, s, e)
           v == EntryAfter(s, old)
<1>1. /\ ~ Idle(s) /\ At(s, "write_entry") /\ entry' = WriteRow(entry, s, e, v)
      /\ UNCHANGED <<named, refs, request, alone, seeds, served>>
      /\ \A u \in Session \ {s} : pc'[u] = pc[u]
  BY DEF WriteEntry, At, Proceed, LInv, IInv, Typed
<1>2. /\ AtItsPlan(s) /\ q \in Request /\ pc[s] \in Seq(Statements) /\ r \in Refs
      /\ \A x \in Looks \cup {"reread_system"} : Past(s, x)
  BY <1>1, LoneAtWork, PastFacts DEF Ends
<1>3. q.op \in LockOps \cup {"delete_inbox_item"} /\ e \in Entry /\ e \in Txn \cup Draft
  BY <1>1, <1>2, Stations, RequestFacts DEF Entry
<1>4. q.op \notin NamedOps \cup Delete
  BY <1>3 DEF LockOps, NamedOps, Create, Rename, Restore, Delete, Archive
<1>5. old \in EntryRow /\ old # Missing
  <2>1. HasRow(s)
    BY DEF LInv, IInv, SessionInv
  <2>2. old # Missing
    BY <1>1, <1>3, <2>1 DEF HasRow, At
  <2>3. QED
    BY <1>3, <2>2 DEF LInv, IInv, Typed, Tables, Visible
<1>6. e \in Txn => old.account \in Account /\ old.category \in Category
  BY <1>5 DEF LInv, RowsAreFilled, Filled, Visible
<1> HIDE DEF old
<1>7. \/ /\ q.op \in {"update_transaction", "update_inbox_item"} /\ v.active = old.active
         /\ v.account = (IF r.account = Null THEN old.account ELSE r.account)
         /\ v.category = (IF r.category = Null THEN old.category ELSE r.category)
      \/ /\ q.op = "restore_transaction" /\ v.active
         /\ v.account = old.account /\ v.category = old.category
      \/ /\ q.op \notin {"update_transaction", "update_inbox_item", "restore_transaction"}
         /\ ~ v.active /\ v.account = old.account /\ v.category = old.category
  <2>1. CASE q.op \in {"update_transaction", "update_inbox_item"}
    <3>1. v = [old EXCEPT !.account = Given(r.account, @), !.category = Given(r.category, @)]
      BY <2>1 DEF EntryAfter
    <3>2. QED
      BY <1>5, <2>1, <3>1 DEF EntryRow, Given
  <2>2. CASE q.op = "restore_transaction"
    <3>1. v = [old EXCEPT !.active = TRUE]
      BY <2>2 DEF EntryAfter
    <3>2. QED
      BY <1>5, <2>2, <3>1 DEF EntryRow
  <2>3. CASE q.op \notin {"update_transaction", "update_inbox_item", "restore_transaction"}
    <3>1. v = [old EXCEPT !.active = FALSE]
      BY <2>3 DEF EntryAfter
    <3>2. QED
      BY <1>5, <2>3, <3>1 DEF EntryRow
  <2>4. QED
    BY <2>1, <2>2, <2>3
<1>8. v \in EntryRow
  <2>1. \/ v = [old EXCEPT !.active = TRUE] \/ v = [old EXCEPT !.active = FALSE]
        \/ v = [old EXCEPT !.account = Given(r.account, @), !.category = Given(r.category, @)]
    BY DEF EntryAfter
  <2>2. /\ Given(r.account, old.account) \in Account \cup {Null}
        /\ Given(r.category, old.category) \in Category \cup {Null}
    BY <1>2, <1>5 DEF Given, EntryRow, Refs
  <2>3. QED
    BY <1>5, <2>1, <2>2 DEF EntryRow
<1> HIDE DEF v
<1>9. e \in Txn => Filled(v)
  BY <1>2, <1>6, <1>7 DEF Filled, Refs
<1>10. ASSUME Lone(s) PROVE RefersToActive(s) /\ HoldsItsRefs(s)
  BY <1>10 DEF LInv, LoneInv
<1>11. Lone(s) /\ q.op = "restore_transaction" =>
         old.account = r.account /\ old.category = r.category
  BY <1>2, <1>10 DEF HoldsItsRefs, Visible, Looks, old
<1>12. ASSUME Lone(s), Active(v), ReferencesAreActive(named.row, entry.row)
       PROVE  Supported(s, e, v)
  <2>1. CASE q.op \in {"update_transaction", "update_inbox_item"}
    <3>1. Active(old)
      BY <1>5, <1>7, <1>12, <2>1 DEF Active
    <3>2. Supported(s, e, old)
      BY <1>3, <1>4, <1>12, <3>1, SupportedRows DEF old
    <3>3. /\ r.account # Null => Active(Visible(named, s, r.account))
          /\ r.category # Null => Active(Visible(named, s, r.category))
      BY <1>2, <1>10, <1>12, <2>1 DEF RefersToActive, Writers, Looks
    <3>4. QED
      BY <1>7, <2>1, <3>2, <3>3 DEF Supported
  <2>2. CASE q.op = "restore_transaction"
    <3>1. e \in Txn
      BY <1>2, <2>2, RequestFacts
    <3>2. v.account \in Account /\ v.category \in Category
          /\ v.account = r.account /\ v.category = r.category
      BY <1>6, <1>7, <1>11, <1>12, <2>2, <3>1
    <3>3. QED
      BY <1>2, <1>10, <1>12, <2>2, <3>2, ActiveFacts DEF RefersToActive, Writers, Looks, Supported
  <2>3. QED
    BY <1>7, <1>12, <2>1, <2>2 DEF Active
<1>13. Lone(s) /\ q.op = "restore_transaction" => v.account = r.account /\ v.category = r.category
  BY <1>7, <1>11
<1>14. QED
  BY <1>1, <1>3, <1>4, <1>8, <1>9, <1>12, <1>13, LoneWrite DEF Ends

LEMMA LoneLocking ==
  ASSUME LInv, IInv', NEW s \in Session, LockEntry(s), ~ Idle(s)'
  PROVE  LInv'
<1> DEFINE q == request[s]
           v == Visible(entry, s, q.id)
<1>1. /\ ~ Idle(s) /\ At(s, "lock") /\ Free(entry, s, q.id) /\ Found(q, v)
      /\ entry' = LockRow(entry, s, q.id) /\ pc' = [pc EXCEPT ![s] = Tail(@)]
      /\ refs' = IF q.op \in {"restore_transaction", "promote_inbox_item"}
                 THEN [refs EXCEPT ![s] = [account |-> v.account, category |-> v.category]]
                 ELSE refs
      /\ UNCHANGED <<named, request, alone, seeds, served>>
  BY DEF LockEntry, At, Proceed
<1>2. /\ AtItsPlan(s) /\ q \in Request /\ pc \in [Session -> Seq(Statements)]
      /\ refs \in [Session -> Refs]
  BY <1>1, LoneAtWork DEF LInv, IInv, Typed
<1>3. q.op \in LockOps /\ q.id \in Entry
  BY <1>1, <1>2, Stations, RequestFacts
<1>4. /\ \A x : Past(s, x)' => Past(s, x) \/ At(s, x)
      /\ \A u \in Session \ {s} : pc'[u] = pc[u] /\ refs'[u] = refs[u]
  BY <1>1, <1>2, PastTail
<1>5. q.op \in {"restore_transaction", "promote_inbox_item"} =>
        ~ Past(s, "account_check")' /\ ~ Past(s, "category_check")'
  BY <1>1, <1>2, <1>4, PastFacts DEF At
<1>6. /\ entry'.row = entry.row /\ entry'.latest = entry.latest /\ entry'.lock[q.id] = s
      /\ \A d \in Entry : Visible(entry', s, d) = Visible(entry, s, d)
  <2>1. entry'.lock[q.id] = s
    BY <1>1, <1>3 DEF LockRow, LInv, IInv, Typed, Tables
  <2>2. QED
    BY <1>1, <1>3, <2>1, EntryLocks DEF LInv, LockRow
<1>7. q.op = "restore_transaction" =>
        refs'[s].account = v.account /\ refs'[s].category = v.category
  BY <1>1, <1>2
<1>8. entry'.latest[q.id] = v
  BY <1>3, <1>6 DEF Visible
<1> HIDE DEF v
<1>9. RefsAreFilled(s)'
  BY <1>1, <1>3, <1>5 DEF RefsAreFilled, LockOps
<1>10. ASSUME Lone(s) PROVE LoneInv(s)'
  <2>1. LoneInv(s)
    BY <1>10 DEF LInv
  <2>2. DeletesUnused(s)'
    BY <1>1, <1>3 DEF DeletesUnused, LockOps
  <2>3. RefersToActive(s)'
    <3>1. CASE q.op \in {"restore_transaction", "promote_inbox_item"}
      BY <1>1, <1>5, <3>1 DEF RefersToActive
    <3>2. CASE q.op \notin {"restore_transaction", "promote_inbox_item"}
      BY <1>1, <1>4, <2>1, <3>2 DEF LoneInv, RefersToActive, At
    <3>3. QED
      BY <3>1, <3>2
  <2>4. HoldsItsRefs(s)'
    BY <1>1, <1>6, <1>7, <1>8 DEF HoldsItsRefs
  <2>5. KeepsActive(s)'
    BY <1>1, <1>3, <2>1 DEF LoneInv, KeepsActive, NamedOps, LockOps, Create, Rename, Restore,
                            Delete, Archive
  <2>6. WritesSupported(s)'
    <3>1. SUFFICES ASSUME ReferencesAreActive(named.row, entry.row), NEW e \in Entry,
                          entry'.lock[e] = s, Active(entry'.latest[e])
                   PROVE  Supported(s, e, entry.latest[e])'
      BY <1>1, <1>6 DEF WritesSupported
    <3>2. entry'.latest[e] = Visible(entry, s, e)
      BY <1>6, <3>1 DEF Visible
    <3>3. q.op \notin Delete
      BY <1>3 DEF LockOps, Delete
    <3>4. Supported(s, e, Visible(entry, s, e))
      BY <1>10, <3>1, <3>2, <3>3, SupportedRows
    <3>5. QED
      BY <1>1, <3>2, <3>4 DEF Supported
  <2>7. QED
    BY <2>2, <2>3, <2>4, <2>5, <2>6 DEF LoneInv
<1>11. \A t \in Txn : Filled(entry'.latest[t])
  BY <1>6 DEF LInv, RowsAreFilled
<1>12. QED
  BY <1>1, <1>4, <1>6, <1>9, <1>10, <1>11, LoneStep

LEMMA LoneBegin ==
  ASSUME LInv, IInv', NEW s \in Session, NEW q \in Request, Begin(s, q)
  PROVE  LInv'
<1> DEFINE beside == {o \in Session \ {s} : ~ Idle(o)}
<1>1. /\ Idle(s) /\ UNCHANGED <<named, entry, seeds>> /\ served' = served + 1
      /\ request' = [request EXCEPT ![s] = q] /\ pc' = [pc EXCEPT ![s] = Plan(q.op)]
      /\ refs' = [refs EXCEPT ![s] = [account |-> q.account,
                                      category |-> IF q.op = "create_opening_balance"
                                                   THEN Null ELSE q.category]]
      /\ alone' = [o \in Session |-> alone[o] /\ (o \in beside \cup {s} => beside = {})]
  BY DEF Begin
<1>2. Typed /\ SessionInv(s) /\ alone \in [Session -> BOOLEAN] /\ served \in Nat
  BY DEF LInv, IInv
<1>3. /\ request'[s] = q /\ pc'[s] = Plan(q.op) /\ refs'[s].account = q.account
      /\ q.op # "create_opening_balance" => refs'[s].category = q.category
      /\ \A u \in Session \ {s} :
           request'[u] = request[u] /\ pc'[u] = pc[u] /\ refs'[u] = refs[u]
  BY <1>1, <1>2 DEF Typed
<1>4. /\ \A u \in Session : alone'[u] <=> alone[u] /\ (u \in beside \cup {s} => beside = {})
      /\ alone' \in [Session -> BOOLEAN]
  BY <1>1, <1>2
<1>5. PlanRuns(q.op, Plan(q.op))
  BY RequestFacts, PlanOrder
<1>6. /\ q.op \in Writers => ~ Past(s, "account_check")' /\ ~ Past(s, "category_check")'
      /\ q.op \in {"delete_account", "delete_category"} => ~ Past(s, "txn_check")'
      /\ q.op = "delete_category" => ~ Past(s, "draft_check")'
      /\ q.op = "restore_transaction" => ~ Past(s, "lock")'
      /\ q.op = "create_opening_balance" => ~ Past(s, "reread_system")'
  BY <1>3, <1>5 DEF PlanRuns, Past
<1>7. RefsAreFilled(s)'
  <2>1. q.op \in {"create_transaction", "create_batch", "create_opening_balance"} =>
          q.account # Null /\ q.category # Null
    BY RequestRefs, ActiveFacts
  <2>2. q.op = "promote_inbox_item" => q.op \in Writers
    BY DEF Writers
  <2>3. QED
    BY <1>3, <1>6, <2>1, <2>2 DEF RefsAreFilled
<1>8. \A u \in Session \ {s} : RefsAreFilled(u)' /\ (Idle(u)' <=> Idle(u))
  BY <1>3 DEF LInv, RefsAreFilled, Past, Idle
<1>9. \A u \in Session \ {s} : ~ Lone(u)'
  BY <1>4, <1>8 DEF Lone
<1>10. \A u \in Session : NobodyBeside(u)'
  BY <1>4, <1>8, <1>9 DEF NobodyBeside, Lone
<1>11. LoneInv(s)'
  <2>1. DeletesUnused(s)' /\ RefersToActive(s)' /\ HoldsItsRefs(s)'
    BY <1>3, <1>6 DEF DeletesUnused, RefersToActive, HoldsItsRefs
  <2>2. /\ \A e \in Entry : entry.lock[e] # s
        /\ \A i \in Named : named.lock[i] # s
    BY <1>1, <1>2 DEF SessionInv, AtItsPlan, LInv
  <2>3. KeepsActive(s)' /\ WritesSupported(s)'
    BY <1>1, <2>2 DEF KeepsActive, WritesSupported
  <2>4. QED
    BY <2>1, <2>3 DEF LoneInv
<1>12. ~ Idle(s)'
  BY <1>3, RequestFacts, PlanFacts DEF PlanFits, Idle
<1>13. \A u \in Session : Idle(u)' => \A i \in Named : named'.lock[i] # u
  BY <1>1, <1>8, <1>12 DEF LInv
<1>14. RowsAreFilled'
  BY <1>1 DEF LInv, RowsAreFilled
<1>15. QED
  BY <1>1, <1>2, <1>4, <1>7, <1>8, <1>9, <1>10, <1>11, <1>13, <1>14 DEF LInv

LEMMA LoneEnd ==
  ASSUME LInv, IInv', NEW s \in Session, ~ Idle(s), End(s), seeds' \subseteq Txn,
         named' = Commit(named, s, Named) \/ named' = Rollback(named, s, Named),
         entry' = Commit(entry, s, Entry) \/ entry' = Rollback(entry, s, Entry)
  PROVE  LInv'
<1>1. Typed /\ alone \in [Session -> BOOLEAN] /\ served \in Nat
  BY DEF LInv, IInv
<1>2. /\ request'[s] = NoRequest /\ pc'[s] = <<>> /\ served' = served
      /\ alone' \in [Session -> BOOLEAN]
      /\ \A u \in Session \ {s} : /\ request'[u] = request[u] /\ pc'[u] = pc[u]
                                  /\ refs'[u] = refs[u] /\ alone'[u] = alone[u]
  BY <1>1 DEF End, Typed
<1>3. \A e \in Entry : /\ entry'.row[e] \in {entry.row[e], entry.latest[e]}
                       /\ entry'.latest[e] \in {entry.row[e], entry.latest[e]}
  BY DEF Commit, Rollback, Visible
<1>4. \A i \in Named : named'.lock[i] = IF named.lock[i] = s THEN Nobody ELSE named.lock[i]
  BY DEF Commit, Rollback, Unlocked
<1>5. RowsAreFilled'
  BY <1>3, IdFacts DEF LInv, RowsAreFilled
<1>6. RefsAreFilled(s)'
  BY <1>2 DEF RefsAreFilled, NoRequest, Asked
<1>7. \A u \in Session \ {s} : RefsAreFilled(u)' /\ (Idle(u)' <=> Idle(u))
  BY <1>2 DEF LInv, RefsAreFilled, Past, Idle
<1>8. \A u \in Session : ~ Lone(u)'
  BY <1>2, <1>7, LoneAtWork DEF Lone, Idle
<1>9. \A u \in Session : Idle(u)' => \A i \in Named : named'.lock[i] # u
  BY <1>4, <1>7, SessionAssumption DEF LInv
<1>10. QED
  BY <1>1, <1>2, <1>5, <1>6, <1>7, <1>8, <1>9 DEF LInv, NobodyBeside

(* Only COMMIT, and giving up, ends a request. *)
LEMMA Continues ==
  ASSUME IInv, NEW s \in Session, Step(s), ~ CommitAll(s)
  PROVE  ~ Idle(s)'
<1>1. ASSUME ~ Idle(s), ~ At(s, "commit"), Moves(s), UNCHANGED request PROVE ~ Idle(s)'
  BY <1>1, MoveFacts
<1>2. CASE \/ Fetch(s) \/ NameCheck(s) \/ TxnCheck(s) \/ DraftCheck(s) \/ AccountCheck(s)
           \/ CategoryCheck(s) \/ SeedCheck(s) \/ RereadSystem(s) \/ WriteNamed(s)
           \/ LockEntry(s) \/ WriteEntry(s)
  <2>1. ~ Idle(s) /\ ~ At(s, "commit") /\ Proceed(s)
    BY <1>2 DEF Fetch, NameCheck, TxnCheck, DraftCheck, AccountCheck, CategoryCheck, SeedCheck,
                RereadSystem, WriteNamed, LockEntry, WriteEntry, At
  <2>2. QED
    BY <1>1, <2>1, ProceedMoves
<1>3. ASSUME NEW e \in Entry, InsertRow(s, e) PROVE ~ Idle(s)'
  <2>1. /\ ~ Idle(s) /\ At(s, "insert_rows") /\ ~ At(s, "commit")
        /\ Proceed(s) \/ UNCHANGED <<request, pc>>
    BY <1>3 DEF InsertRow, At
  <2>2. QED
    BY <1>1, <2>1, ProceedMoves DEF Moves
<1>4. CASE FindSystem(s)
  <2>1. /\ ~ Idle(s) /\ At(s, "find_system") /\ ~ At(s, "commit")
        /\ \/ Proceed(s)
           \/ pc' = [pc EXCEPT ![s] = SubSeq(@, 3 + 1, Len(@))] /\ UNCHANGED request
    BY <1>4 DEF FindSystem, At
  <2>2. Moves(s) /\ UNCHANGED request
    BY <2>1, ProceedMoves DEF Moves, Advances
  <2>3. QED
    BY <1>1, <2>1, <2>2
<1>5. CASE InsertSystem(s)
  <2>1. At(s, "insert_system") /\ ~ Idle(s) /\ ~ At(s, "commit")
    BY <1>5 DEF InsertSystem, At
  <2>2. Moves(s) /\ UNCHANGED request
    <3>1. CASE Proceed(s)
      BY <3>1, ProceedMoves
    <3>2. CASE pc' = [pc EXCEPT ![s] = SubSeq(@, 3, Len(@))] /\ UNCHANGED request
      <4>1. pc' = [pc EXCEPT ![s] = IF 2 = 1 THEN Tail(@) ELSE SubSeq(@, 2 + 1, Len(@))]
        BY <3>2
      <4>2. QED
        BY <2>1, <3>2, <4>1 DEF Moves, Advances
    <3>3. QED
      BY <1>5, <3>1, <3>2 DEF InsertSystem
  <2>3. QED
    BY <1>1, <2>1, <2>2
<1>6. QED
  BY <1>2, <1>3, <1>4, <1>5 DEF Step

LEMMA LoneCommit ==
  ASSUME LInv, IInv', NEW s \in Session, CommitAll(s)
  PROVE  LInv'
<1>1. /\ ~ Idle(s) /\ End(s) /\ named' = Commit(named, s, Named)
      /\ entry' = Commit(entry, s, Entry)
      /\ seeds' = IF request[s].op = "create_opening_balance"
                  THEN seeds \cup request[s].rows ELSE seeds
  BY DEF CommitAll, At
<1>2. seeds' \subseteq Txn
  BY <1>1, LoneAtWork, RequestRefs DEF LInv
<1>3. QED
  BY <1>1, <1>2, LoneEnd

LEMMA LoneStarts == Init => LInv
<1> SUFFICES ASSUME Init PROVE LInv
  OBVIOUS
<1>1. PICK names \in [Named -> NamedRow \cup {Missing}],
           rows \in [Entry -> EntryRow \cup {Missing}] :
        /\ EntriesConsistent(names, rows)
        /\ named = AtRest(names, Named)
        /\ entry = AtRest(rows, Entry)
        /\ seeds = {t \in Txn : rows[t] # Missing /\ Opening(names, rows[t].category)}
  BY DEF Init
<1>2. /\ alone = [s \in Session |-> TRUE] /\ served = 0
      /\ \A s \in Session : Idle(s) /\ request[s].op = "none"
  BY DEF Init, Idle, NoRequest, Asked
<1>3. /\ entry.row = rows /\ entry.latest = rows
      /\ named.lock = [i \in Named |-> Nobody]
  BY <1>1 DEF AtRest
<1>4. RowsAreFilled
  <2>1. \A t \in Txn : Filled(rows[t])
    BY <1>1, IdFacts DEF EntriesConsistent, EntryRow, Filled
  <2>2. QED
    BY <1>3, <2>1 DEF RowsAreFilled
<1>5. \A s \in Session : RefsAreFilled(s) /\ ~ Lone(s) /\ \A i \in Named : named.lock[i] # s
  BY <1>2, <1>3, SessionAssumption DEF RefsAreFilled, Lone
<1>6. IInv
  BY Starts
<1>7. QED
  BY <1>1, <1>2, <1>4, <1>5, <1>6 DEF LInv, NobodyBeside

LEMMA LoneSteps == LInv /\ [Next]_vars => LInv'
<1> SUFFICES ASSUME LInv, [Next]_vars PROVE LInv'
  OBVIOUS
<1>1. IInv /\ IInv'
  BY Steps DEF LInv
<1>2. ASSUME NEW s \in Session, NEW q \in Request, Begin(s, q) PROVE LInv'
  BY <1>1, <1>2, LoneBegin
<1>3. ASSUME NEW s \in Session, Step(s), ~ CommitAll(s) PROVE LInv'
  <2>1. ~ Idle(s)'
    BY <1>1, <1>3, Continues
  <2>2. QED
    BY <1>1, <1>3, <2>1, LoneChecking, LoneFinding, LoneWritingNamed, LoneLocking,
       LoneInserting, LoneWritingEntry DEF Step
<1>4. ASSUME NEW s \in Session, CommitAll(s) PROVE LInv'
  BY <1>1, <1>4, LoneCommit
<1>5. ASSUME NEW s \in Session, Abandon(s) PROVE LInv'
  <2>1. /\ ~ Idle(s) /\ End(s) /\ UNCHANGED seeds
        /\ named' = Rollback(named, s, Named) /\ entry' = Rollback(entry, s, Entry)
    BY <1>5 DEF Abandon
  <2>2. QED
    BY <1>1, <2>1, LoneEnd DEF LInv
<1>6. CASE UNCHANGED vars
  <2>1. UNCHANGED <<named, entry, request, pc, refs, alone, seeds, served>>
    BY <1>6 DEF vars
  <2>2. \A s \in Session : /\ RefsAreFilled(s)' <=> RefsAreFilled(s)
                           /\ NobodyBeside(s)' <=> NobodyBeside(s)
                           /\ Idle(s)' <=> Idle(s)
                           /\ Lone(s)' <=> Lone(s)
    BY <2>1 DEF RefsAreFilled, NobodyBeside, Idle, Lone, Past
  <2>3. \A s \in Session : LoneInv(s)' <=> LoneInv(s)
    BY <2>1 DEF LoneInv, DeletesUnused, NamesNot, RefersToActive, HoldsItsRefs, KeepsActive,
                WritesSupported, Supported, Past
  <2>4. RowsAreFilled' <=> RowsAreFilled
    BY <2>1 DEF RowsAreFilled
  <2>5. QED
    BY <1>1, <2>1, <2>2, <2>3, <2>4 DEF LInv
<1>7. QED
  BY <1>2, <1>3, <1>4, <1>5, <1>6 DEF Next

(* A request that runs alone finds its references as it left them. *)
THEOREM LoneInvariance == Spec => []LInv
  BY LoneStarts, LoneSteps, PTL DEF Spec

(* Every variable keeps its type; a ledger row, unlike a draft, always names *)
(* an account and a category, whichever handler wrote it.                    *)
THEOREM TypesAreKept == Spec => []TypeOK
<1>1. LInv => TypeOK
  <2>1. Null \notin Account /\ Null \notin Category
    BY ActiveFacts, SentinelAssumption DEF Named
  <2>2. QED
    BY <2>1 DEF LInv, RowsAreFilled, Filled, IInv, Typed, TypeOK
<1>2. QED
  BY <1>1, LoneInvariance, PTL

(* A request that no other has run beside commits no active ledger row or    *)
(* draft under a deleted account or category.                                *)
THEOREM LoneRequestsKeepReferences == Spec => LoneRequestKeepsReferences
<1>1. ASSUME LInv, NEW s \in Session, alone[s], CommitAll(s),
             ReferencesAreActive(named.row, entry.row)
      PROVE  ReferencesAreActive(named'.row, entry'.row)
  <2> DEFINE q == request[s]
  <2>1. /\ ~ Idle(s) /\ At(s, "commit")
        /\ \A i \in Named : named'.row[i] = Visible(named, s, i)
        /\ \A e \in Entry : entry'.row[e] = Visible(entry, s, e)
    BY <1>1 DEF CommitAll, At, Commit
  <2>2. LoneInv(s) /\ Lone(s)
    BY <1>1, <2>1 DEF LInv, Lone
  <2>3. /\ AtItsPlan(s) /\ q \in Request /\ pc[s] \in Seq(Statements)
        /\ \A x \in Looks : Past(s, x)
    BY <1>1, <2>1, LoneAtWork, PastFacts DEF Ends
  <2>4. ASSUME NEW e \in Entry, Active(Visible(entry, s, e)) PROVE Supported(s, e, Visible(entry, s, e))
    <3>1. CASE q.op \notin Delete
      BY <1>1, <2>2, <2>4, <3>1, SupportedRows
    <3>2. CASE q.op \in Delete
      <4> DEFINE v == entry.row[e]
      <4>1. Visible(entry, s, e) = v /\ Active(v)
        BY <2>2, <2>4, <3>2 DEF LoneInv, KeepsActive, NamedOps, Visible
      <4>2. q.id \in Named => q.id \in TableOf(q.op)
        BY <2>1, <2>3 DEF AtItsPlan
      <4>3. /\ e \in Txn => v.account \in Account /\ v.category \in Category
            /\ v.category \in Category \cup {Null}
        BY <1>1, <4>1 DEF LInv, RowsAreFilled, Filled, Active, IInv, Typed, Tables, EntryRow
      <4>4. e \in Txn => v.account # q.id
        <5>1. SUFFICES ASSUME e \in Txn, v.account = q.id PROVE FALSE
          OBVIOUS
        <5>2. q.op = "delete_account"
          BY <3>2, <4>2, <4>3, <5>1, ActiveFacts, IdAssumption DEF TableOf, Delete, Archive
        <5>3. QED
          BY <2>2, <2>3, <4>1, <5>1, <5>2 DEF LoneInv, DeletesUnused, NamesNot, Looks
      <4>5. v.category # Null => v.category # q.id
        <5>1. SUFFICES ASSUME v.category # Null, v.category = q.id PROVE FALSE
          OBVIOUS
        <5>2. q.op = "delete_category"
          BY <3>2, <4>2, <4>3, <5>1, ActiveFacts, IdFacts DEF TableOf, Delete, Archive
        <5>3. QED
          BY <2>2, <2>3, <4>1, <5>1, <5>2 DEF LoneInv, DeletesUnused, NamesNot, Looks, Entry
      <4>6. \A i \in Named : i # q.id /\ Active(named.row[i]) => Active(Visible(named, s, i))
        BY <2>2 DEF LoneInv, KeepsActive, Visible
      <4>7. QED
        BY <1>1, <4>1, <4>3, <4>4, <4>5, <4>6, ActiveFacts DEF ReferencesAreActive, Supported
    <3>3. QED
      BY <3>1, <3>2
  <2>5. ASSUME NEW e \in Entry, Active(Visible(entry, s, e))
        PROVE  /\ e \in Txn => Visible(entry, s, e).account \in Named
               /\ Visible(entry, s, e).category # Null => Visible(entry, s, e).category \in Named
    BY <1>1, <2>5, ActiveFacts
       DEF Visible, LInv, RowsAreFilled, Filled, Active, IInv, Typed, Tables, EntryRow
  <2>6. QED
    BY <2>1, <2>4, <2>5 DEF ReferencesAreActive, Supported
<1>2. LInv /\ [Next]_vars =>
        \A s \in Session : alone[s] /\ CommitAll(s) /\ ReferencesAreActive(named.row, entry.row)
                             => ReferencesAreActive(named'.row, entry'.row)
  BY <1>1
<1>3. QED
  BY <1>2, LoneInvariance, PTL DEF Spec, LoneRequestKeepsReferences
=============================================================================
