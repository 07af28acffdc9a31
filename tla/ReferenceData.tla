---------------------------- MODULE ReferenceData -----------------------------
(***************************************************************************)
(* Accounts, categories and hashtag names, and the ledger rows and drafts  *)
(* that refer to them: app/helpers/accounts.py, categories.py,             *)
(* reference_data.py and validation.py, with the references of             *)
(* transactions.py and inbox.py.                                           *)
(*                                                                         *)
(* Every handler reads first and writes later, and none locks the row it   *)
(* refers to.  What two requests may not do to each other is left to the   *)
(* partial unique indexes (sql/010, 012, 028), which are modelled; what a  *)
(* handler checks for itself is promised to a request that runs alone.     *)
(***************************************************************************)
EXTENDS Naturals, Sequences, Table

CONSTANTS
    Account, Person,   \* ids of expense_bank_accounts, the ones with is_person
    Category, Hashtag, \* ids of expense_categories, expense_hashtags
    Txn, Draft,        \* ids of expense_transactions, expense_transaction_inbox
    AccountName,       \* an account's lower-cased name with its currency
    Name, Reserved,    \* lower-cased names of categories and hashtags; @Opening
    Spare,             \* ids that no row has at the start
    Null,              \* SQL NULL, and a field absent from a request
    Missing,           \* no row with that id
    Workload,          \* the operations clients request
    MaxRequests        \* bound on the requests of a behaviour

Named == Account \cup Category \cup Hashtag
Entry == Txn \cup Draft

(* name_taken and the unique indexes look at one table.                      *)
SameTable(i, j) == \E table \in {Account, Category, Hashtag} : {i, j} \subseteq table

ASSUME IdAssumption == /\ Account \cap Category = {} /\ Account \cap Hashtag = {}
                       /\ Category \cap Hashtag = {} /\ Txn \cap Draft = {}
                       /\ Named \cap Entry = {} /\ Person \subseteq Account
NamesFor(i) == IF i \in Account THEN AccountName ELSE Name

ASSUME NameAssumption == Reserved \in Name
ASSUME SpareAssumption == Spare \subseteq Named \cup Entry
ASSUME SentinelAssumption == Null \notin Named \cup Name \cup AccountName /\ MaxRequests \in Nat

VARIABLES
    named,    \* the tables of accounts, categories and hashtags
    entry,    \* the tables of transactions and drafts
    request,  \* request[s]: what session s was asked
    pc,       \* pc[s]: the statements session s has still to run
    seen,     \* seen[s]: the row the handler of s has read
    refs,     \* refs[s]: the account and category the handler checks
    todo,     \* todo[s]: the rows the handler has still to insert
    seeds,    \* history: the rows that create_opening_balance filed
    alone,    \* history: no request has run beside the one of s
    served    \* number of requests started

vars == <<named, entry, request, pc, seen, refs, todo, seeds, alone, served>>

-----------------------------------------------------------------------------
(* Rows.                                                                     *)

NamedRow == [name : Name \cup AccountName, active : BOOLEAN, archived : BOOLEAN, system : BOOLEAN]
EntryRow == [account : Account \cup {Null}, category : Category \cup {Null}, active : BOOLEAN]
Refs == [account : Account \cup {Null}, category : Category \cup {Null}]
NoRefs == [account |-> Null, category |-> Null]

ASSUME MissingAssumption == Missing \notin NamedRow \cup EntryRow

Active(v) == v # Missing /\ v.active
Buried(v) == v # Missing /\ ~ v.active
NewNamed(n, system) == [name |-> n, active |-> TRUE, archived |-> FALSE, system |-> system]

(* Two rows of a table that one of its partial unique indexes keeps apart.   *)
Clash(v, w) == Active(v) /\ Active(w) /\ (v.name = w.name \/ (v.system /\ w.system))

(* active_account_row and active_category_row.                               *)
Usable(v) == Active(v) /\ ~ v.archived

Opening(names, c) == c \in Category /\ Active(names[c]) /\ names[c].system
OpeningBalances(a, names, rows) ==
    {t \in Txn : Active(rows[t]) /\ rows[t].account = a /\ Opening(names, rows[t].category)}

-----------------------------------------------------------------------------
(* Requests.                                                                 *)

Asked(op, id, name, account, category, rows) ==
    [op |-> op, id |-> id, name |-> name, account |-> account, category |-> category,
     rows |-> rows]

Create == {"create_account", "create_category", "create_hashtag"}
Rename == {"update_account", "update_category", "update_hashtag"}
Restore == {"restore_account", "restore_category", "restore_hashtag"}
Delete == {"delete_account", "delete_category", "delete_hashtag"}
Archive == {"archive_account", "unarchive_account"}

Operation == Create \cup Rename \cup Restore \cup Delete \cup Archive \cup
             {"create_opening_balance", "create_transaction", "create_batch",
              "update_transaction", "delete_transaction", "restore_transaction",
              "create_inbox_item", "update_inbox_item", "delete_inbox_item",
              "promote_inbox_item"}
ASSUME WorkloadAssumption == Workload \subseteq Operation

TableOf(op) ==
    CASE op \in {"create_account", "update_account", "restore_account", "delete_account"}
               \cup Archive -> Account
      [] op \in {"create_category", "update_category", "restore_category",
                 "delete_category"} -> Category
      [] OTHER -> Hashtag

(***************************************************************************)
(* category is the fresh uuid of ensure_system_category in an opening      *)
(* balance; the rows of a batch are taken to share their references.       *)
(***************************************************************************)
Request ==
    {Asked(op, i, n, Null, Null, {}) :
       op \in Create \cup Rename, i \in Named, n \in Name \cup AccountName}
      \cup {Asked(op, i, Null, Null, Null, {}) : op \in Restore \cup Delete \cup Archive,
                                                 i \in Named}
      \cup {Asked("create_opening_balance", Null, Null, a, c, {t}) :
              a \in Account, c \in Category, t \in Txn}
      \cup {Asked("create_transaction", Null, Null, a, c, {t}) :
              a \in Account, c \in Category, t \in Txn}
      \cup {Asked("create_batch", Null, Null, a, c, ts) :
              a \in Account, c \in Category, ts \in (SUBSET Txn) \ {{}}}
      \cup {Asked("update_transaction", t, Null, r.account, r.category, {}) :
              t \in Txn, r \in Refs \ {NoRefs}}
      \cup {Asked("create_inbox_item", Null, Null, r.account, r.category, {d}) :
              d \in Draft, r \in Refs}
      \cup {Asked("update_inbox_item", d, Null, r.account, r.category, {}) :
              d \in Draft, r \in Refs \ {NoRefs}}
      \cup {Asked(op, t, Null, Null, Null, {}) : op \in {"delete_transaction",
                                                         "restore_transaction"}, t \in Txn}
      \cup {Asked("delete_inbox_item", d, Null, Null, Null, {}) : d \in Draft}
      \cup {Asked("promote_inbox_item", d, Null, Null, Null, {t}) : d \in Draft, t \in Txn}
NoRequest == Asked("none", Null, Null, Null, Null, {})

(* The statements of each handler, in the order of its code.                 *)
Plan(op) ==
    CASE op \in Create -> <<"name_check", "write_named", "commit">>
      [] op \in Rename \cup Restore -> <<"fetch", "name_check", "write_named", "commit">>
      [] op = "delete_account" -> <<"fetch", "txn_check", "write_named", "commit">>
      [] op = "delete_category" -> <<"fetch", "txn_check", "draft_check", "write_named", "commit">>
      [] op \in Archive \cup {"delete_hashtag"} -> <<"fetch", "write_named", "commit">>
      [] op = "create_opening_balance" ->
           <<"account_check", "seed_check", "find_system", "insert_system", "reread_system",
             "account_check", "category_check", "insert_rows", "commit">>
      [] op \in {"create_transaction", "create_batch", "create_inbox_item"} ->
           <<"account_check", "category_check", "insert_rows", "commit">>
      [] op \in {"update_transaction", "restore_transaction", "update_inbox_item"} ->
           <<"lock", "account_check", "category_check", "write_entry", "commit">>
      [] op = "delete_transaction" -> <<"lock", "write_entry", "commit">>
      [] op = "delete_inbox_item" -> <<"fetch", "write_entry", "commit">>
      [] op = "promote_inbox_item" ->
           <<"lock", "account_check", "category_check", "insert_rows", "write_entry", "commit">>

(***************************************************************************)
(* The tables between requests, as requests served one at a time leave     *)
(* them; a user category named @Opening is older than the reserved names.  *)
(***************************************************************************)
NamesConsistent(names) ==
    /\ \A i, j \in Named : i # j /\ SameTable(i, j) => ~ Clash(names[i], names[j])
    /\ \A i \in Named : names[i] # Missing =>
         /\ names[i].name \in NamesFor(i)
         /\ names[i].system => i \in Category /\ names[i].active
         /\ names[i].archived => i \in Account
    /\ \A i \in Named \cap Spare : names[i] = Missing

EntriesConsistent(names, rows) ==
    /\ \A e \in Entry : rows[e] # Missing =>
         /\ \A r \in {rows[e].account, rows[e].category} \ {Null} :
              IF rows[e].active /\ (e \in Txn \/ r \in Category)
              THEN Active(names[r]) ELSE names[r] # Missing
         /\ e \in Txn => rows[e].account # Null /\ rows[e].category # Null
         /\ e \in Draft => rows[e].active
    /\ \A a \in Account : \A t, u \in OpeningBalances(a, names, rows) : t = u
    /\ \A e \in Entry \cap Spare : rows[e] = Missing

Init ==
    \E names \in {n \in [Named -> NamedRow \cup {Missing}] : NamesConsistent(n)} :
    \E rows \in [Entry -> EntryRow \cup {Missing}] :
      /\ EntriesConsistent(names, rows)
      /\ named = AtRest(names, Named)
      /\ entry = AtRest(rows, Entry)
      /\ seeds = {t \in Txn : rows[t] # Missing /\ Opening(names, rows[t].category)}
      /\ request = [s \in Session |-> NoRequest]
      /\ pc = [s \in Session |-> <<>>]
      /\ seen = [s \in Session |-> Missing]
      /\ refs = [s \in Session |-> NoRefs]
      /\ todo = [s \in Session |-> {}]
      /\ alone = [s \in Session |-> TRUE]
      /\ served = 0

-----------------------------------------------------------------------------
(* The life of a request.                                                    *)

Idle(s) == pc[s] = <<>>
At(s, statement) == ~ Idle(s) /\ Head(pc[s]) = statement

Begin(s, q) ==
    LET beside == {o \in Session \ {s} : ~ Idle(o)} IN
    /\ Idle(s)
    /\ served < MaxRequests
    /\ q.op \in Workload
    /\ q.id \in Named => q.id \in TableOf(q.op) /\ q.name \in NamesFor(q.id) \cup {Null}
    /\ request' = [request EXCEPT ![s] = q]
    /\ pc' = [pc EXCEPT ![s] = Plan(q.op)]
    /\ refs' = [refs EXCEPT ![s] = [account |-> q.account,
                                    category |-> IF q.op = "create_opening_balance"
                                                 THEN Null ELSE q.category]]
    /\ todo' = [todo EXCEPT ![s] = q.rows]
    /\ alone' = [o \in Session |-> alone[o] /\ (o \in beside \cup {s} => beside = {})]
    /\ served' = served + 1
    /\ UNCHANGED <<named, entry, seen, seeds>>

Proceed(s) == /\ pc' = [pc EXCEPT ![s] = Tail(@)]
              /\ UNCHANGED <<request, seeds, alone, served>>

End(s) ==
    /\ request' = [request EXCEPT ![s] = NoRequest]
    /\ pc' = [pc EXCEPT ![s] = <<>>]
    /\ seen' = [seen EXCEPT ![s] = Missing]
    /\ refs' = [refs EXCEPT ![s] = NoRefs]
    /\ todo' = [todo EXCEPT ![s] = {}]
    /\ alone' = [alone EXCEPT ![s] = TRUE]
    /\ UNCHANGED served

CommitAll(s) ==
    /\ At(s, "commit")
    /\ named' = Commit(named, s, Named)
    /\ entry' = Commit(entry, s, Entry)
    /\ seeds' = IF request[s].op = "create_opening_balance"
                THEN seeds \cup request[s].rows ELSE seeds
    /\ End(s)

(* An error answer, a failed statement or a lost process: all rolls back. *)
Abandon(s) ==
    /\ ~ Idle(s)
    /\ named' = Rollback(named, s, Named)
    /\ entry' = Rollback(entry, s, Entry)
    /\ UNCHANGED seeds
    /\ End(s)

-----------------------------------------------------------------------------
(* Reads, none of which locks what it reads.                                 *)

Row(s, i) == IF i \in Named THEN Visible(named, s, i) ELSE Visible(entry, s, i)

(* The rows of a table that the statements of s see. *)
Sees(s, Id) == {i \in Id : Row(s, i) # Missing}

\* Mutant: delete_category deletes the system category.
FoundAny(q, v) ==
    IF q.op \in Restore \cup {"restore_transaction"} THEN Buried(v) ELSE Active(v)

(* fetch_owned_row_or_404; delete_category refuses a system row. *)
Found(q, v) ==
    /\ IF q.op \in Restore \cup {"restore_transaction"} THEN Buried(v) ELSE Active(v)
    /\ q.op = "delete_category" => ~ v.system

Fetch(s) ==
    /\ At(s, "fetch")
    /\ Found(request[s], Row(s, request[s].id))
    /\ seen' = [seen EXCEPT ![s] = Row(s, request[s].id)]
    /\ Proceed(s)
    /\ UNCHANGED <<named, entry, refs, todo>>

(* The name a handler is about to give a row, or to bring back with it. *)
Claimed(s) == IF request[s].op \in Restore THEN seen[s].name ELSE request[s].name

\* Mutant: restore_category does not look at the reserved names.
MayClaimOnRestore(s) ==
    request[s].op \in {"create_category", "update_category"} =>
      \/ Claimed(s) # Reserved
      \/ seen[s] # Missing /\ seen[s].system

(* _reject_reserved_name, from which system rows are exempt. *)
MayClaim(s) ==
    TableOf(request[s].op) = Category =>
      \/ Claimed(s) # Reserved
      \/ seen[s] # Missing /\ seen[s].system

(* name_taken, which sees committed rows; exclude_id is the row's own id. *)
NameTaken(s) ==
    \E j \in Sees(s, Named \ {request[s].id}) :
      /\ SameTable(j, request[s].id)
      /\ Row(s, j).active /\ Row(s, j).name = Claimed(s)

NameCheck(s) ==
    /\ At(s, "name_check")
    /\ MayClaim(s)
    /\ ~ NameTaken(s)
    /\ Proceed(s)
    /\ UNCHANGED <<named, entry, seen, refs, todo>>

\* Mutant: deletion does not look for the rows that name the account or category.
Unreferenced(s, Id) == TRUE

(* has_txns and has_inbox: no active row names the account or category. *)
Unused(s, Id) == \A e \in Sees(s, Id) : Row(s, e).active =>
                   request[s].id \notin {Row(s, e).account, Row(s, e).category}

TxnCheck(s) ==
    /\ At(s, "txn_check")
    /\ Unused(s, Txn)
    /\ Proceed(s)
    /\ UNCHANGED <<named, entry, seen, refs, todo>>

DraftCheck(s) ==
    /\ At(s, "draft_check")
    /\ Unused(s, Draft)
    /\ Proceed(s)
    /\ UNCHANGED <<named, entry, seen, refs, todo>>

(* validate_active_account; a draft may leave it out, a promotion may not. *)
AccountUsable(s) ==
    IF refs[s].account = Null THEN request[s].op # "promote_inbox_item"
    ELSE Usable(Row(s, refs[s].account))

\* Mutant: a promotion takes a system category.
CategoryActive(s) ==
    IF refs[s].category = Null THEN request[s].op # "promote_inbox_item"
    ELSE Active(Row(s, refs[s].category))

(* The handlers that accept a system category. *)
TakesSystem == {"create_opening_balance", "restore_transaction",
                "create_inbox_item", "update_inbox_item"}

(* validate_active_category and the boundary of the system categories. *)
CategoryUsable(s) ==
    IF refs[s].category = Null THEN request[s].op # "promote_inbox_item"
    ELSE /\ Active(Row(s, refs[s].category))
         /\ Row(s, refs[s].category).system => request[s].op \in TakesSystem

AccountCheck(s) ==
    /\ At(s, "account_check")
    /\ AccountUsable(s)
    /\ Proceed(s)
    /\ UNCHANGED <<named, entry, seen, refs, todo>>

CategoryCheck(s) ==
    /\ At(s, "category_check")
    /\ CategoryUsable(s)
    /\ Proceed(s)
    /\ UNCHANGED <<named, entry, seen, refs, todo>>

-----------------------------------------------------------------------------
(* The opening balance and its system category.                              *)

(* A person has no opening balance, an account one that is active. *)
MaySeed(s) ==
    /\ refs[s].account \notin Person
    /\ \A t \in Sees(s, Txn) :
         ~ (/\ Row(s, t).active /\ Row(s, t).account = refs[s].account
            /\ Active(Row(s, Row(s, t).category)) /\ Row(s, Row(s, t).category).system)

SeedCheck(s) ==
    /\ At(s, "seed_check")
    /\ MaySeed(s)
    /\ Proceed(s)
    /\ UNCHANGED <<named, entry, seen, refs, todo>>

SystemRows(s) == {c \in Sees(s, Category) : Row(s, c).active /\ Row(s, c).system}

(* ensure_system_category: the SELECT finds the row, or the INSERT follows. *)
FindSystem(s) ==
    /\ At(s, "find_system")
    /\ \/ /\ SystemRows(s) = {}
          /\ Proceed(s)
          /\ UNCHANGED refs
       \/ \E c \in SystemRows(s) :
            /\ refs' = [refs EXCEPT ![s].category = c]
            /\ pc' = [pc EXCEPT ![s] = SubSeq(@, 4, Len(@))]
            /\ UNCHANGED <<request, seeds, alone, served>>
    /\ UNCHANGED <<named, entry, seen, todo>>

\* Mutant: no unique index on names.
ViolatesKey(s, i, v) ==
    \E j \in Named \ {i} : /\ SameTable(i, j) /\ Free(named, s, j) /\ v.system
                           /\ Clash(v, Visible(named, s, j))
(***************************************************************************)
(* A unique index compares a new row with the committed rows and with what *)
(* other transactions are writing; it waits for those that may clash.      *)
(***************************************************************************)
InDoubt(s, i, v) ==
    \E j \in Named \ {i} : /\ SameTable(i, j) /\ ~ Free(named, s, j)
                           /\ Clash(v, named.row[j]) \/ Clash(v, named.latest[j])
Violates(s, i, v) ==
    \E j \in Named \ {i} : /\ SameTable(i, j) /\ Free(named, s, j)
                           /\ Clash(v, Visible(named, s, j))

\* Mutant: the loser of the race keeps its own uuid.
KeepsOwn(s) == request[s].category

(* The re-read after DO NOTHING finds the winner's row. *)
Winner(s) == CHOOSE c \in SystemRows(s) : TRUE

(* INSERT ... ON CONFLICT (user_id, system_key) DO NOTHING. *)
InsertSystem(s) ==
    LET c == request[s].category
        v == NewNamed(Reserved, TRUE) IN
    /\ At(s, "insert_system")
    /\ \/ /\ SystemRows(s) # {}
          /\ UNCHANGED <<named, refs>>
          /\ Proceed(s)
       \/ /\ Free(named, s, c) /\ Visible(named, s, c) = Missing
          /\ ~ InDoubt(s, c, v)
          /\ ~ Violates(s, c, v)
          /\ named' = WriteRow(named, s, c, v)
          /\ refs' = [refs EXCEPT ![s].category = c]
          /\ pc' = [pc EXCEPT ![s] = SubSeq(@, 3, Len(@))]
          /\ UNCHANGED <<request, seeds, alone, served>>
    /\ UNCHANGED <<entry, seen, todo>>

RereadSystem(s) ==
    /\ At(s, "reread_system")
    /\ SystemRows(s) # {}
    /\ refs' = [refs EXCEPT ![s].category = Winner(s)]
    /\ Proceed(s)
    /\ UNCHANGED <<named, entry, seen, todo>>

-----------------------------------------------------------------------------
(* Writes.                                                                   *)

(* What the statement makes of the row it finds, by handler. *)
NamedAfter(q, v) ==
    CASE q.op \in Create  -> NewNamed(q.name, FALSE)
      [] q.op \in Rename  -> [v EXCEPT !.name = q.name]
      [] q.op \in Restore -> [v EXCEPT !.active = TRUE]
      [] q.op \in Delete  -> [v EXCEPT !.active = FALSE]
      [] q.op \in Archive -> [v EXCEPT !.archived = (q.op = "archive_account")]

(***************************************************************************)
(* The WHERE clause: a rename needs an active row, a restore a deleted     *)
(* one, deletion and archiving look at the id only.                        *)
(***************************************************************************)
Applies(q, v) ==
    CASE q.op \in Create  -> v = Missing
      [] q.op \in Rename  -> Active(v)
      [] q.op \in Restore -> Buried(v)
      [] OTHER -> v # Missing

WriteNamed(s) ==
    LET q == request[s]
        v == NamedAfter(q, Visible(named, s, q.id)) IN
    /\ At(s, "write_named")
    /\ Free(named, s, q.id)
    /\ Applies(q, Visible(named, s, q.id))
    /\ ~ InDoubt(s, q.id, v)
    /\ ~ Violates(s, q.id, v)
    /\ named' = WriteRow(named, s, q.id, v)
    /\ Proceed(s)
    /\ UNCHANGED <<entry, seen, refs, todo>>

(* SELECT ... FOR UPDATE; restore and promote check what the row refers to. *)
LockEntry(s) ==
    LET q == request[s]
        v == Visible(entry, s, q.id) IN
    /\ At(s, "lock")
    /\ Free(entry, s, q.id)
    /\ Found(q, v)
    /\ entry' = LockRow(entry, s, q.id)
    /\ refs' = IF q.op \in {"restore_transaction", "promote_inbox_item"}
               THEN [refs EXCEPT ![s] = [account |-> v.account, category |-> v.category]]
               ELSE refs
    /\ Proceed(s)
    /\ UNCHANGED <<named, seen, todo>>

(* INSERT of the ledger rows one by one, or of a draft. *)
InsertRow(s, e) ==
    /\ At(s, "insert_rows")
    /\ e \in todo[s]
    /\ Free(entry, s, e) /\ Visible(entry, s, e) = Missing
    /\ entry' = WriteRow(entry, s, e, [account |-> refs[s].account,
                                       category |-> refs[s].category, active |-> TRUE])
    /\ todo' = [todo EXCEPT ![s] = @ \ {e}]
    /\ IF todo[s] = {e} THEN Proceed(s) ELSE UNCHANGED <<request, pc, seeds, alone, served>>
    /\ UNCHANGED <<named, seen, refs>>

Given(new, old) == IF new = Null THEN old ELSE new

EntryAfter(s, v) ==
    CASE request[s].op \in {"update_transaction", "update_inbox_item"} ->
           [v EXCEPT !.account = Given(refs[s].account, @),
                     !.category = Given(refs[s].category, @)]
      [] request[s].op = "restore_transaction" -> [v EXCEPT !.active = TRUE]
      [] OTHER -> [v EXCEPT !.active = FALSE]

(* UPDATE of the row, locked before in every handler but a dismissal. *)
WriteEntry(s) ==
    LET e == request[s].id IN
    /\ At(s, "write_entry")
    /\ Free(entry, s, e)
    /\ entry' = WriteRow(entry, s, e, EntryAfter(s, Visible(entry, s, e)))
    /\ Proceed(s)
    /\ UNCHANGED <<named, seen, refs, todo>>

Step(s) == \/ Fetch(s) \/ NameCheck(s) \/ TxnCheck(s) \/ DraftCheck(s)
           \/ AccountCheck(s) \/ CategoryCheck(s)
           \/ SeedCheck(s) \/ FindSystem(s) \/ InsertSystem(s) \/ RereadSystem(s)
           \/ WriteNamed(s) \/ LockEntry(s) \/ (\E e \in Entry : InsertRow(s, e))
           \/ WriteEntry(s) \/ CommitAll(s)

Next == \E s \in Session : (\E q \in Request : Begin(s, q)) \/ Step(s) \/ Abandon(s)

Spec == Init /\ [][Next]_vars

-----------------------------------------------------------------------------

Statements == {"fetch", "name_check", "txn_check", "draft_check", "account_check",
               "category_check", "seed_check", "find_system", "insert_system",
               "reread_system", "write_named", "lock", "insert_rows", "write_entry", "commit"}

(* The types; a ledger row always names an account and a category.           *)
TypeOK ==
    /\ named \in Tables(Named, NamedRow \cup {Missing})
    /\ entry \in Tables(Entry, EntryRow \cup {Missing})
    /\ \A t \in Txn : entry.latest[t] # Missing => Null \notin {entry.latest[t].account,
                                                             entry.latest[t].category}
    /\ request \in [Session -> Request \cup {NoRequest}]
    /\ pc \in [Session -> Seq(Statements)]
    /\ seen \in [Session -> NamedRow \cup EntryRow \cup {Missing}]
    /\ refs \in [Session -> Refs]
    /\ todo \in [Session -> SUBSET Entry]
    /\ seeds \subseteq Txn
    /\ alone \in [Session -> BOOLEAN]
    /\ served \in Nat

(***************************************************************************)
(* No two active rows of a table share a name and no two categories are    *)
(* the active system category, however creations, renames, restores and    *)
(* first opening balances interleave: each looks before it writes, and     *)
(* what another transaction has written but not committed it cannot see.   *)
(***************************************************************************)
NamesAreUnique ==
    \A i, j \in Named : i # j /\ SameTable(i, j) => ~ Clash(named.row[i], named.row[j])

(***************************************************************************)
(* The system category, once seeded, stays: reports and the next opening   *)
(* balance find it by its key, and nothing can bring it back.              *)
(***************************************************************************)
SystemCategoryStays ==
    [][\A c \in Category : Opening(named.row, c) => Opening(named'.row, c)]_vars

(***************************************************************************)
(* No request gives a user category the reserved name, by creating,        *)
(* renaming or restoring it: the next seeding would fail on the index.     *)
(***************************************************************************)
Squats(names, c) == Active(names[c]) /\ ~ names[c].system /\ names[c].name = Reserved
NoNewSquatter ==
    [][\A c \in Category : Squats(named'.row, c) => Squats(named.row, c)]_vars

(***************************************************************************)
(* A ledger row under the system category was filed by an opening balance: *)
(* any other would move the balance and be missing from every report.      *)
(***************************************************************************)
OnlySeedsAreOpening ==
    \A t \in Txn : entry.row[t] # Missing /\ Opening(named.row, entry.row[t].category)
                     => t \in seeds

(***************************************************************************)
(* An opening balance files its row under the one active system category,  *)
(* also when a concurrent request has seeded that first.                   *)
(***************************************************************************)
SeederUsesTheSystemRow ==
    \A s \in Session : request[s].op = "create_opening_balance" /\ refs[s].category # Null =>
      /\ SystemRows(s) = {refs[s].category}
      /\ CategoryUsable(s)

(* What an active row names is not deleted; a draft may outlive its account. *)
ReferencesAreActive(names, rows) ==
    \A e \in Entry : Active(rows[e]) =>
      /\ e \in Txn => Active(names[rows[e].account])
      /\ rows[e].category # Null => Active(names[rows[e].category])

(***************************************************************************)
(* A request that no other has run beside leaves no active ledger row or   *)
(* draft under a deleted account or category, whichever of the two it      *)
(* changed: deletions look for users, writers at what they use.  Two that  *)
(* overlap can.                                                            *)
(***************************************************************************)
LoneRequestKeepsReferences ==
    [][\A s \in Session : alone[s] /\ CommitAll(s) /\ ReferencesAreActive(named.row, entry.row)
                          => ReferencesAreActive(named'.row, entry'.row)]_vars

(***************************************************************************)
(* An account has at most one active opening balance.  create checks it;   *)
(* restoring a deleted one, or moving one to another account, does not.    *)
(***************************************************************************)
OneOpeningBalance ==
    \A a \in Account : \A t, u \in OpeningBalances(a, named.row, entry.row) : t = u
=============================================================================
