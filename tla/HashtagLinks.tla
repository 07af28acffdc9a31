---------------------------- MODULE HashtagLinks -----------------------------
(***************************************************************************)
(* Hashtags, and the transactions and inbox drafts that carry them:        *)
(* app/helpers/hashtag_links.py, hashtags.py and inbox.py, and the parts   *)
(* of transactions.py that touch the junction table.                       *)
(*                                                                         *)
(* A handler that changes one parent locks its row first and its junctions *)
(* afterwards; delete_hashtag goes the other way, and nothing locks the    *)
(* hashtag that a junction is about to name.  Requests are modelled        *)
(* statement by statement, each in one transaction (run_idempotent).       *)
(***************************************************************************)
EXTENDS Naturals, Table

CONSTANTS
    Txn, Draft,   \* ids of expense_transactions, expense_transaction_inbox
    Tag,          \* ids of expense_hashtags
    Null,         \* SQL NULL
    Missing,      \* no row with that id
    Omitted,      \* hashtag_ids absent from the request body
    Workload,     \* the operations clients request
    MaxRequests   \* bound on the requests of a behaviour

Operation == {"create_transaction", "update_transaction", "delete_transaction",
              "restore_transaction", "create_inbox_item", "update_inbox_item",
              "delete_inbox_item", "promote_inbox_item",
              "create_hashtag", "delete_hashtag", "restore_hashtag"}

ASSUME WorkloadAssumption == Workload \subseteq Operation
ASSUME RequestsAssumption == MaxRequests \in Nat
ASSUME ParentAssumption == Txn \cap Draft = {}
ASSUME SentinelAssumption == /\ \A hs \in SUBSET Tag : Omitted # hs
                             /\ Null \notin Nat \cup Txn \cup Draft \cup {Missing}
                             /\ Missing \notin Nat

VARIABLES
    parent,   \* the tables of transactions and drafts
    tag,      \* the table of hashtags
    link,     \* the junction table
    request,  \* request[s]: what session s was asked
    pc,       \* pc[s]: the next statement of session s
    attach,   \* attach[s]: the hashtags the handler of s attaches
    todo,     \* todo[s]: rows a multi-row statement of s has still to visit
    dropped,  \* history: the hashtags the last deletion of a transaction dropped
    served    \* number of requests started

vars == <<parent, tag, link, request, pc, attach, todo, dropped, served>>

-----------------------------------------------------------------------------
(* Rows.  deleted_at is the now() of a transaction, one value for each: the  *)
(* number of the request, from 2; 0 and 1 are requests before the initial    *)
(* state.                                                                    *)

Parent == Txn \cup Draft
Link == Parent \X Tag
Time == Nat \cup {Null}

(* from is a ledger row's inbox_id, promoted a draft's status. *)
ParentRow == [deletedAt : Time, from : Draft \cup {Null}, promoted : BOOLEAN, version : Nat]
TagRow == {"active", "deleted"}

ASSUME MissingAssumption == Missing \notin ParentRow

\* Mutant: the fetch does not exclude deleted rows.
Exists(v) == v # Missing

Active(v) == v # Missing /\ v.deletedAt = Null
Buried(v) == v # Missing /\ v.deletedAt # Null

(* A junction row is its deleted_at. *)
Live == Null
LiveTags(links, p) == {h \in Tag : links[<<p, h>>] = Live}

Row(deletedAt, from) == [deletedAt |-> deletedAt, from |-> from,
                         promoted |-> FALSE, version |-> 0]

\* Mutant: the version goes down.
Lowered(v) == [v EXCEPT !.version = @ - 1]

(* Every UPDATE of a parent moves version; soft_delete and promotion. *)
Bumped(v) == [v EXCEPT !.version = @ + 1]
DeletedAt(v, now) == Bumped([v EXCEPT !.deletedAt = now])
\* Mutant: a promotion closes the draft without setting its status.
ClosedOnly(v, now) == DeletedAt(v, now)
Promoted(v, now) == DeletedAt([v EXCEPT !.promoted = TRUE], now)

-----------------------------------------------------------------------------
(* Requests: at is the now() of the request's transaction.                   *)

Asked(op, id, tags, to) == [op |-> op, id |-> id, tags |-> tags, to |-> to]
Request ==
    {Asked("create_transaction", t, hs, Null) : t \in Txn, hs \in SUBSET Tag}
      \cup {Asked("create_inbox_item", d, hs, Null) : d \in Draft, hs \in SUBSET Tag}
      \cup {Asked("update_transaction", t, hs, Null) :
              t \in Txn, hs \in (SUBSET Tag) \cup {Omitted}}
      \cup {Asked("update_inbox_item", d, hs, Null) :
              d \in Draft, hs \in (SUBSET Tag) \cup {Omitted}}
      \cup {Asked(op, t, Omitted, Null) : op \in {"delete_transaction", "restore_transaction"},
                                          t \in Txn}
      \cup {Asked("delete_inbox_item", d, Omitted, Null) : d \in Draft}
      \cup {Asked("promote_inbox_item", d, Omitted, t) : d \in Draft, t \in Txn}
      \cup {Asked(op, h, Omitted, Null) : op \in {"create_hashtag", "delete_hashtag",
                                                  "restore_hashtag"}, h \in Tag}
NoRequest == [op |-> "none", id |-> Nobody, tags |-> Omitted, to |-> Null, at |-> 0]

FirstStep == [create_transaction  |-> "insert",
              update_transaction  |-> "lock",
              delete_transaction  |-> "lock",
              restore_transaction |-> "lock",
              create_inbox_item   |-> "insert",
              update_inbox_item   |-> "lock",
              delete_inbox_item   |-> "read",
              promote_inbox_item  |-> "lock",
              create_hashtag      |-> "insert_tag",
              delete_hashtag      |-> "read_tag",
              restore_hashtag     |-> "read_tag"]

(***************************************************************************)
(* A ledger between requests, as requests served one at a time leave it: a *)
(* live junction has an active parent and an active hashtag, a deletion    *)
(* (at 1) has dropped all of them, older junctions were dropped at 0.      *)
(***************************************************************************)
Consistent(parents, tags, links) ==
    \A p \in Parent, h \in Tag : links[<<p, h>>] # Missing =>
      /\ parents[p] # Missing /\ tags[h] # Missing
      /\ links[<<p, h>>] = Live => Active(parents[p]) /\ tags[h] = "active"
      /\ links[<<p, h>>] = 1 => Buried(parents[p])

Init ==
    \E parents \in [Parent -> {Row(Null, Null), Row(1, Null), Missing}],
       tags \in [Tag -> TagRow \cup {Missing}],
       links \in [Link -> {Live, 0, 1, Missing}] :
         /\ \A d \in Draft : ~ Buried(parents[d])
         /\ Consistent(parents, tags, links)
         /\ parent = AtRest(parents, Parent)
         /\ tag = AtRest(tags, Tag)
         /\ link = AtRest(links, Link)
         /\ dropped = [t \in Txn |-> {h \in Tag : links[<<t, h>>] = 1}]
         /\ request = [s \in Session |-> NoRequest]
         /\ pc = [s \in Session |-> "idle"]
         /\ attach = [s \in Session |-> {}]
         /\ todo = [s \in Session |-> {}]
         /\ served = 0

-----------------------------------------------------------------------------
(* The life of a request.                                                    *)

Begin(s, q) ==
    /\ pc[s] = "idle"
    /\ served < MaxRequests
    /\ q.op \in Workload
    /\ request' = [request EXCEPT ![s] = [op |-> q.op, id |-> q.id, tags |-> q.tags,
                                          to |-> q.to, at |-> served + 2]]
    /\ pc' = [pc EXCEPT ![s] = FirstStep[q.op]]
    /\ attach' = [attach EXCEPT ![s] = IF q.tags = Omitted THEN {} ELSE q.tags]
    /\ served' = served + 1
    /\ UNCHANGED <<parent, tag, link, todo, dropped>>

Goto(s, step) == /\ pc' = [pc EXCEPT ![s] = step]
                 /\ UNCHANGED <<request, dropped, served>>

End(s) ==
    /\ pc' = [pc EXCEPT ![s] = "idle"]
    /\ request' = [request EXCEPT ![s] = NoRequest]
    /\ attach' = [attach EXCEPT ![s] = {}]
    /\ todo' = [todo EXCEPT ![s] = {}]
    /\ UNCHANGED served

(* COMMIT; a deletion is remembered with the hashtags it dropped. *)
CommitAll(s) ==
    /\ pc[s] = "commit"
    /\ parent' = Commit(parent, s, Parent)
    /\ tag' = Commit(tag, s, Tag)
    /\ link' = Commit(link, s, Link)
    /\ dropped' = IF request[s].op = "delete_transaction"
                  THEN [dropped EXCEPT ![request[s].id] = LiveTags(link.row, request[s].id)]
                  ELSE dropped
    /\ End(s)

(* An error answer: the transaction of the request rolls back. *)
Abandon(s) ==
    /\ parent' = Rollback(parent, s, Parent)
    /\ tag' = Rollback(tag, s, Tag)
    /\ link' = Rollback(link, s, Link)
    /\ UNCHANGED dropped
    /\ End(s)

Refuse(s, refused) == refused /\ Abandon(s)

-----------------------------------------------------------------------------
(* Statements on the parent.                                                 *)

(* INSERT of a transaction or a draft; 409 when the id is taken. *)
Insert(s, step, p, from, next) ==
    /\ pc[s] = step
    /\ \/ /\ parent.row[p] = Missing /\ Free(parent, s, p)
          /\ parent' = WriteRow(parent, s, p, Row(Null, from))
          /\ Goto(s, next)
          /\ UNCHANGED <<tag, link, attach, todo>>
       \/ Refuse(s, parent.row[p] # Missing)

(* create_transaction and create_inbox_item; a new row has no junctions. *)
Create(s) == Insert(s, "insert", request[s].id, Null,
                    IF attach[s] = {} THEN "commit" ELSE "check_tags")

\* Mutant: promote finds a closed draft.
Promotable(q, v) == CASE q.op = "restore_transaction" -> Buried(v)
                      [] q.op = "promote_inbox_item" -> v # Missing
                      [] OTHER -> Active(v)

(* The row that SELECT ... FOR UPDATE of the handler finds. *)
Found(q, v) == /\ IF q.op = "restore_transaction" THEN Buried(v) ELSE Active(v)
               /\ q.op = "promote_inbox_item" => ~ v.promoted

(* The UPDATE that follows on the locked row; promote writes it at the end. *)
Written(q, v) ==
    CASE q.op \in {"update_transaction", "update_inbox_item"} -> Bumped(v)
      [] q.op = "delete_transaction" -> DeletedAt(v, q.at)
      [] q.op = "restore_transaction" -> DeletedAt(v, Null)
      [] q.op = "promote_inbox_item" -> v

AfterLock(q) ==
    CASE q.op = "promote_inbox_item" -> "insert_ledger"
      [] q.op \in {"delete_transaction", "restore_transaction"} -> "select_links"
      [] OTHER -> IF q.tags = Omitted THEN "commit"
                  ELSE IF q.tags = {} THEN "select_links" ELSE "check_tags"

(***************************************************************************)
(* SELECT ... FOR UPDATE and the UPDATE of the row.  promote reads the     *)
(* draft's hashtags under the lock: until it ends, whoever changes them    *)
(* cannot commit, since that bumps the draft.                              *)
(***************************************************************************)
LockParent(s) ==
    LET q == request[s]
        v == parent.row[q.id] IN
    /\ pc[s] = "lock"
    /\ \/ /\ Found(q, v) /\ Free(parent, s, q.id)
          /\ parent' = WriteRow(parent, s, q.id, Written(q, v))
          /\ attach' = IF q.op = "promote_inbox_item"
                       THEN [attach EXCEPT ![s] = LiveTags(link.row, q.id)] ELSE attach
          /\ Goto(s, AfterLock(q))
          /\ UNCHANGED <<tag, link, todo>>
       \/ Refuse(s, ~ Found(q, v))

(* delete_inbox_item reads without a lock; soft_delete has no predicate. *)
ReadDraft(s) ==
    /\ pc[s] = "read"
    /\ \/ /\ Active(parent.row[request[s].id])
          /\ Goto(s, "dismiss")
          /\ UNCHANGED <<parent, tag, link, attach, todo>>
       \/ Refuse(s, ~ Active(parent.row[request[s].id]))

Dismiss(s) ==
    LET d == request[s].id IN
    /\ pc[s] = "dismiss"
    /\ Free(parent, s, d)
    /\ parent' = WriteRow(parent, s, d, DeletedAt(parent.row[d], request[s].at))
    /\ Goto(s, "select_links")
    /\ UNCHANGED <<tag, link, attach, todo>>

(* promote: the ledger row, then (CloseDraft) the end of the draft. *)
InsertLedger(s) == Insert(s, "insert_ledger", request[s].to, request[s].id,
                          IF attach[s] = {} THEN "close" ELSE "check_tags")

CloseDraft(s) ==
    LET d == request[s].id IN
    /\ pc[s] = "close"
    /\ parent' = WriteRow(parent, s, d, Promoted(parent.latest[d], request[s].at))
    /\ Goto(s, "select_links")
    /\ UNCHANGED <<tag, link, attach, todo>>

-----------------------------------------------------------------------------
(* Statements on the junctions: sync_hashtags and the cascades.              *)

(* The parent whose set sync_hashtags replaces. *)
Synced(q) == IF q.op = "promote_inbox_item" THEN q.to ELSE q.id

\* Mutant: the hashtags are not validated.
AnyTags(s) == TRUE

ValidTags(s) == \A h \in attach[s] : tag.row[h] = "active"

(* SELECT of the valid ids; a new row goes on to the upsert. *)
CheckTags(s) ==
    /\ pc[s] = "check_tags"
    /\ \/ /\ ValidTags(s)
          /\ IF request[s].op \in {"update_transaction", "update_inbox_item"}
             THEN Goto(s, "select_links") /\ UNCHANGED todo
             ELSE /\ Goto(s, "add_links")
                  /\ todo' = [todo EXCEPT ![s] = {Synced(request[s])} \X attach[s]]
          /\ UNCHANGED <<parent, tag, link, attach>>
       \/ Refuse(s, ~ ValidTags(s))

(* The hashtags that cascade_delete leaves alone. *)
Kept(s) == IF request[s].op = "promote_inbox_item" THEN {} ELSE attach[s]

\* Mutant: only the ledger is looked at.
MatchesLedger(s, l) ==
    LET q == request[s] IN
    CASE q.op = "restore_transaction" ->
           l[1] = q.id /\ Visible(link, s, l) = parent.row[q.id].deletedAt
      [] q.op = "delete_hashtag" -> l[1] \in Txn /\ l[2] = q.id /\ Visible(link, s, l) = Live
      [] OTHER -> /\ l[1] = q.id /\ l[1] \in Txn
                  /\ l[2] \notin Kept(s) /\ Visible(link, s, l) = Live

(***************************************************************************)
(* The WHERE clause of the statement: the junctions the parent's deletion  *)
(* marked (cascade_restore), all of a hashtag (delete_hashtag), or the     *)
(* live ones of the parent that are not kept (cascade_delete).             *)
(***************************************************************************)
Matches(s, l) ==
    LET q == request[s] IN
    CASE q.op = "restore_transaction" ->
           l[1] = q.id /\ Visible(link, s, l) = parent.row[q.id].deletedAt
      [] q.op = "delete_hashtag" -> l[2] = q.id /\ Visible(link, s, l) = Live
      [] OTHER -> l[1] = q.id /\ l[2] \notin Kept(s) /\ Visible(link, s, l) = Live

(* The statement finds its rows in its snapshot ... *)
SelectLinks(s) ==
    /\ pc[s] = "select_links"
    /\ todo' = [todo EXCEPT ![s] = {l \in Link : Matches(s, l)}]
    /\ Goto(s, "visit_links")
    /\ UNCHANGED <<parent, tag, link, attach>>

(* ... and updates them one by one, those that still match. *)
VisitLink(s, l) ==
    /\ pc[s] = "visit_links"
    /\ l \in todo[s]
    /\ Free(link, s, l)
    /\ link' = IF Matches(s, l)
               THEN WriteRow(link, s, l, IF request[s].op = "restore_transaction"
                                         THEN Live ELSE request[s].at)
               ELSE link
    /\ todo' = [todo EXCEPT ![s] = @ \ {l}]
    /\ UNCHANGED <<parent, tag, request, pc, attach, dropped, served>>

\* Mutant: only ledger rows are bumped.
AffectedLedger(s) == {p \in Txn : \E h \in Tag : link.lock[<<p, h>>] = s}

(* The parents whose junctions this session has written. *)
Affected(s) == {p \in Parent : \E h \in Tag : link.lock[<<p, h>>] = s}

(* The next statement: the bump of delete_hashtag, the upsert, or COMMIT. *)
LinksVisited(s) ==
    LET q == request[s] IN
    /\ pc[s] = "visit_links"
    /\ todo[s] = {}
    /\ \/ /\ q.op = "delete_hashtag"
          /\ todo' = [todo EXCEPT ![s] = Affected(s)]
          /\ Goto(s, "bump_parents")
       \/ /\ q.op \in {"update_transaction", "update_inbox_item"} /\ attach[s] # {}
          /\ todo' = [todo EXCEPT ![s] = {q.id} \X attach[s]]
          /\ Goto(s, "add_links")
       \/ /\ q.op # "delete_hashtag"
          /\ ~ (q.op \in {"update_transaction", "update_inbox_item"} /\ attach[s] # {})
          /\ Goto(s, "commit")
          /\ UNCHANGED todo
    /\ UNCHANGED <<parent, tag, link, attach>>

(* INSERT ... ON CONFLICT DO UPDATE: a live row is locked and left alone. *)
AddLink(s, l) ==
    /\ pc[s] = "add_links"
    /\ l \in todo[s]
    /\ Free(link, s, l)
    /\ link' = IF Visible(link, s, l) = Live THEN LockRow(link, s, l)
               ELSE WriteRow(link, s, l, Live)
    /\ todo' = [todo EXCEPT ![s] = @ \ {l}]
    /\ UNCHANGED <<parent, tag, request, pc, attach, dropped, served>>

LinksAdded(s) ==
    /\ pc[s] = "add_links"
    /\ todo[s] = {}
    /\ Goto(s, IF request[s].op = "promote_inbox_item" THEN "close" ELSE "commit")
    /\ UNCHANGED <<parent, tag, link, attach, todo>>

-----------------------------------------------------------------------------
(* Hashtags.                                                                 *)

InsertTag(s) ==
    LET h == request[s].id IN
    /\ pc[s] = "insert_tag"
    /\ \/ /\ tag.row[h] = Missing /\ Free(tag, s, h)
          /\ tag' = WriteRow(tag, s, h, "active")
          /\ Goto(s, "commit")
          /\ UNCHANGED <<parent, link, attach, todo>>
       \/ Refuse(s, tag.row[h] # Missing)

(* fetch_owned_row_or_404 without a lock. *)
ReadTag(s) ==
    LET q == request[s]
        found == tag.row[q.id] = (IF q.op = "delete_hashtag" THEN "active" ELSE "deleted") IN
    /\ pc[s] = "read_tag"
    /\ \/ /\ found
          /\ Goto(s, IF q.op = "delete_hashtag" THEN "select_links" ELSE "restore_tag")
          /\ UNCHANGED <<parent, tag, link, attach, todo>>
       \/ Refuse(s, ~ found)

(* UPDATE of the affected transactions, then UPDATE of the affected drafts. *)
BumpParent(s, p) ==
    /\ pc[s] = "bump_parents"
    /\ p \in todo[s]
    /\ p \in Draft => todo[s] \cap Txn = {}
    /\ Free(parent, s, p)
    /\ parent' = WriteRow(parent, s, p, Bumped(parent.row[p]))
    /\ todo' = [todo EXCEPT ![s] = @ \ {p}]
    /\ UNCHANGED <<tag, link, request, pc, attach, dropped, served>>

(* soft_delete_with_audit, whose UPDATE has no predicate on deleted_at. *)
DeleteTag(s) ==
    LET h == request[s].id IN
    /\ pc[s] = "bump_parents"
    /\ todo[s] = {}
    /\ Free(tag, s, h)
    /\ tag' = WriteRow(tag, s, h, "deleted")
    /\ Goto(s, "commit")
    /\ UNCHANGED <<parent, link, attach, todo>>

(* restore_with_audit: 409 when the hashtag is active again. *)
RestoreTag(s) ==
    LET h == request[s].id IN
    /\ pc[s] = "restore_tag"
    /\ \/ /\ tag.row[h] = "deleted" /\ Free(tag, s, h)
          /\ tag' = WriteRow(tag, s, h, "active")
          /\ Goto(s, "commit")
          /\ UNCHANGED <<parent, link, attach, todo>>
       \/ Refuse(s, tag.row[h] # "deleted")

-----------------------------------------------------------------------------

(* A statement fails, the process stops, or a wait is cut short. *)
Fail(s) == pc[s] # "idle" /\ Abandon(s)

Step(s) == \/ Create(s) \/ LockParent(s) \/ ReadDraft(s) \/ Dismiss(s)
           \/ InsertLedger(s) \/ CloseDraft(s)
           \/ CheckTags(s) \/ SelectLinks(s) \/ (\E l \in Link : VisitLink(s, l))
           \/ LinksVisited(s) \/ (\E l \in Link : AddLink(s, l)) \/ LinksAdded(s)
           \/ InsertTag(s) \/ ReadTag(s) \/ (\E p \in Parent : BumpParent(s, p))
           \/ DeleteTag(s) \/ RestoreTag(s) \/ CommitAll(s)

Next == \E s \in Session : (\E q \in Request : Begin(s, q)) \/ Step(s) \/ Fail(s)

Spec == Init /\ [][Next]_vars

-----------------------------------------------------------------------------

Steps == {"idle", "insert", "lock", "read", "dismiss", "insert_ledger", "close",
          "check_tags", "select_links", "visit_links", "add_links", "bump_parents",
          "insert_tag", "read_tag", "restore_tag", "commit"}

TypeOK ==
    /\ parent \in Tables(Parent, ParentRow \cup {Missing})
    /\ tag \in Tables(Tag, TagRow \cup {Missing})
    /\ link \in Tables(Link, Time \cup {Missing})
    /\ pc \in [Session -> Steps]
    /\ attach \in [Session -> SUBSET Tag]
    /\ todo \in [Session -> SUBSET (Link \cup Parent)]
    /\ dropped \in [Txn -> SUBSET Tag]
    /\ \A s \in Session : request[s] = NoRequest
         \/ \E q \in Request : request[s] = [op |-> q.op, id |-> q.id, tags |-> q.tags,
                                             to |-> q.to, at |-> request[s].at]
    /\ served \in Nat

(***************************************************************************)
(* A deleted transaction and a closed draft have no live junction, however *)
(* edits, cascades, dismissals and promotions interleave: attached after   *)
(* the cascade looked, a hashtag would be counted for a row that is gone.  *)
(***************************************************************************)
DeletedHaveNoTags ==
    \A p \in Parent : Buried(parent.row[p]) => LiveTags(link.row, p) = {}

(* A draft is promoted exactly when one ledger row has come from it.         *)
OnePromotion ==
    \A d \in Draft :
      LET rows == {t \in Txn : parent.row[t] # Missing /\ parent.row[t].from = d} IN
      /\ \A t, u \in rows : t = u
      /\ rows # {} <=> parent.row[d] # Missing /\ parent.row[d].promoted

(***************************************************************************)
(* Whatever changes the hashtags a parent shows changes its version in the *)
(* same commit, so that a client which edits what it read notices.         *)
(***************************************************************************)
TagsMoveWithVersion ==
    [][\A p \in Parent :
         parent.row[p] # Missing /\ LiveTags(link'.row, p) # LiveTags(link.row, p) =>
           parent'.row[p].version # parent.row[p].version]_vars

(* The COMMIT of s, which no other step of s or of another session resembles. *)
Commits(s, op) == /\ pc[s] = "commit" /\ request[s].op = op
                  /\ parent'.row[request[s].id] # parent.row[request[s].id]

(***************************************************************************)
(* A restored transaction has exactly the hashtags its deletion dropped,   *)
(* none that an earlier edit had removed.                                  *)
(***************************************************************************)
RestoreRevivesItsOwn ==
    [][\A s \in Session : Commits(s, "restore_transaction") =>
         LiveTags(link'.row, request[s].id) = dropped[request[s].id]]_vars

(***************************************************************************)
(* A promotion moves the draft's hashtags whole: the ledger row starts     *)
(* with the set that the draft has until that commit.                      *)
(***************************************************************************)
PromotionMovesTags ==
    [][\A s \in Session : Commits(s, "promote_inbox_item") =>
         LiveTags(link'.row, request[s].to) = LiveTags(link.row, request[s].id)]_vars

(***************************************************************************)
(* A new or edited row has exactly the hashtags its request asked for, the *)
(* empty set included, also when one of them is deleted meanwhile.         *)
(***************************************************************************)
TagsAreAsAsked ==
    [][\A s \in Session, op \in {"create_transaction", "create_inbox_item",
                                 "update_transaction", "update_inbox_item"} :
         Commits(s, op) /\ request[s].tags # Omitted =>
           LiveTags(link'.row, request[s].id) = request[s].tags]_vars

(* What clients see of the rows and their hashtags.                          *)
StateOf(v) == CASE v = Missing -> "absent"
                [] v # Missing /\ v.promoted -> "promoted"
                [] v # Missing /\ ~ v.promoted /\ v.deletedAt = Null -> "active"
                [] v # Missing /\ ~ v.promoted /\ v.deletedAt # Null -> "deleted"
OriginOf(v) == IF v = Missing THEN Null ELSE v.from

RowStates == [p \in Parent |-> StateOf(parent.row[p])]
RowOrigins == [t \in Txn |-> OriginOf(parent.row[t])]
RowTags == [p \in Parent |-> LiveTags(link.row, p)]
Promised == INSTANCE TaggedRows WITH
    state <- RowStates, from <- RowOrigins, shown <- RowTags, shelf <- dropped

(***************************************************************************)
(* Every request takes effect whole in one step, its COMMIT: a promotion   *)
(* ends the draft and starts the ledger row with its hashtags, a deletion  *)
(* takes all of them off, a restore puts back what that took.  The         *)
(* dismissal of a draft that has already ended changes nothing here.       *)
(***************************************************************************)
ImplementsTaggedRows == Promised!Spec

(* A hashtag that a transaction or a draft shows is an active one.           *)
LiveTagsAreActive ==
    \A p \in Parent : \A h \in LiveTags(link.row, p) : tag.row[h] = "active"

(* A draft that is dismissed stays pending and is not one that was promoted. *)
DismissedIsPending ==
    [][\A s \in Session : Commits(s, "delete_inbox_item") =>
         ~ parent'.row[request[s].id].promoted]_vars
=============================================================================
