-------------------------- MODULE HashtagLinksProofs --------------------------
(***************************************************************************)
(* HashtagLinks proved for any number of sessions, parents, hashtags and   *)
(* requests.                                                               *)
(***************************************************************************)
EXTENDS HashtagLinks, TableProofs

-----------------------------------------------------------------------------
(* The invariant.                                                            *)

(* The operations, by what they do to a parent and by the table of their id. *)
Creates == {"create_transaction", "create_inbox_item"}
Updates == {"update_transaction", "update_inbox_item"}
Deletes == {"delete_transaction", "delete_inbox_item"}
OfDrafts == {"create_inbox_item", "update_inbox_item", "delete_inbox_item",
             "promote_inbox_item"}
OfLedger == {"create_transaction", "update_transaction", "delete_transaction",
             "restore_transaction"}
OfTags == {"create_hashtag", "delete_hashtag", "restore_hashtag"}

StepsOf(op) ==
    CASE op \in Creates -> {"insert", "check_tags", "add_links", "commit"}
      [] op \in Updates -> {"lock", "check_tags", "select_links", "visit_links",
                            "add_links", "commit"}
      [] op \in {"delete_transaction", "restore_transaction"} ->
           {"lock", "select_links", "visit_links", "commit"}
      [] op = "delete_inbox_item" ->
           {"read", "dismiss", "select_links", "visit_links", "commit"}
      [] op = "promote_inbox_item" ->
           {"lock", "insert_ledger", "check_tags", "add_links", "close",
            "select_links", "visit_links", "commit"}
      [] op = "create_hashtag" -> {"insert_tag", "commit"}
      [] op = "delete_hashtag" ->
           {"read_tag", "select_links", "visit_links", "bump_parents", "commit"}
      [] op = "restore_hashtag" -> {"read_tag", "restore_tag", "commit"}

Asks(q) ==
    /\ q.op \in Operation
    /\ q.at \in Nat /\ 2 <= q.at /\ q.at <= served + 1
    /\ q.op \in OfLedger => q.id \in Txn
    /\ q.op \in OfDrafts => q.id \in Draft
    /\ q.op \in OfTags => q.id \in Tag
    /\ q.op = "promote_inbox_item" => q.to \in Txn

AtItsOperation(s) ==
    \/ pc[s] = "idle" /\ request[s] = NoRequest
    \/ /\ Asks(request[s]) /\ pc[s] \in StepsOf(request[s].op)
       /\ attach[s] # {} => request[s].op \in Creates \cup Updates \cup {"promote_inbox_item"}

Before == {"insert", "lock", "read", "dismiss"}
Closed == {"select_links", "visit_links", "commit"}

HoldsItsRows(s) ==
    LET q == request[s] IN
    /\ pc[s] = "dismiss" => parent.row[q.id] # Missing
    /\ pc[s] \notin Before \cup {"idle"} /\ q.op \in OfLedger \cup OfDrafts =>
         parent.lock[q.id] = s
    /\ q.op = "promote_inbox_item" /\ pc[s] \notin {"lock", "insert_ledger"} =>
         parent.lock[q.to] = s

Uncommitted(s, p) ==
    LET q == request[s]
        v == parent.row[p]
        w == parent.latest[p] IN
    \/ q.op \in Creates /\ p = q.id /\ v = Missing /\ w = Row(Null, Null)
    \/ q.op = "promote_inbox_item" /\ p = q.to /\ v = Missing /\ w = Row(Null, q.id)
    \/ /\ q.op = "promote_inbox_item" /\ p = q.id /\ Active(v) /\ ~ v.promoted
       /\ w = IF pc[s] \in Closed THEN Promoted(v, q.at) ELSE v
    \/ q.op \in Updates /\ p = q.id /\ Active(v) /\ w = Bumped(v)
    \/ /\ q.op \in Deletes /\ p = q.id /\ v # Missing /\ w = DeletedAt(v, q.at)
       /\ q.op = "delete_transaction" => Active(v)
    \/ q.op = "restore_transaction" /\ p = q.id /\ Buried(v) /\ w = DeletedAt(v, Null)
    \/ q.op = "delete_hashtag" /\ v # Missing /\ w = Bumped(v)

(* The uncommitted version of a junction that s has locked. *)
Touched(s, l) ==
    LET q == request[s]
        v == link.row[l]
        w == link.latest[l] IN
    \/ q.op \in Creates /\ l[1] = q.id /\ w = Live /\ pc[s] \in {"add_links", "commit"}
    \/ /\ q.op = "promote_inbox_item" /\ l[1] = q.to /\ l[2] \in attach[s] /\ w = Live
       /\ pc[s] \in {"add_links", "close"} \cup Closed
    \/ /\ q.op \in Updates /\ l[1] = q.id /\ w \in {Live, q.at}
       /\ pc[s] \in {"visit_links", "add_links", "commit"}
    \/ /\ q.op \in Deletes \cup {"promote_inbox_item"} /\ l[1] = q.id /\ v = Live /\ w = q.at
       /\ pc[s] \in {"visit_links", "commit"}
    \/ /\ q.op = "restore_transaction" /\ l[1] = q.id
       /\ v = parent.row[q.id].deletedAt /\ w = Live
       /\ pc[s] \in {"visit_links", "commit"}
    \/ /\ q.op = "delete_hashtag" /\ l[2] = q.id /\ v = Live /\ w = q.at
       /\ \/ pc[s] = "visit_links"
          \/ pc[s] = "bump_parents" /\ (l[1] \in todo[s] \/ parent.lock[l[1]] = s)
          \/ pc[s] = "commit" /\ parent.lock[l[1]] = s

LocksAreKnown(s) ==
    /\ \A p \in Parent : parent.lock[p] = s => Uncommitted(s, p)
    /\ \A l \in Link : link.lock[l] = s => Touched(s, l)

(* The junctions a closing or restoring handler has to reach. *)
Due(s) == IF request[s].op = "restore_transaction"
          THEN parent.row[request[s].id].deletedAt ELSE Live

(* The operations that end with a cascade over the whole parent. *)
Cascading == Deletes \cup {"promote_inbox_item", "restore_transaction"}
CascadeIsComplete(s) ==
    request[s].op \in Cascading /\ pc[s] \in {"visit_links", "commit"} =>
      \A h \in Tag :
        LET l == <<request[s].id, h>> IN
        link.row[l] = Due(s) =>
          link.lock[l] = s \/ (pc[s] = "visit_links" /\ l \in todo[s])

PromotionIsComplete(s) ==
    request[s].op = "promote_inbox_item" /\ pc[s] # "lock" =>
      /\ attach[s] = LiveTags(link.row, request[s].id)
      /\ \A h \in attach[s] :
           LET l == <<request[s].to, h>> IN
           /\ pc[s] = "add_links" => l \in todo[s] \/ link.lock[l] = s
           /\ pc[s] \in {"close"} \cup Closed => link.lock[l] = s

WorkIsKnown(s) ==
    /\ pc[s] = "visit_links" => todo[s] \subseteq Link
    /\ pc[s] = "add_links" => todo[s] \subseteq {Synced(request[s])} \X attach[s]
    /\ pc[s] = "bump_parents" => todo[s] \subseteq Affected(s)

SessionInv(s) == /\ AtItsOperation(s) /\ HoldsItsRows(s) /\ LocksAreKnown(s)
                 /\ CascadeIsComplete(s) /\ PromotionIsComplete(s) /\ WorkIsKnown(s)

NoOrphans == \A p \in Parent, h \in Tag : link.row[<<p, h>>] # Missing => parent.row[p] # Missing

DroppedIsKnown ==
    \A t \in Txn : Buried(parent.row[t]) =>
      dropped[t] = {h \in Tag : link.row[<<t, h>>] = parent.row[t].deletedAt}

StampsAreNew ==
    /\ \A l \in Link : link.row[l] \in Nat =>
         /\ link.row[l] <= served + 1
         /\ \A s \in Session : pc[s] # "idle" => link.row[l] # request[s].at
    /\ \A s, u \in Session : s # u /\ pc[s] # "idle" /\ pc[u] # "idle" =>
         request[s].at # request[u].at

IInv == /\ TypeOK /\ DOMAIN request = Session
        /\ Settled(parent, Parent) /\ Settled(link, Link) /\ Settled(tag, Tag)
        /\ \A s \in Session : SessionInv(s)
        /\ DeletedHaveNoTags /\ NoOrphans /\ OnePromotion
        /\ DroppedIsKnown /\ StampsAreNew

-----------------------------------------------------------------------------
(* Rows, junctions and the statements of the operations.                     *)

LEMMA BumpedFacts ==
  ASSUME NEW v \in ParentRow
  PROVE  /\ Bumped(v) \in ParentRow /\ Bumped(v) # Missing
         /\ Bumped(v).deletedAt = v.deletedAt /\ Bumped(v).from = v.from
         /\ Bumped(v).promoted = v.promoted /\ Bumped(v).version = v.version + 1
  BY MissingAssumption DEF Bumped, ParentRow

LEMMA DeletedAtFacts ==
  ASSUME NEW v \in ParentRow, NEW now \in Time
  PROVE  /\ DeletedAt(v, now) \in ParentRow /\ DeletedAt(v, now) # Missing
         /\ DeletedAt(v, now).deletedAt = now /\ DeletedAt(v, now).from = v.from
         /\ DeletedAt(v, now).promoted = v.promoted
         /\ DeletedAt(v, now).version = v.version + 1
<1> DEFINE u == [v EXCEPT !.deletedAt = now]
<1>1. /\ u \in ParentRow /\ u.deletedAt = now /\ u.from = v.from
      /\ u.promoted = v.promoted /\ u.version = v.version
  BY DEF ParentRow
<1>2. DeletedAt(v, now) = Bumped(u)
  BY DEF DeletedAt
<1> HIDE DEF u
<1>3. QED
  BY <1>1, <1>2, BumpedFacts

LEMMA PromotedFacts ==
  ASSUME NEW v \in ParentRow, NEW now \in Time
  PROVE  /\ Promoted(v, now) \in ParentRow /\ Promoted(v, now) # Missing
         /\ Promoted(v, now).deletedAt = now /\ Promoted(v, now).from = v.from
         /\ Promoted(v, now).promoted
         /\ Promoted(v, now).version = v.version + 1
<1> DEFINE u == [v EXCEPT !.promoted = TRUE]
<1>1. /\ u \in ParentRow /\ u.from = v.from /\ u.promoted /\ u.version = v.version
  BY DEF ParentRow
<1>2. Promoted(v, now) = DeletedAt(u, now)
  BY DEF Promoted
<1> HIDE DEF u
<1>3. QED
  BY <1>1, <1>2, DeletedAtFacts

LEMMA RowFacts ==
  ASSUME NEW from \in Draft \cup {Null}
  PROVE  /\ Row(Null, from) \in ParentRow /\ Row(Null, from) # Missing
         /\ Row(Null, from).deletedAt = Null /\ Row(Null, from).from = from
         /\ ~ Row(Null, from).promoted
<1> DEFINE v == Row(Null, from)
<1>1. v = [deletedAt |-> Null, from |-> from, promoted |-> FALSE, version |-> 0]
  BY DEF Row
<1>2. v \in ParentRow
  BY <1>1 DEF ParentRow, Time
<1>3. v.deletedAt = Null /\ v.from = from /\ ~ v.promoted
  BY <1>1
<1>4. QED
  BY <1>2, <1>3, MissingAssumption

LEMMA LinkFacts ==
  /\ \A p \in Parent, h \in Tag : <<p, h>> \in Link /\ <<p, h>>[1] = p /\ <<p, h>>[2] = h
  /\ \A l \in Link : l[1] \in Parent /\ l[2] \in Tag /\ l = <<l[1], l[2]>>
  BY DEF Link

(* What a session was asked, from the statement it is at. *)
LEMMA Stations ==
  ASSUME NEW s \in Session, AtItsOperation(s), pc[s] # "idle"
  PROVE  LET q == request[s] IN
         /\ Asks(q)
         /\ pc[s] = "insert" => q.op \in Creates
         /\ pc[s] = "lock" => q.op \in Updates \cup {"delete_transaction",
                               "restore_transaction", "promote_inbox_item"}
         /\ pc[s] \in {"read", "dismiss"} => q.op = "delete_inbox_item"
         /\ pc[s] \in {"insert_ledger", "close"} => q.op = "promote_inbox_item"
         /\ pc[s] \in {"check_tags", "add_links"} =>
              q.op \in Creates \cup Updates \cup {"promote_inbox_item"}
         /\ pc[s] \in {"select_links", "visit_links"} =>
              q.op \in Updates \cup Cascading \cup {"delete_hashtag"}
         /\ pc[s] = "bump_parents" => q.op = "delete_hashtag"
         /\ pc[s] = "insert_tag" => q.op = "create_hashtag"
         /\ pc[s] = "read_tag" => q.op \in {"delete_hashtag", "restore_hashtag"}
         /\ pc[s] = "restore_tag" => q.op = "restore_hashtag"
  BY DEF AtItsOperation, Asks, StepsOf, Operation, Creates, Updates, Deletes, Cascading

(* The rows a session's request names. *)
LEMMA OwnRows ==
  ASSUME NEW q, Asks(q)
  PROVE  /\ q.op \in OfLedger => q.id \in Txn
         /\ q.op \in OfDrafts => q.id \in Draft
         /\ q.op \in Creates \cup Updates \cup Cascading => q.id \in Parent
         /\ q.op \in OfLedger \cup OfDrafts => q.id \in Parent
         /\ q.op \in OfTags => q.id \in Tag
         /\ q.op = "promote_inbox_item" =>
              q.id \in Draft /\ q.to \in Txn /\ q.to \in Parent /\ q.id # q.to
         /\ q.at \in Time /\ q.at \in Nat /\ q.at # Null
  BY ParentAssumption, SentinelAssumption
     DEF Asks, OfLedger, OfDrafts, OfTags, Creates, Updates, Deletes, Cascading, Parent, Time

-----------------------------------------------------------------------------
(* What every step of one session leaves to the others.                      *)

Frames(s) == FrameOf(parent, parent', s, Parent) /\ FrameOf(link, link', s, Link)

(* The locals of the other sessions do not move. *)
OnlyMoves(s) ==
    /\ \A u \in Session \ {s} :
         /\ pc'[u] = pc[u] /\ request'[u] = request[u]
         /\ attach'[u] = attach[u] /\ todo'[u] = todo[u]
    /\ served' >= served

(* Rows do not vanish, and the junctions of a parent that another session    *)
(* has locked do not change.                                                 *)
RowsRemain == \A p \in Parent : parent.row[p] # Missing => parent'.row[p] # Missing
LinksStay(s) ==
    \A p \in Parent, h \in Tag :
      parent.lock[p] \notin {Nobody, s} => link'.row[<<p, h>>] = link.row[<<p, h>>]

(* The cases of HoldsItsRows that matter to the junctions. *)
LEMMA HeldRows ==
  ASSUME NEW s \in Session, AtItsOperation(s), HoldsItsRows(s), pc[s] # "idle"
  PROVE  LET q == request[s] IN
         /\ q.op \in Cascading /\ pc[s] \in Closed => parent.lock[q.id] = s
         /\ q.op = "promote_inbox_item" /\ pc[s] # "lock" => parent.lock[q.id] = s
         /\ q.op = "promote_inbox_item" /\ pc[s] \notin {"lock", "insert_ledger"} =>
              parent.lock[q.to] = s
  BY Stations DEF HoldsItsRows, OfLedger, OfDrafts, Cascading, Deletes, Before, Closed,
                  AtItsOperation, StepsOf, Creates, Updates

LEMMA Bystander ==
  ASSUME IInv, NEW s \in Session, Frames(s), OnlyMoves(s), RowsRemain, LinksStay(s),
         served' \in Nat, NEW u \in Session \ {s}
  PROVE  SessionInv(u)'
<1> USE SessionAssumption
<1> DEFINE q == request[u]
<1>1. /\ SessionInv(u)
      /\ pc'[u] = pc[u] /\ request'[u] = request[u]
      /\ attach'[u] = attach[u] /\ todo'[u] = todo[u]
  BY DEF IInv, OnlyMoves
<1>2. \A p \in Parent : /\ parent'.lock[p] = u => parent.lock[p] = u
                        /\ parent.lock[p] = u => /\ parent'.lock[p] = u
                                                 /\ parent'.row[p] = parent.row[p]
                                                 /\ parent'.latest[p] = parent.latest[p]
  BY DEF Frames, FrameOf
<1>3. \A l \in Link : /\ link'.lock[l] = u => link.lock[l] = u
                      /\ link.lock[l] = u => /\ link'.lock[l] = u
                                             /\ link'.row[l] = link.row[l]
                                             /\ link'.latest[l] = link.latest[l]
  BY DEF Frames, FrameOf
<1>4. \A p \in Parent, h \in Tag : parent.lock[p] = u => link'.row[<<p, h>>] = link.row[<<p, h>>]
  BY DEF LinksStay
<1>5. /\ pc[u] # "idle" => Asks(q)
      /\ q.op = "promote_inbox_item" => pc[u] # "idle"
  <2>1. AtItsOperation(u)
    BY <1>1 DEF SessionInv
  <2>2. pc[u] # "idle" => Asks(q)
    BY <2>1, Stations
  <2>3. q.op = "promote_inbox_item" => pc[u] # "idle"
    BY <2>1 DEF AtItsOperation, NoRequest, StepsOf
  <2>4. QED
    BY <2>2, <2>3
<1>6. AtItsOperation(u)'
  <2>1. Asks(q) => Asks(q)'
    BY <1>1 DEF OnlyMoves, Asks, IInv, TypeOK
  <2>2. QED
    BY <1>1, <2>1 DEF SessionInv, AtItsOperation, Asks
<1>7. HoldsItsRows(u)'
  <2>1. pc[u] = "dismiss" => q.id \in Parent
    BY <1>1, <1>5, Stations, OwnRows DEF SessionInv, OfDrafts
  <2>2. pc[u] # "idle" /\ q.op \in OfLedger \cup OfDrafts => q.id \in Parent
    BY <1>5, OwnRows
  <2>3. q.op = "promote_inbox_item" => q.to \in Parent
    BY <1>5, OwnRows
  <2>4. QED
    BY <1>1, <1>2, <2>1, <2>2, <2>3 DEF SessionInv, HoldsItsRows, RowsRemain
<1>8. LocksAreKnown(u)'
  <2>1. ASSUME NEW p \in Parent, parent.lock[p] = u PROVE Uncommitted(u, p)'
    BY <1>1, <1>2, <2>1 DEF SessionInv, LocksAreKnown, Uncommitted
  <2>2. ASSUME NEW l \in Link, link.lock[l] = u PROVE Touched(u, l)'
    <3>1. Touched(u, l) /\ l[1] \in Parent
      BY <1>1, <2>2, LinkFacts DEF SessionInv, LocksAreKnown
    <3>2. q.op = "restore_transaction" /\ pc[u] \in {"visit_links", "commit"} =>
            parent'.row[q.id] = parent.row[q.id]
      BY <1>1, <1>2, <1>5, HeldRows, OwnRows DEF SessionInv, Cascading, Closed
    <3>3. QED
      BY <1>1, <1>2, <1>3, <2>2, <3>1, <3>2 DEF Touched
  <2>3. QED
    BY <1>2, <1>3, <2>1, <2>2 DEF LocksAreKnown
<1>9. CascadeIsComplete(u)'
  <2>1. SUFFICES ASSUME q.op \in Cascading, pc[u] \in {"visit_links", "commit"}
                 PROVE  CascadeIsComplete(u)'
    BY <1>1 DEF CascadeIsComplete
  <2>2. q.id \in Parent /\ parent.lock[q.id] = u
    BY <1>1, <1>5, <2>1, HeldRows, OwnRows DEF SessionInv, Closed
  <2>3. Due(u)' = Due(u)
    BY <1>1, <1>2, <2>2 DEF Due
  <2>4. \A h \in Tag : /\ link'.row[<<q.id, h>>] = link.row[<<q.id, h>>]
                       /\ link.lock[<<q.id, h>>] = u => link'.lock[<<q.id, h>>] = u
    BY <1>3, <1>4, <2>2, LinkFacts
  <2>5. QED
    BY <1>1, <2>1, <2>3, <2>4 DEF SessionInv, CascadeIsComplete
<1>10. PromotionIsComplete(u)'
  <2>1. SUFFICES ASSUME q.op = "promote_inbox_item", pc[u] # "lock"
                 PROVE  PromotionIsComplete(u)'
    BY <1>1 DEF PromotionIsComplete
  <2>2. pc[u] # "idle"
    BY <1>5, <2>1
  <2>3. parent.lock[q.id] = u
    BY <1>1, <2>1, <2>2, HeldRows DEF SessionInv
  <2>8. q.id \in Parent /\ q.to \in Parent
    BY <1>5, <2>1, <2>2, OwnRows DEF Cascading
  <2>4. LiveTags(link'.row, q.id) = LiveTags(link.row, q.id)
    BY <1>4, <2>3, <2>8 DEF LiveTags
  <2>5. \A h \in Tag : link.lock[<<q.to, h>>] = u => link'.lock[<<q.to, h>>] = u
    BY <1>3, <2>8, LinkFacts
  <2>6. attach[u] \subseteq Tag
    BY DEF IInv, TypeOK
  <2>7. QED
    BY <1>1, <2>1, <2>4, <2>5, <2>6 DEF SessionInv, PromotionIsComplete
<1>11. WorkIsKnown(u)'
  <2>1. Affected(u)' = Affected(u)
    BY <1>3, LinkFacts DEF Affected
  <2>2. QED
    BY <1>1, <2>1 DEF SessionInv, WorkIsKnown, Synced
<1>12. QED
  BY <1>6, <1>7, <1>8, <1>9, <1>10, <1>11 DEF SessionInv

(* The invariant after a step of s, from what the step has to show.          *)
LEMMA StepOf ==
  ASSUME IInv, NEW s \in Session, TypeOK', (DOMAIN request)' = Session,
         Settled(parent, Parent)', Settled(link, Link)', Settled(tag, Tag)',
         Frames(s), OnlyMoves(s), RowsRemain, LinksStay(s), SessionInv(s)',
         DeletedHaveNoTags', NoOrphans', OnePromotion', DroppedIsKnown', StampsAreNew'
  PROVE  IInv'
<1>1. served' \in Nat
  BY DEF TypeOK
<1>2. \A u \in Session : SessionInv(u)'
  BY <1>1, Bystander
<1>3. QED
  BY <1>2 DEF IInv

(* A step that commits nothing keeps what is said of committed rows.         *)
LEMMA NothingCommitted ==
  ASSUME IInv, NEW s \in Session, pc[s] # "idle", OnlyMoves(s),
         parent'.row = parent.row, link'.row = link.row, UNCHANGED <<dropped, served>>,
         pc'[s] = "idle" \/ request'[s] = request[s]
  PROVE  /\ RowsRemain /\ LinksStay(s)
         /\ DeletedHaveNoTags' /\ NoOrphans' /\ OnePromotion' /\ DroppedIsKnown'
         /\ StampsAreNew'
<1>1. RowsRemain /\ LinksStay(s)
  BY DEF RowsRemain, LinksStay
<1>2. DeletedHaveNoTags' /\ NoOrphans'
  BY DEF IInv, DeletedHaveNoTags, NoOrphans
<1>3. OnePromotion' /\ DroppedIsKnown'
  BY DEF IInv, OnePromotion, DroppedIsKnown
<1>4. \A u \in Session : pc'[u] # "idle" => pc[u] # "idle" /\ request'[u] = request[u]
  BY DEF OnlyMoves
<1>5. StampsAreNew'
  BY <1>4 DEF IInv, StampsAreNew
<1>6. QED
  BY <1>1, <1>2, <1>3, <1>5

LEMMA UncommittedStep ==
  ASSUME IInv, NEW s \in Session, pc[s] # "idle", TypeOK', UNCHANGED request,
         Settled(parent, Parent)', Settled(link, Link)', Settled(tag, Tag)',
         Frames(s), OnlyMoves(s), parent'.row = parent.row, link'.row = link.row,
         UNCHANGED <<dropped, served>>, SessionInv(s)'
  PROVE  IInv'
<1>1. (DOMAIN request)' = Session
  BY DEF IInv
<1>2. QED
  BY <1>1, NothingCommitted, StepOf

LEMMA SameTable ==
  ASSUME NEW Id, NEW T, NEW s \in Session PROVE FrameOf(T, T, s, Id)
  BY DEF FrameOf

LEMMA LocalStep ==
  ASSUME IInv, NEW s \in Session, pc[s] # "idle", UNCHANGED <<parent, tag, link, dropped, served>>,
         UNCHANGED request, OnlyMoves(s), TypeOK', SessionInv(s)'
  PROVE  IInv'
<1>1. Frames(s)
  BY SameTable DEF Frames
<1>2. Settled(parent, Parent)' /\ Settled(link, Link)' /\ Settled(tag, Tag)'
  BY DEF IInv, Settled
<1>3. QED
  BY <1>1, <1>2, UncommittedStep

(* The tables are typed and settled. *)
LEMMA Typed ==
  ASSUME IInv
  PROVE  /\ parent \in Tables(Parent, ParentRow \cup {Missing}) /\ Settled(parent, Parent)
         /\ link \in Tables(Link, Time \cup {Missing}) /\ Settled(link, Link)
         /\ tag \in Tables(Tag, TagRow \cup {Missing}) /\ Settled(tag, Tag)
         /\ \A p \in Parent : /\ parent.row[p] # Missing => parent.row[p] \in ParentRow
                              /\ parent.latest[p] # Missing => parent.latest[p] \in ParentRow
         /\ served \in Nat
  BY DEF IInv, TypeOK, Tables

(* A request that ends leaves a session that holds nothing. *)
LEMMA AtEnd ==
  ASSUME TypeOK, DOMAIN request = Session, NEW s \in Session, End(s),
         \A p \in Parent : parent'.lock[p] # s, \A l \in Link : link'.lock[l] # s
  PROVE  /\ SessionInv(s)' /\ OnlyMoves(s) /\ pc'[s] = "idle" /\ (DOMAIN request)' = Session
         /\ pc' \in [Session -> Steps] /\ attach' \in [Session -> SUBSET Tag]
         /\ todo' \in [Session -> SUBSET (Link \cup Parent)]
         /\ \A u \in Session : request'[u] = IF u = s THEN NoRequest ELSE request[u]
<1>1. pc'[s] = "idle" /\ request'[s] = NoRequest
  BY DEF TypeOK, End
<1>2. NoRequest.op = "none"
  BY DEF NoRequest
<1>3. AtItsOperation(s)'
  BY <1>1 DEF AtItsOperation
<1>4. HoldsItsRows(s)' /\ LocksAreKnown(s)'
  BY <1>1, <1>2 DEF HoldsItsRows, LocksAreKnown
<1>5. CascadeIsComplete(s)' /\ PromotionIsComplete(s)' /\ WorkIsKnown(s)'
  BY <1>1, <1>2 DEF CascadeIsComplete, PromotionIsComplete, WorkIsKnown
<1>6. OnlyMoves(s) /\ \A u \in Session : request'[u] = IF u = s THEN NoRequest ELSE request[u]
  BY DEF TypeOK, End, OnlyMoves
<1>7. /\ pc' \in [Session -> Steps] /\ attach' \in [Session -> SUBSET Tag]
      /\ todo' \in [Session -> SUBSET (Link \cup Parent)] /\ (DOMAIN request)' = Session
  BY DEF TypeOK, End, Steps
<1>8. QED
  BY <1>1, <1>3, <1>4, <1>5, <1>6, <1>7 DEF SessionInv

(* An error answer. *)
LEMMA AbandonStep ==
  ASSUME IInv, NEW s \in Session, pc[s] # "idle", Abandon(s) PROVE IInv'
<1>1. /\ parent' \in Tables(Parent, ParentRow \cup {Missing}) /\ Settled(parent', Parent)
      /\ FrameOf(parent, parent', s, Parent) /\ parent'.row = parent.row
      /\ \A p \in Parent : parent'.lock[p] # s
  BY Typed, RollbackFacts, SessionAssumption DEF Abandon
<1>2. /\ link' \in Tables(Link, Time \cup {Missing}) /\ Settled(link', Link)
      /\ FrameOf(link, link', s, Link) /\ link'.row = link.row
      /\ \A l \in Link : link'.lock[l] # s
  BY Typed, RollbackFacts, SessionAssumption DEF Abandon
<1>3. tag' \in Tables(Tag, TagRow \cup {Missing}) /\ Settled(tag', Tag)
  BY Typed, RollbackFacts DEF Abandon
<1>4. /\ SessionInv(s)' /\ OnlyMoves(s) /\ pc'[s] = "idle" /\ (DOMAIN request)' = Session
      /\ pc' \in [Session -> Steps] /\ attach' \in [Session -> SUBSET Tag]
      /\ todo' \in [Session -> SUBSET (Link \cup Parent)]
      /\ \A u \in Session : request'[u] = IF u = s THEN NoRequest ELSE request[u]
  BY <1>1, <1>2, AtEnd DEF Abandon, IInv
<1>5. UNCHANGED <<dropped, served>>
  BY DEF Abandon, End
<1>6. TypeOK'
  <2>1. \A u \in Session : request'[u] = NoRequest
          \/ \E q \in Request : request'[u] = [op |-> q.op, id |-> q.id, tags |-> q.tags,
                                               to |-> q.to, at |-> request'[u].at]
    BY <1>4 DEF IInv, TypeOK
  <2>2. QED
    BY <1>1, <1>2, <1>3, <1>4, <1>5, <2>1 DEF IInv, TypeOK
<1>7. QED
  BY <1>1, <1>2, <1>3, <1>4, <1>5, <1>6, NothingCommitted, StepOf DEF Frames, Settled

-----------------------------------------------------------------------------
(* The start of a request.                                                   *)

LEMMA RequestFacts ==
  ASSUME NEW q \in Request
  PROVE  /\ q.op \in Operation
         /\ q.op \in OfLedger => q.id \in Txn
         /\ q.op \in OfDrafts => q.id \in Draft
         /\ q.op \in OfTags => q.id \in Tag
         /\ q.op = "promote_inbox_item" => q.to \in Txn
         /\ q.tags # Omitted => q.tags \in SUBSET Tag
         /\ q.op \notin Creates \cup Updates => q.tags = Omitted
<1> DEFINE Of(op, Id, hs, to) ==
             q.op = op /\ q.id \in Id /\ q.tags \in hs /\ q.to \in to
<1>1. \/ Of("create_transaction", Txn, SUBSET Tag, {Null})
      \/ Of("create_inbox_item", Draft, SUBSET Tag, {Null})
      \/ Of("update_transaction", Txn, (SUBSET Tag) \cup {Omitted}, {Null})
      \/ Of("update_inbox_item", Draft, (SUBSET Tag) \cup {Omitted}, {Null})
      \/ \E op \in {"delete_transaction", "restore_transaction"} :
           Of(op, Txn, {Omitted}, {Null})
      \/ Of("delete_inbox_item", Draft, {Omitted}, {Null})
      \/ Of("promote_inbox_item", Draft, {Omitted}, Txn)
      \/ \E op \in {"create_hashtag", "delete_hashtag", "restore_hashtag"} :
           Of(op, Tag, {Omitted}, {Null})
  BY DEF Request, Asked
<1>2. q.op \in Operation /\ (q.op \notin Creates \cup Updates => q.tags = Omitted)
  BY <1>1 DEF Operation, Creates, Updates
<1>3. q.tags # Omitted => q.tags \in SUBSET Tag
  BY <1>1
<1>4. /\ q.op \in OfLedger => q.id \in Txn
      /\ q.op \in OfDrafts => q.id \in Draft
  BY <1>1 DEF OfLedger, OfDrafts
<1>5. /\ q.op \in OfTags => q.id \in Tag
      /\ q.op = "promote_inbox_item" => q.to \in Txn
  BY <1>1 DEF OfTags
<1>6. QED
  BY <1>2, <1>3, <1>4, <1>5

LEMMA FirstFacts ==
  ASSUME NEW op \in Operation
  PROVE  /\ FirstStep[op] \in StepsOf(op) /\ FirstStep[op] \in Steps
         /\ FirstStep[op] \in {"insert", "lock", "read", "insert_tag", "read_tag"}
         /\ op = "promote_inbox_item" => FirstStep[op] = "lock"
         /\ op \in OfLedger \cup OfDrafts => FirstStep[op] \in Before
<1>1. FirstStep[op] = CASE op \in Creates -> "insert"
                        [] op \in Updates \cup {"delete_transaction", "restore_transaction",
                                                "promote_inbox_item"} -> "lock"
                        [] op = "delete_inbox_item" -> "read"
                        [] op = "create_hashtag" -> "insert_tag"
                        [] op \in {"delete_hashtag", "restore_hashtag"} -> "read_tag"
  BY DEF FirstStep, Operation, Creates, Updates
<1>2. QED
  BY <1>1 DEF StepsOf, Steps, Operation, Creates, Updates, Before, OfLedger, OfDrafts

LEMMA BeginStep ==
  ASSUME IInv, NEW s \in Session, NEW q \in Request, Begin(s, q) PROVE IInv'
<1> DEFINE r == [op |-> q.op, id |-> q.id, tags |-> q.tags, to |-> q.to, at |-> served + 2]
           a == IF q.tags = Omitted THEN {} ELSE q.tags
<1>1. /\ pc[s] = "idle" /\ SessionInv(s) /\ TypeOK /\ served \in Nat
      /\ \A u \in Session : AtItsOperation(u)
  BY DEF Begin, IInv, TypeOK, SessionInv
<1>2. /\ q.op \in Operation /\ a \in SUBSET Tag
      /\ a # {} => q.op \in Creates \cup Updates
  BY RequestFacts
<1>3. /\ FirstStep[q.op] \in StepsOf(q.op) /\ FirstStep[q.op] \in Steps
      /\ FirstStep[q.op] \in {"insert", "lock", "read", "insert_tag", "read_tag"}
      /\ q.op = "promote_inbox_item" => FirstStep[q.op] = "lock"
      /\ q.op \in OfLedger \cup OfDrafts => FirstStep[q.op] \in Before
  BY <1>2, FirstFacts
<1>4. /\ pc' = [pc EXCEPT ![s] = FirstStep[q.op]]
      /\ request' = [request EXCEPT ![s] = r]
      /\ attach' = [attach EXCEPT ![s] = a]
      /\ served' = served + 1 /\ UNCHANGED <<parent, tag, link, todo, dropped>>
  BY DEF Begin
<1>5. /\ r.op = q.op /\ r.id = q.id /\ r.tags = q.tags /\ r.to = q.to /\ r.at = served + 2
      /\ r = [op |-> q.op, id |-> q.id, tags |-> q.tags, to |-> q.to, at |-> r.at]
  OBVIOUS
<1> HIDE DEF r, a
<1>6. /\ pc'[s] = FirstStep[q.op] /\ request'[s] = r /\ attach'[s] = a
      /\ (DOMAIN request)' = Session
  BY <1>1, <1>4 DEF IInv, TypeOK
<1>7. OnlyMoves(s)
  BY <1>1, <1>4 DEF IInv, TypeOK, OnlyMoves
<1>8. TypeOK'
  <2>1. ASSUME NEW u \in Session
        PROVE  request'[u] = NoRequest
          \/ \E x \in Request : request'[u] = [op |-> x.op, id |-> x.id, tags |-> x.tags,
                                               to |-> x.to, at |-> request'[u].at]
    <3>1. CASE u = s
      BY <3>1, <1>5, <1>6
    <3>2. CASE u # s
      BY <3>2, <1>1, <1>7 DEF OnlyMoves, TypeOK
    <3>3. QED
      BY <3>1, <3>2
  <2>2. pc' \in [Session -> Steps] /\ attach' \in [Session -> SUBSET Tag] /\ served' \in Nat
    BY <1>1, <1>2, <1>3, <1>4 DEF TypeOK
  <2>3. QED
    BY <1>1, <1>4, <2>1, <2>2 DEF TypeOK
<1>9. /\ \A p \in Parent : parent.lock[p] # s
      /\ \A l \in Link : link.lock[l] # s
  <2>1. request[s].op = "none"
    BY <1>1 DEF AtItsOperation, StepsOf, NoRequest, Asks, Operation, Creates, Updates
  <2>2. QED
    BY <1>1, <2>1 DEF SessionInv, LocksAreKnown, Uncommitted, Touched, Creates, Updates, Deletes
<1>10. SessionInv(s)'
  <2>1. AtItsOperation(s)'
    <3>1. Asks(request[s])'
      BY <1>1, <1>2, <1>4, <1>5, <1>6, RequestFacts DEF Asks
    <3>2. QED
      BY <1>2, <1>3, <1>5, <1>6, <3>1 DEF AtItsOperation
  <2>2. HoldsItsRows(s)' /\ LocksAreKnown(s)'
    BY <1>3, <1>4, <1>5, <1>6, <1>9 DEF HoldsItsRows, LocksAreKnown
  <2>3. CascadeIsComplete(s)' /\ PromotionIsComplete(s)' /\ WorkIsKnown(s)'
    BY <1>3, <1>5, <1>6 DEF CascadeIsComplete, PromotionIsComplete, WorkIsKnown
  <2>4. QED
    BY <2>1, <2>2, <2>3 DEF SessionInv
<1>11. /\ Frames(s) /\ RowsRemain /\ LinksStay(s)
       /\ Settled(parent, Parent)' /\ Settled(link, Link)' /\ Settled(tag, Tag)'
  BY <1>4, SameTable DEF Frames, RowsRemain, LinksStay, IInv, Settled
<1>12. DeletedHaveNoTags' /\ NoOrphans' /\ OnePromotion' /\ DroppedIsKnown'
  BY <1>4 DEF IInv, DeletedHaveNoTags, NoOrphans, OnePromotion, DroppedIsKnown
<1>13. StampsAreNew'
  <2>1. \A u \in Session : pc[u] # "idle" => request[u].at \in Nat /\ request[u].at <= served + 1
    BY <1>1 DEF AtItsOperation, Asks
  <2>2. \A u \in Session \ {s} : pc'[u] = pc[u] /\ request'[u] = request[u]
    BY <1>7 DEF OnlyMoves
  <2>3. /\ \A l \in Link : link.row[l] \in Nat =>
             /\ link.row[l] <= served + 1
             /\ \A u \in Session : pc[u] # "idle" => link.row[l] # request[u].at
        /\ \A u, v \in Session : u # v /\ pc[u] # "idle" /\ pc[v] # "idle" =>
             request[u].at # request[v].at
    BY DEF IInv, StampsAreNew
  <2>4. \A u \in Session : pc'[u] # "idle" =>
          IF u = s THEN request'[u].at = served + 2
          ELSE request'[u].at = request[u].at /\ request[u].at <= served + 1 /\ request[u].at \in Nat
    BY <1>5, <1>6, <2>1, <2>2
  <2>5. ASSUME NEW l \in Link, link.row[l] \in Nat
        PROVE  /\ link.row[l] <= served + 2
               /\ \A u \in Session : pc'[u] # "idle" => link.row[l] # request'[u].at
    BY <1>1, <2>2, <2>3, <2>4, <2>5
  <2>6. \A u, v \in Session : u # v /\ pc'[u] # "idle" /\ pc'[v] # "idle" =>
          request'[u].at # request'[v].at
    BY <1>1, <2>2, <2>3, <2>4
  <2>7. QED
    BY <1>1, <1>4, <2>5, <2>6 DEF StampsAreNew
<1>14. QED
  BY <1>6, <1>7, <1>8, <1>10, <1>11, <1>12, <1>13, StepOf

-----------------------------------------------------------------------------
(* Steps that write no table.                                                *)

LEMMA Moves ==
  ASSUME IInv, NEW s \in Session, NEW step \in Steps,
         NEW a \in SUBSET Tag, NEW w \in SUBSET (Link \cup Parent),
         pc' \in {pc, [pc EXCEPT ![s] = step]}, attach' \in {attach, [attach EXCEPT ![s] = a]},
         todo' \in {todo, [todo EXCEPT ![s] = w]}, UNCHANGED <<request, dropped, served>>
  PROVE  /\ OnlyMoves(s)
         /\ /\ parent' \in Tables(Parent, ParentRow \cup {Missing})
            /\ tag' \in Tables(Tag, TagRow \cup {Missing})
            /\ link' \in Tables(Link, Time \cup {Missing})
            => TypeOK'
<1>1. TypeOK /\ served \in Nat
  BY DEF IInv, TypeOK
<1>2. /\ pc' \in [Session -> Steps] /\ attach' \in [Session -> SUBSET Tag]
      /\ todo' \in [Session -> SUBSET (Link \cup Parent)]
  BY <1>1 DEF TypeOK
<1>3. OnlyMoves(s)
  BY <1>1 DEF TypeOK, OnlyMoves
<1>4. QED
  BY <1>1, <1>2, <1>3 DEF TypeOK

(* Until the junctions are reached, a session has none of them locked.       *)
LEMMA NoLinks ==
  ASSUME NEW s \in Session, LocksAreKnown(s),
         \/ pc[s] \notin {"visit_links", "add_links", "close", "select_links",
                          "bump_parents", "commit"}
         \/ pc[s] = "select_links" /\ request[s].op # "promote_inbox_item"
  PROVE  \A l \in Link : link.lock[l] # s
  BY DEF LocksAreKnown, Touched, Closed

LEMMA ReadDraftStep ==
  ASSUME IInv, NEW s \in Session, ReadDraft(s) PROVE IInv'
<1> DEFINE q == request[s]
<1>1. pc[s] = "read" /\ SessionInv(s)
  BY DEF ReadDraft, IInv
<1>2. CASE Refuse(s, ~ Active(parent.row[q.id]))
  BY <1>1, <1>2, AbandonStep DEF Refuse
<1>3. CASE /\ Active(parent.row[q.id]) /\ Goto(s, "dismiss")
           /\ UNCHANGED <<parent, tag, link, attach, todo>>
  <2>1. OnlyMoves(s) /\ TypeOK'
    <3>1. "dismiss" \in Steps
      BY DEF Steps
    <3>2. QED
      BY <1>3, <3>1, Moves, Typed DEF Goto
  <2>2. pc'[s] = "dismiss" /\ request' = request
    BY <1>3 DEF Goto, IInv, TypeOK
  <2>3. Asks(q) /\ q.op = "delete_inbox_item" /\ \A l \in Link : link.lock[l] # s
    BY <1>1, Stations, NoLinks DEF SessionInv
  <2>4. AtItsOperation(s)'
    BY <1>1, <1>3, <2>2, <2>3 DEF SessionInv, AtItsOperation, StepsOf, Goto, Asks,
                                  Creates, Updates
  <2>5. HoldsItsRows(s)'
    BY <1>3, <2>2, <2>3 DEF HoldsItsRows, Before, Active
  <2>6. LocksAreKnown(s)'
    BY <1>1, <1>3, <2>2, <2>3 DEF SessionInv, LocksAreKnown, Uncommitted
  <2>7. CascadeIsComplete(s)' /\ PromotionIsComplete(s)' /\ WorkIsKnown(s)'
    BY <2>2, <2>3 DEF CascadeIsComplete, PromotionIsComplete, WorkIsKnown
  <2>8. QED
    BY <1>1, <1>3, <2>1, <2>2, <2>4, <2>5, <2>6, <2>7, LocalStep DEF SessionInv, Goto
<1>4. QED
  BY <1>2, <1>3 DEF ReadDraft

LEMMA CheckTagsStep ==
  ASSUME IInv, NEW s \in Session, CheckTags(s) PROVE IInv'
<1> DEFINE q == request[s]
           w == {Synced(q)} \X attach[s]
<1>1. pc[s] = "check_tags" /\ SessionInv(s)
  BY DEF CheckTags, IInv
<1>2. CASE Refuse(s, ~ ValidTags(s))
  BY <1>1, <1>2, AbandonStep DEF Refuse
<1>3. Asks(q) /\ (q.op \in Creates \cup Updates \cup {"promote_inbox_item"})
      /\ \A l \in Link : link.lock[l] # s
  BY <1>1, Stations, NoLinks DEF SessionInv
<1>4. CASE /\ q.op \in Updates /\ Goto(s, "select_links")
           /\ UNCHANGED <<parent, tag, link, attach, todo>>
  <2>1. OnlyMoves(s) /\ TypeOK'
    <3>1. "select_links" \in Steps
      BY DEF Steps
    <3>2. QED
      BY <1>4, <3>1, Moves, Typed DEF Goto
  <2>2. pc'[s] = "select_links" /\ request' = request
    BY <1>4 DEF Goto, IInv, TypeOK
  <2>3. AtItsOperation(s)'
    BY <1>1, <1>3, <1>4, <2>2 DEF SessionInv, AtItsOperation, StepsOf, Goto, Asks,
                                  Creates, Updates
  <2>4. HoldsItsRows(s)'
    BY <1>1, <1>4, <2>2 DEF SessionInv, HoldsItsRows, Before, Updates
  <2>5. LocksAreKnown(s)'
    BY <1>1, <1>3, <1>4, <2>2 DEF SessionInv, LocksAreKnown, Uncommitted, Updates
  <2>6. CascadeIsComplete(s)' /\ PromotionIsComplete(s)' /\ WorkIsKnown(s)'
    BY <1>4, <2>2 DEF CascadeIsComplete, PromotionIsComplete, WorkIsKnown, Updates
  <2>7. QED
    BY <1>1, <1>4, <2>1, <2>2, <2>3, <2>4, <2>5, <2>6, LocalStep DEF SessionInv, Goto
<1>5. CASE /\ q.op \in Creates \cup {"promote_inbox_item"} /\ Goto(s, "add_links")
           /\ todo' = [todo EXCEPT ![s] = w] /\ UNCHANGED <<parent, tag, link, attach>>
  <2>1. w \in SUBSET (Link \cup Parent)
    <3>1. Synced(q) \in Parent
      BY <1>3, <1>5, OwnRows DEF Synced
    <3>2. attach[s] \subseteq Tag
      BY DEF IInv, TypeOK
    <3>3. QED
      BY <3>1, <3>2 DEF Link
  <2>2. OnlyMoves(s) /\ TypeOK'
    <3>1. "add_links" \in Steps
      BY DEF Steps
    <3>2. QED
      BY <1>5, <2>1, <3>1, Moves, Typed DEF Goto
  <2>3. pc'[s] = "add_links" /\ request' = request /\ todo'[s] = w
    BY <1>5 DEF Goto, IInv, TypeOK
  <2>4. AtItsOperation(s)'
    BY <1>1, <1>3, <1>5, <2>3 DEF SessionInv, AtItsOperation, StepsOf, Goto, Asks,
                                  Creates, Updates
  <2>5. HoldsItsRows(s)'
    BY <1>1, <1>5, <2>3 DEF SessionInv, HoldsItsRows, Before
  <2>6. LocksAreKnown(s)'
    BY <1>1, <1>3, <1>5, <2>3 DEF SessionInv, LocksAreKnown, Uncommitted, Closed
  <2>7. CascadeIsComplete(s)' /\ WorkIsKnown(s)'
    BY <1>5, <2>3 DEF CascadeIsComplete, WorkIsKnown
  <2>8. PromotionIsComplete(s)'
    BY <1>1, <1>5, <2>3 DEF SessionInv, PromotionIsComplete, Closed, Synced
  <2>9. QED
    BY <1>1, <1>5, <2>2, <2>3, <2>4, <2>5, <2>6, <2>7, <2>8, LocalStep DEF SessionInv, Goto
<1>6. QED
  BY <1>2, <1>3, <1>4, <1>5 DEF CheckTags, Updates

LEMMA ReadTagStep ==
  ASSUME IInv, NEW s \in Session, ReadTag(s) PROVE IInv'
<1> DEFINE q == request[s]
           found == tag.row[q.id] = (IF q.op = "delete_hashtag" THEN "active" ELSE "deleted")
           next == IF q.op = "delete_hashtag" THEN "select_links" ELSE "restore_tag"
<1>1. pc[s] = "read_tag" /\ SessionInv(s)
  BY DEF ReadTag, IInv
<1>2. CASE Refuse(s, ~ found)
  BY <1>1, <1>2, AbandonStep DEF Refuse
<1>3. CASE Goto(s, next) /\ UNCHANGED <<parent, tag, link, attach, todo>>
  <2>1. OnlyMoves(s) /\ TypeOK'
    <3>1. next \in Steps
      BY DEF Steps
    <3>2. QED
      BY <1>3, <3>1, Moves, Typed DEF Goto
  <2>2. pc'[s] = next /\ request' = request
    BY <1>3 DEF Goto, IInv, TypeOK
  <2>3. /\ Asks(q) /\ q.op \in {"delete_hashtag", "restore_hashtag"}
        /\ \A l \in Link : link.lock[l] # s
    BY <1>1, Stations, NoLinks DEF SessionInv
  <2>4. AtItsOperation(s)'
    BY <1>1, <1>3, <2>2, <2>3 DEF SessionInv, AtItsOperation, StepsOf, Goto, Asks,
                                  Creates, Updates
  <2>5. HoldsItsRows(s)'
    BY <2>2, <2>3 DEF HoldsItsRows, OfLedger, OfDrafts
  <2>6. LocksAreKnown(s)'
    BY <1>1, <1>3, <2>2, <2>3 DEF SessionInv, LocksAreKnown, Uncommitted
  <2>7. CascadeIsComplete(s)' /\ PromotionIsComplete(s)' /\ WorkIsKnown(s)'
    BY <2>2, <2>3 DEF CascadeIsComplete, PromotionIsComplete, WorkIsKnown
  <2>8. QED
    BY <1>1, <1>3, <2>1, <2>2, <2>4, <2>5, <2>6, <2>7, LocalStep DEF SessionInv, Goto
<1>4. QED
  BY <1>2, <1>3 DEF ReadTag

LEMMA SelectLinksStep ==
  ASSUME IInv, NEW s \in Session, SelectLinks(s) PROVE IInv'
<1> DEFINE q == request[s]
           w == {l \in Link : Matches(s, l)}
<1>1. /\ pc[s] = "select_links" /\ SessionInv(s)
      /\ todo' = [todo EXCEPT ![s] = w] /\ Goto(s, "visit_links")
      /\ UNCHANGED <<parent, tag, link, attach>>
  BY DEF SelectLinks, IInv
<1>2. OnlyMoves(s) /\ TypeOK'
  <2>1. "visit_links" \in Steps /\ w \in SUBSET (Link \cup Parent)
    BY DEF Steps
  <2>2. QED
    BY <1>1, <2>1, Moves, Typed DEF Goto
<1>3. pc'[s] = "visit_links" /\ request' = request /\ todo'[s] = w
  BY <1>1 DEF Goto, IInv, TypeOK
<1>4. Asks(q) /\ q.op \in Updates \cup Cascading \cup {"delete_hashtag"}
  BY <1>1, Stations DEF SessionInv
<1>5. AtItsOperation(s)'
  BY <1>1, <1>3, <1>4 DEF SessionInv, AtItsOperation, StepsOf, Goto, Asks,
                          Creates, Updates, Deletes, Cascading
<1>6. HoldsItsRows(s)'
  BY <1>1, <1>3 DEF SessionInv, HoldsItsRows, Before
<1>7. LocksAreKnown(s)'
  <2>1. ASSUME NEW l \in Link, link.lock[l] = s PROVE Touched(s, l)'
    <3>1. q.op = "promote_inbox_item"
      BY <1>1, <2>1, NoLinks DEF SessionInv
    <3>2. Touched(s, l)
      BY <1>1, <2>1 DEF SessionInv, LocksAreKnown
    <3>3. QED
      BY <1>1, <1>3, <3>1, <3>2 DEF Touched, Closed, Creates, Updates, Deletes
  <2>2. ASSUME NEW p \in Parent, parent.lock[p] = s PROVE Uncommitted(s, p)'
    BY <1>1, <1>3, <2>2 DEF SessionInv, LocksAreKnown, Uncommitted, Closed
  <2>3. QED
    BY <1>1, <2>1, <2>2 DEF LocksAreKnown
<1>8. CascadeIsComplete(s)'
  <2>1. SUFFICES ASSUME q.op \in Cascading, NEW h \in Tag,
                        link.row[<<q.id, h>>] = Due(s), link.lock[<<q.id, h>>] # s
                 PROVE  <<q.id, h>> \in w
    BY <1>1, <1>3 DEF CascadeIsComplete, Due
  <2> DEFINE l == <<q.id, h>>
  <2>2. l \in Link /\ l[1] = q.id /\ l[2] = h
    BY <1>4, <2>1, OwnRows, LinkFacts
  <2>3. Visible(link, s, l) = Due(s)
    BY <2>1 DEF Visible
  <2>4. Kept(s) = {}
    BY <1>1, <1>4, <2>1 DEF SessionInv, AtItsOperation, Kept, Cascading, Deletes, Creates,
                            Updates
  <2>5. q.op # "delete_hashtag"
    BY <2>1 DEF Cascading, Deletes
  <2>6. Matches(s, l)
    BY <2>2, <2>3, <2>4, <2>5 DEF Matches, Due
  <2>7. QED
    BY <2>2, <2>6
<1>9. PromotionIsComplete(s)'
  BY <1>1, <1>3 DEF SessionInv, PromotionIsComplete, Closed
<1>10. WorkIsKnown(s)'
  BY <1>3 DEF WorkIsKnown
<1>11. QED
  BY <1>1, <1>2, <1>3, <1>5, <1>6, <1>7, <1>8, <1>9, <1>10, LocalStep DEF SessionInv, Goto

LEMMA LinksVisitedStep ==
  ASSUME IInv, NEW s \in Session, LinksVisited(s) PROVE IInv'
<1> DEFINE q == request[s]
<1>1. /\ pc[s] = "visit_links" /\ SessionInv(s) /\ todo[s] = {}
      /\ UNCHANGED <<parent, tag, link, attach>>
  BY DEF LinksVisited, IInv
<1>2. Asks(q) /\ q.op \in Updates \cup Cascading \cup {"delete_hashtag"}
  BY <1>1, Stations DEF SessionInv
<1>3. PICK next \in {"bump_parents", "add_links", "commit"},
           w \in SUBSET (Link \cup Parent) :
        /\ Goto(s, next) /\ todo' \in {todo, [todo EXCEPT ![s] = w]}
        /\ next = "bump_parents" =>
             q.op = "delete_hashtag" /\ todo' = [todo EXCEPT ![s] = w] /\ w = Affected(s)
        /\ next = "add_links" =>
             q.op \in Updates /\ todo' = [todo EXCEPT ![s] = w] /\ w = {q.id} \X attach[s]
        /\ next = "commit" => q.op # "delete_hashtag" /\ todo' = todo
  <2>1. CASE q.op = "delete_hashtag" /\ todo' = [todo EXCEPT ![s] = Affected(s)]
             /\ Goto(s, "bump_parents")
    <3>1. Affected(s) \in SUBSET (Link \cup Parent)
      BY DEF Affected
    <3>2. QED
      BY <2>1, <3>1
  <2>2. CASE q.op \in Updates /\ todo' = [todo EXCEPT ![s] = {q.id} \X attach[s]]
             /\ Goto(s, "add_links")
    <3>1. q.id \in Parent /\ attach[s] \subseteq Tag
      BY <1>2, <2>2, OwnRows DEF IInv, TypeOK
    <3>2. {q.id} \X attach[s] \in SUBSET (Link \cup Parent)
      BY <3>1 DEF Link
    <3>3. QED
      BY <2>2, <3>2
  <2>3. CASE q.op # "delete_hashtag" /\ Goto(s, "commit") /\ UNCHANGED todo
    <3>1. {} \in SUBSET (Link \cup Parent)
      OBVIOUS
    <3>2. QED
      BY <2>3, <3>1
  <2>4. QED
    BY <2>1, <2>2, <2>3 DEF LinksVisited, Updates
<1>4. OnlyMoves(s) /\ TypeOK'
  <2>1. next \in Steps
    BY DEF Steps
  <2>2. QED
    BY <1>1, <1>3, <2>1, Moves, Typed DEF Goto
<1>5. /\ pc'[s] = next /\ request' = request
      /\ next \in {"bump_parents", "add_links"} => todo'[s] = w
  BY <1>3 DEF Goto, IInv, TypeOK
<1>6. AtItsOperation(s)'
  BY <1>1, <1>2, <1>3, <1>5 DEF SessionInv, AtItsOperation, StepsOf, Goto, Asks,
                          Creates, Updates, Deletes, Cascading
<1>7. HoldsItsRows(s)'
  BY <1>1, <1>5 DEF SessionInv, HoldsItsRows, Before
<1>8. LocksAreKnown(s)'
  <2>1. ASSUME NEW l \in Link, link.lock[l] = s PROVE Touched(s, l)'
    <3>1. Touched(s, l)
      BY <1>1, <2>1 DEF SessionInv, LocksAreKnown
    <3>2. q.op = "delete_hashtag" => next = "bump_parents" /\ l[1] \in w
      BY <1>2, <1>3, <2>1, LinkFacts DEF Affected, Updates
    <3>3. CASE q.op = "delete_hashtag"
      BY <1>1, <1>3, <1>5, <3>1, <3>2, <3>3 DEF Touched, Creates, Updates, Deletes
    <3>4. CASE q.op # "delete_hashtag"
      BY <1>1, <1>2, <1>3, <1>5, <3>1, <3>4 DEF Touched, Closed, Creates, Updates, Deletes,
                                                Cascading
    <3>5. QED
      BY <3>3, <3>4
  <2>2. ASSUME NEW p \in Parent, parent.lock[p] = s PROVE Uncommitted(s, p)'
    BY <1>1, <1>2, <1>3, <1>5, <2>2 DEF SessionInv, LocksAreKnown, Uncommitted, Closed, Updates
  <2>3. QED
    BY <1>1, <2>1, <2>2 DEF LocksAreKnown
<1>9. CascadeIsComplete(s)'
  BY <1>1, <1>3, <1>5 DEF SessionInv, CascadeIsComplete, Due
<1>10. PromotionIsComplete(s)'
  BY <1>1, <1>3, <1>5 DEF SessionInv, PromotionIsComplete, Closed, Updates
<1>11. WorkIsKnown(s)'
  <2>1. q.op \in Updates => Synced(q) = q.id
    BY DEF Synced, Updates
  <2>2. Affected(s)' = Affected(s)
    BY <1>1 DEF Affected
  <2>3. QED
    BY <1>1, <1>3, <1>5, <2>1, <2>2 DEF WorkIsKnown
<1>12. QED
  BY <1>1, <1>3, <1>4, <1>5, <1>6, <1>7, <1>8, <1>9, <1>10, <1>11, LocalStep
     DEF SessionInv, Goto

LEMMA LinksAddedStep ==
  ASSUME IInv, NEW s \in Session, LinksAdded(s) PROVE IInv'
<1> DEFINE q == request[s]
           next == IF q.op = "promote_inbox_item" THEN "close" ELSE "commit"
<1>1. /\ pc[s] = "add_links" /\ SessionInv(s) /\ todo[s] = {} /\ Goto(s, next)
      /\ UNCHANGED <<parent, tag, link, attach, todo>>
  BY DEF LinksAdded, IInv
<1>2. Asks(q) /\ q.op \in Creates \cup Updates \cup {"promote_inbox_item"}
  BY <1>1, Stations DEF SessionInv
<1>3. OnlyMoves(s) /\ TypeOK'
  <2>1. next \in Steps
    BY DEF Steps
  <2>2. QED
    BY <1>1, <2>1, Moves, Typed DEF Goto
<1>4. pc'[s] = next /\ request' = request
  BY <1>1 DEF Goto, IInv, TypeOK
<1>5. AtItsOperation(s)'
  BY <1>1, <1>2, <1>4 DEF SessionInv, AtItsOperation, StepsOf, Goto, Asks, Creates, Updates
<1>6. HoldsItsRows(s)'
  BY <1>1, <1>4 DEF SessionInv, HoldsItsRows, Before
<1>7. LocksAreKnown(s)'
  <2>1. ASSUME NEW l \in Link, link.lock[l] = s PROVE Touched(s, l)'
    <3>1. Touched(s, l)
      BY <1>1, <2>1 DEF SessionInv, LocksAreKnown
    <3>2. QED
      BY <1>1, <1>2, <1>4, <3>1 DEF Touched, Creates, Updates, Deletes
  <2>2. ASSUME NEW p \in Parent, parent.lock[p] = s PROVE Uncommitted(s, p)'
    BY <1>1, <1>2, <1>4, <2>2 DEF SessionInv, LocksAreKnown, Uncommitted, Closed, Creates,
                                  Updates
  <2>3. QED
    BY <1>1, <2>1, <2>2 DEF LocksAreKnown
<1>8. CascadeIsComplete(s)' /\ WorkIsKnown(s)'
  BY <1>2, <1>4 DEF CascadeIsComplete, WorkIsKnown, Creates, Updates, Cascading, Deletes
<1>9. PromotionIsComplete(s)'
  BY <1>1, <1>4 DEF SessionInv, PromotionIsComplete
<1>10. QED
  BY <1>1, <1>3, <1>4, <1>5, <1>6, <1>7, <1>8, <1>9, LocalStep DEF SessionInv, Goto

-----------------------------------------------------------------------------
(* The last statement on a hashtag.                                          *)

LEMMA TagWrite ==
  ASSUME IInv, NEW s \in Session, NEW v \in TagRow, Free(tag, s, request[s].id),
         pc[s] \in {"insert_tag", "restore_tag", "bump_parents"},
         pc[s] = "bump_parents" => todo[s] = {},
         tag' = WriteRow(tag, s, request[s].id, v), Goto(s, "commit"),
         UNCHANGED <<parent, link, attach, todo>>
  PROVE  IInv'
<1> DEFINE q == request[s]
<1>1. SessionInv(s)
  BY DEF IInv
<1>2. /\ Asks(q) /\ q.op \in OfTags /\ q.id \in Tag
      /\ pc[s] = "bump_parents" <=> q.op = "delete_hashtag"
  <2>1. Asks(q) /\ q.op \in OfTags /\ (pc[s] = "bump_parents" => q.op = "delete_hashtag")
    BY <1>1, Stations DEF SessionInv, OfTags
  <2>2. q.op = "delete_hashtag" => pc[s] = "bump_parents"
    BY <1>1, Stations DEF SessionInv
  <2>3. QED
    BY <2>1, <2>2, OwnRows
<1>3. /\ tag' \in Tables(Tag, TagRow \cup {Missing}) /\ Settled(tag', Tag)
  BY <1>2, Typed, WriteFacts
<1>4. OnlyMoves(s) /\ TypeOK'
  <2>1. "commit" \in Steps
    BY DEF Steps
  <2>2. QED
    BY <1>3, <2>1, Moves, Typed DEF Goto
<1>5. pc'[s] = "commit" /\ request' = request
  BY DEF Goto, IInv, TypeOK
<1>6. AtItsOperation(s)'
  BY <1>1, <1>2, <1>5 DEF SessionInv, AtItsOperation, StepsOf, Goto, Asks, OfTags, Creates,
                          Updates
<1>7. HoldsItsRows(s)'
  BY <1>2, <1>5 DEF HoldsItsRows, OfTags, OfLedger, OfDrafts
<1>8. LocksAreKnown(s)'
  <2>1. ASSUME NEW l \in Link, link.lock[l] = s PROVE Touched(s, l)'
    <3>1. pc[s] = "bump_parents" /\ Touched(s, l)
      BY <1>1, <2>1, NoLinks DEF SessionInv, LocksAreKnown
    <3>2. QED
      BY <1>2, <1>5, <3>1 DEF Touched, Creates, Updates, Deletes
  <2>2. ASSUME NEW p \in Parent, parent.lock[p] = s PROVE Uncommitted(s, p)'
    BY <1>1, <1>2, <1>5, <2>2 DEF SessionInv, LocksAreKnown, Uncommitted, OfTags
  <2>3. QED
    BY <2>1, <2>2 DEF LocksAreKnown
<1>9. CascadeIsComplete(s)' /\ PromotionIsComplete(s)' /\ WorkIsKnown(s)'
  BY <1>2, <1>5 DEF CascadeIsComplete, PromotionIsComplete, WorkIsKnown, Cascading, Deletes,
                    OfTags
<1>10. Frames(s) /\ Settled(parent, Parent)' /\ Settled(link, Link)'
  BY SameTable, Typed DEF Frames, Settled
<1>11. QED
  BY <1>3, <1>4, <1>5, <1>6, <1>7, <1>8, <1>9, <1>10, UncommittedStep
     DEF SessionInv, Goto, Settled

LEMMA InsertTagStep ==
  ASSUME IInv, NEW s \in Session, InsertTag(s) PROVE IInv'
<1> DEFINE h == request[s].id
<1>1. CASE Refuse(s, tag.row[h] # Missing)
  BY <1>1, AbandonStep DEF Refuse, InsertTag
<1>2. CASE /\ tag.row[h] = Missing /\ Free(tag, s, h)
           /\ tag' = WriteRow(tag, s, h, "active")
           /\ Goto(s, "commit") /\ UNCHANGED <<parent, link, attach, todo>>
  BY <1>2, TagWrite DEF InsertTag, TagRow
<1>3. QED
  BY <1>1, <1>2 DEF InsertTag

LEMMA RestoreTagStep ==
  ASSUME IInv, NEW s \in Session, RestoreTag(s) PROVE IInv'
<1> DEFINE h == request[s].id
<1>1. CASE Refuse(s, tag.row[h] # "deleted")
  BY <1>1, AbandonStep DEF Refuse, RestoreTag
<1>2. CASE /\ tag.row[h] = "deleted" /\ Free(tag, s, h)
           /\ tag' = WriteRow(tag, s, h, "active")
           /\ Goto(s, "commit") /\ UNCHANGED <<parent, link, attach, todo>>
  BY <1>2, TagWrite DEF RestoreTag, TagRow
<1>3. QED
  BY <1>1, <1>2 DEF RestoreTag

LEMMA DeleteTagStep ==
  ASSUME IInv, NEW s \in Session, DeleteTag(s) PROVE IInv'
  BY TagWrite DEF DeleteTag, TagRow

-----------------------------------------------------------------------------
(* Statements on a parent.                                                   *)

(* UPDATE or INSERT of the row p, up to the next statement. *)
LEMMA ParentWrite ==
  ASSUME IInv, NEW s \in Session, pc[s] # "idle", NEW p \in Parent, NEW v \in ParentRow,
         Free(parent, s, p), parent' = WriteRow(parent, s, p, v),
         NEW step \in Steps, NEW a \in SUBSET Tag, NEW w \in SUBSET (Link \cup Parent),
         pc' \in {pc, [pc EXCEPT ![s] = step]}, attach' \in {attach, [attach EXCEPT ![s] = a]},
         todo' \in {todo, [todo EXCEPT ![s] = w]},
         UNCHANGED <<tag, link, request, dropped, served>>
  PROVE  /\ parent'.row = parent.row
         /\ \A x \in Parent : /\ parent'.latest[x] = IF x = p THEN v ELSE parent.latest[x]
                              /\ parent'.lock[x] = IF x = p THEN s ELSE parent.lock[x]
         /\ SessionInv(s)' => IInv'
<1>1. /\ parent' \in Tables(Parent, ParentRow \cup {Missing}) /\ Settled(parent', Parent)
      /\ FrameOf(parent, parent', s, Parent) /\ parent'.row = parent.row
      /\ \A x \in Parent : /\ parent'.latest[x] = IF x = p THEN v ELSE parent.latest[x]
                           /\ parent'.lock[x] = IF x = p THEN s ELSE parent.lock[x]
  BY Typed, WriteFacts
<1>2. OnlyMoves(s) /\ TypeOK'
  BY <1>1, Moves, Typed
<1>3. Frames(s) /\ Settled(link, Link)' /\ Settled(tag, Tag)'
  BY <1>1, SameTable, Typed DEF Frames, Settled
<1>4. SessionInv(s)' => IInv'
  BY <1>1, <1>2, <1>3, UncommittedStep DEF Settled
<1>5. QED
  BY <1>1, <1>4

LEMMA CreateStep ==
  ASSUME IInv, NEW s \in Session, Create(s) PROVE IInv'
<1> DEFINE q == request[s]
           next == IF attach[s] = {} THEN "commit" ELSE "check_tags"
<1>1. pc[s] = "insert" /\ SessionInv(s)
  BY DEF Create, Insert, IInv
<1>2. CASE Refuse(s, parent.row[q.id] # Missing)
  BY <1>1, <1>2, AbandonStep DEF Refuse
<1>3. CASE /\ parent.row[q.id] = Missing /\ Free(parent, s, q.id)
           /\ parent' = WriteRow(parent, s, q.id, Row(Null, Null))
           /\ Goto(s, next) /\ UNCHANGED <<tag, link, attach, todo>>
  <2>1. /\ Asks(q) /\ q.op \in Creates /\ q.id \in Parent
        /\ \A l \in Link : link.lock[l] # s
    BY <1>1, Stations, NoLinks, OwnRows DEF SessionInv
  <2>2. Row(Null, Null) \in ParentRow /\ next \in Steps
    BY RowFacts DEF Steps
  <2>3. pc'[s] = next /\ request' = request /\ pc' = [pc EXCEPT ![s] = next]
        /\ UNCHANGED <<tag, link, attach, todo, request, dropped, served>>
    BY <1>3 DEF Goto, IInv, TypeOK
  <2>4. {} \in SUBSET Tag /\ {} \in SUBSET (Link \cup Parent)
    OBVIOUS
  <2> HIDE DEF next
  <2>5. /\ parent'.row = parent.row
        /\ \A x \in Parent :
             /\ parent'.latest[x] = IF x = q.id THEN Row(Null, Null) ELSE parent.latest[x]
             /\ parent'.lock[x] = IF x = q.id THEN s ELSE parent.lock[x]
        /\ SessionInv(s)' => IInv'
    BY <1>1, <1>3, <2>1, <2>2, <2>3, <2>4, ParentWrite
  <2> USE DEF next
  <2>6. AtItsOperation(s)'
    BY <1>1, <2>1, <2>3 DEF SessionInv, AtItsOperation, StepsOf, Asks, Creates, Updates
  <2>7. HoldsItsRows(s)'
    BY <2>1, <2>3, <2>5 DEF HoldsItsRows, Creates
  <2>8. LocksAreKnown(s)'
    BY <1>1, <1>3, <2>1, <2>3, <2>5 DEF SessionInv, LocksAreKnown, Uncommitted, Creates
  <2>9. CascadeIsComplete(s)' /\ PromotionIsComplete(s)' /\ WorkIsKnown(s)'
    BY <2>1, <2>3 DEF CascadeIsComplete, PromotionIsComplete, WorkIsKnown, Cascading, Deletes,
                      Creates
  <2>10. QED
    BY <2>5, <2>6, <2>7, <2>8, <2>9 DEF SessionInv
<1>4. QED
  BY <1>2, <1>3 DEF Create, Insert

LEMMA InsertLedgerStep ==
  ASSUME IInv, NEW s \in Session, InsertLedger(s) PROVE IInv'
<1> DEFINE q == request[s]
           next == IF attach[s] = {} THEN "close" ELSE "check_tags"
<1>1. pc[s] = "insert_ledger" /\ SessionInv(s)
  BY DEF InsertLedger, Insert, IInv
<1>2. CASE Refuse(s, parent.row[q.to] # Missing)
  BY <1>1, <1>2, AbandonStep DEF Refuse
<1>3. CASE /\ parent.row[q.to] = Missing /\ Free(parent, s, q.to)
           /\ parent' = WriteRow(parent, s, q.to, Row(Null, q.id))
           /\ Goto(s, next) /\ UNCHANGED <<tag, link, attach, todo>>
  <2>1. /\ Asks(q) /\ q.op = "promote_inbox_item" /\ q.id \in Draft /\ q.id \in Parent
        /\ q.to \in Parent /\ q.id # q.to /\ \A l \in Link : link.lock[l] # s
    BY <1>1, Stations, NoLinks, OwnRows DEF SessionInv, Cascading
  <2>2. Row(Null, q.id) \in ParentRow /\ next \in Steps
    BY <2>1, RowFacts DEF Steps
  <2>3. pc'[s] = next /\ request' = request /\ pc' = [pc EXCEPT ![s] = next]
        /\ UNCHANGED <<tag, link, attach, todo, request, dropped, served>>
    BY <1>3 DEF Goto, IInv, TypeOK
  <2>4. {} \in SUBSET Tag /\ {} \in SUBSET (Link \cup Parent)
    OBVIOUS
  <2> HIDE DEF next
  <2>5. /\ parent'.row = parent.row
        /\ \A x \in Parent :
             /\ parent'.latest[x] = IF x = q.to THEN Row(Null, q.id) ELSE parent.latest[x]
             /\ parent'.lock[x] = IF x = q.to THEN s ELSE parent.lock[x]
        /\ SessionInv(s)' => IInv'
    BY <1>1, <1>3, <2>1, <2>2, <2>3, <2>4, ParentWrite
  <2> USE DEF next
  <2>6. AtItsOperation(s)'
    BY <1>1, <2>1, <2>3 DEF SessionInv, AtItsOperation, StepsOf, Asks, Creates, Updates
  <2>7. HoldsItsRows(s)'
    BY <1>1, <2>1, <2>3, <2>5 DEF SessionInv, HoldsItsRows, Before
  <2>8. LocksAreKnown(s)'
    BY <1>1, <1>3, <2>1, <2>3, <2>5 DEF SessionInv, LocksAreKnown, Uncommitted, Closed
  <2>9. CascadeIsComplete(s)' /\ WorkIsKnown(s)'
    BY <2>1, <2>3 DEF CascadeIsComplete, WorkIsKnown
  <2>10. PromotionIsComplete(s)'
    BY <1>1, <2>1, <2>3 DEF SessionInv, PromotionIsComplete, Closed
  <2>11. QED
    BY <2>5, <2>6, <2>7, <2>8, <2>9, <2>10 DEF SessionInv
<1>4. QED
  BY <1>2, <1>3 DEF InsertLedger, Insert

LEMMA WrittenFacts ==
  ASSUME NEW q, NEW v, Asks(q), Found(q, v), v \in ParentRow \cup {Missing},
         q.op \in Updates \cup {"delete_transaction", "restore_transaction", "promote_inbox_item"}
  PROVE  /\ v \in ParentRow /\ Written(q, v) \in ParentRow
         /\ q.op \in Updates => Active(v) /\ Written(q, v) = Bumped(v)
         /\ q.op = "delete_transaction" => Active(v) /\ Written(q, v) = DeletedAt(v, q.at)
         /\ q.op = "restore_transaction" => Buried(v) /\ Written(q, v) = DeletedAt(v, Null)
         /\ q.op = "promote_inbox_item" => Active(v) /\ ~ v.promoted /\ Written(q, v) = v
<1>1. v \in ParentRow
  BY DEF Found, Active, Buried
<1>2. /\ q.op \in Updates => Active(v) /\ Written(q, v) = Bumped(v)
      /\ q.op = "delete_transaction" => Active(v) /\ Written(q, v) = DeletedAt(v, q.at)
      /\ q.op = "restore_transaction" => Buried(v) /\ Written(q, v) = DeletedAt(v, Null)
      /\ q.op = "promote_inbox_item" => Active(v) /\ ~ v.promoted /\ Written(q, v) = v
  BY DEF Found, Written, Updates
<1>3. q.at \in Time /\ Null \in Time
  BY OwnRows DEF Time
<1>4. Bumped(v) \in ParentRow /\ DeletedAt(v, q.at) \in ParentRow /\ DeletedAt(v, Null) \in ParentRow
  BY <1>1, <1>3, BumpedFacts, DeletedAtFacts
<1>5. QED
  BY <1>1, <1>2, <1>4

LEMMA AfterLockFacts ==
  ASSUME NEW q,
         q.op \in Updates \cup {"delete_transaction", "restore_transaction", "promote_inbox_item"}
  PROVE  /\ AfterLock(q) \in StepsOf(q.op) /\ AfterLock(q) \in Steps
         /\ AfterLock(q) \in {"insert_ledger", "select_links", "commit", "check_tags"}
         /\ q.op = "promote_inbox_item" <=> AfterLock(q) = "insert_ledger"
         /\ q.op \notin Updates => AfterLock(q) \in {"insert_ledger", "select_links"}
<1>1. CASE q.op \in Updates
  <2>1. AfterLock(q) \in {"select_links", "commit", "check_tags"}
    BY <1>1 DEF AfterLock, Updates
  <2>2. {"select_links", "commit", "check_tags"} \subseteq StepsOf(q.op)
    BY <1>1 DEF StepsOf, Updates, Creates
  <2>3. QED
    BY <1>1, <2>1, <2>2 DEF Updates, Steps
<1>2. CASE q.op \in {"delete_transaction", "restore_transaction"}
  <2>1. AfterLock(q) = "select_links"
    BY <1>2 DEF AfterLock
  <2>2. "select_links" \in StepsOf(q.op)
    BY <1>2 DEF StepsOf, Updates, Creates
  <2>3. QED
    BY <1>2, <2>1, <2>2 DEF Steps
<1>3. CASE q.op = "promote_inbox_item"
  <2>1. AfterLock(q) = "insert_ledger"
    BY <1>3 DEF AfterLock
  <2>2. "insert_ledger" \in StepsOf(q.op)
    BY <1>3 DEF StepsOf, Updates, Creates
  <2>3. QED
    BY <1>3, <2>1, <2>2 DEF Steps
<1>4. QED
  BY <1>1, <1>2, <1>3

LEMMA LockParentStep ==
  ASSUME IInv, NEW s \in Session, LockParent(s) PROVE IInv'
<1> DEFINE q == request[s]
           v == parent.row[q.id]
           a == LiveTags(link.row, q.id)
<1>1. pc[s] = "lock" /\ SessionInv(s)
  BY DEF LockParent, IInv
<1>2. CASE Refuse(s, ~ Found(q, v))
  BY <1>1, <1>2, AbandonStep DEF Refuse
<1>3. CASE /\ Found(q, v) /\ Free(parent, s, q.id)
           /\ parent' = WriteRow(parent, s, q.id, Written(q, v))
           /\ attach' = IF q.op = "promote_inbox_item" THEN [attach EXCEPT ![s] = a] ELSE attach
           /\ Goto(s, AfterLock(q)) /\ UNCHANGED <<tag, link, todo>>
  <2>1. /\ Asks(q) /\ \A l \in Link : link.lock[l] # s
        /\ q.op \in Updates \cup {"delete_transaction", "restore_transaction",
                                  "promote_inbox_item"}
    BY <1>1, Stations, NoLinks DEF SessionInv
  <2>2. q.id \in Parent
    BY <2>1, OwnRows DEF Cascading, Deletes
  <2>3. v \in ParentRow \cup {Missing}
    BY <2>2, Typed
  <2>4. /\ v \in ParentRow /\ Written(q, v) \in ParentRow
        /\ q.op \in Updates => Active(v) /\ Written(q, v) = Bumped(v)
        /\ q.op = "delete_transaction" => Active(v) /\ Written(q, v) = DeletedAt(v, q.at)
        /\ q.op = "restore_transaction" => Buried(v) /\ Written(q, v) = DeletedAt(v, Null)
        /\ q.op = "promote_inbox_item" => Active(v) /\ ~ v.promoted /\ Written(q, v) = v
    BY <1>3, <2>1, <2>3, WrittenFacts
  <2>5. /\ AfterLock(q) \in StepsOf(q.op) /\ AfterLock(q) \in Steps
        /\ AfterLock(q) \in {"insert_ledger", "select_links", "commit", "check_tags"}
        /\ q.op = "promote_inbox_item" <=> AfterLock(q) = "insert_ledger"
        /\ q.op \notin Updates => AfterLock(q) \in {"insert_ledger", "select_links"}
    BY <2>1, AfterLockFacts
  <2>6. /\ pc'[s] = AfterLock(q) /\ pc' = [pc EXCEPT ![s] = AfterLock(q)]
        /\ UNCHANGED <<tag, link, todo, request, dropped, served>>
        /\ attach' \in {attach, [attach EXCEPT ![s] = a]}
        /\ attach'[s] = IF q.op = "promote_inbox_item" THEN a ELSE attach[s]
    BY <1>3 DEF Goto, IInv, TypeOK
  <2>7. a \in SUBSET Tag /\ {} \in SUBSET (Link \cup Parent)
    BY DEF LiveTags
  <2>8. /\ parent'.row = parent.row
        /\ \A x \in Parent :
             /\ parent'.latest[x] = IF x = q.id THEN Written(q, v) ELSE parent.latest[x]
             /\ parent'.lock[x] = IF x = q.id THEN s ELSE parent.lock[x]
        /\ SessionInv(s)' => IInv'
    <3> HIDE DEF a, v
    <3>1. QED
      BY <1>1, <1>3, <2>2, <2>4, <2>5, <2>6, <2>7, ParentWrite
  <2>9. AtItsOperation(s)'
    BY <1>1, <2>1, <2>5, <2>6 DEF SessionInv, AtItsOperation, Asks
  <2>10. HoldsItsRows(s)'
    BY <2>2, <2>5, <2>6, <2>8 DEF HoldsItsRows
  <2>11. LocksAreKnown(s)'
    <3>1. ASSUME NEW x \in Parent, parent'.lock[x] = s PROVE Uncommitted(s, x)'
      <4>1. CASE x = q.id
        <5>1. parent'.row[x] = v /\ parent'.latest[x] = Written(q, v)
          BY <2>2, <2>8, <4>1
        <5>2. QED
          BY <2>1, <2>4, <2>5, <2>6, <4>1, <5>1
             DEF Uncommitted, Closed, Active, Updates, Deletes
      <4>2. CASE x # q.id
        <5>1. Uncommitted(s, x)
          BY <1>1, <2>8, <3>1, <4>2 DEF SessionInv, LocksAreKnown
        <5>2. QED
          BY <2>1, <2>6, <2>8, <4>2, <5>1 DEF Uncommitted, Updates
      <4>3. QED
        BY <4>1, <4>2
    <3>2. QED
      BY <2>1, <2>6, <3>1 DEF LocksAreKnown
  <2>12. CascadeIsComplete(s)' /\ WorkIsKnown(s)'
    BY <2>5, <2>6 DEF CascadeIsComplete, WorkIsKnown, Cascading, Deletes, Updates
  <2>13. PromotionIsComplete(s)'
    BY <2>5, <2>6 DEF PromotionIsComplete, Closed
  <2>14. QED
    BY <2>8, <2>9, <2>10, <2>11, <2>12, <2>13 DEF SessionInv
<1>4. QED
  BY <1>2, <1>3 DEF LockParent

LEMMA DismissStep ==
  ASSUME IInv, NEW s \in Session, Dismiss(s) PROVE IInv'
<1> DEFINE q == request[s]
           v == parent.row[q.id]
<1>1. /\ pc[s] = "dismiss" /\ SessionInv(s) /\ Free(parent, s, q.id)
      /\ parent' = WriteRow(parent, s, q.id, DeletedAt(v, q.at))
      /\ Goto(s, "select_links") /\ UNCHANGED <<tag, link, attach, todo>>
  BY DEF Dismiss, IInv
<1>2. /\ Asks(q) /\ q.op = "delete_inbox_item" /\ q.id \in Parent
      /\ \A l \in Link : link.lock[l] # s
  BY <1>1, Stations, NoLinks, OwnRows DEF SessionInv, OfDrafts
<1>3. v \in ParentRow /\ v # Missing /\ DeletedAt(v, q.at) \in ParentRow
  <2>1. v # Missing
    BY <1>1 DEF SessionInv, HoldsItsRows
  <2>2. v \in ParentRow /\ q.at \in Time
    BY <1>2, <2>1, Typed, OwnRows
  <2>3. QED
    BY <2>1, <2>2, DeletedAtFacts
<1>4. /\ pc'[s] = "select_links" /\ pc' = [pc EXCEPT ![s] = "select_links"]
      /\ UNCHANGED <<tag, link, attach, todo, request, dropped, served>>
  BY <1>1 DEF Goto, IInv, TypeOK
<1>5. {} \in SUBSET Tag /\ {} \in SUBSET (Link \cup Parent) /\ "select_links" \in Steps
  BY DEF Steps
<1>6. /\ parent'.row = parent.row
      /\ \A x \in Parent :
           /\ parent'.latest[x] = IF x = q.id THEN DeletedAt(v, q.at) ELSE parent.latest[x]
           /\ parent'.lock[x] = IF x = q.id THEN s ELSE parent.lock[x]
      /\ SessionInv(s)' => IInv'
  <2> HIDE DEF v
  <2>1. QED
    BY <1>1, <1>2, <1>3, <1>4, <1>5, ParentWrite
<1>7. AtItsOperation(s)'
  BY <1>1, <1>2, <1>4 DEF SessionInv, AtItsOperation, StepsOf, Asks, Creates, Updates
<1>8. HoldsItsRows(s)'
  BY <1>2, <1>4, <1>6 DEF HoldsItsRows
<1>9. LocksAreKnown(s)'
  BY <1>1, <1>2, <1>3, <1>4, <1>6 DEF SessionInv, LocksAreKnown, Uncommitted, Deletes
<1>10. CascadeIsComplete(s)' /\ PromotionIsComplete(s)' /\ WorkIsKnown(s)'
  BY <1>2, <1>4 DEF CascadeIsComplete, PromotionIsComplete, WorkIsKnown
<1>11. QED
  BY <1>6, <1>7, <1>8, <1>9, <1>10 DEF SessionInv

LEMMA CloseDraftStep ==
  ASSUME IInv, NEW s \in Session, CloseDraft(s) PROVE IInv'
<1> DEFINE q == request[s]
           v == parent.latest[q.id]
<1>1. /\ pc[s] = "close" /\ SessionInv(s)
      /\ parent' = WriteRow(parent, s, q.id, Promoted(v, q.at))
      /\ Goto(s, "select_links") /\ UNCHANGED <<tag, link, attach, todo>>
  BY DEF CloseDraft, IInv
<1>2. /\ Asks(q) /\ q.op = "promote_inbox_item" /\ q.id \in Parent /\ q.to \in Parent
      /\ q.id # q.to
  BY <1>1, Stations, OwnRows DEF SessionInv, Cascading
<1>3. parent.lock[q.id] = s /\ parent.lock[q.to] = s /\ Free(parent, s, q.id)
  BY <1>1, <1>2, HeldRows DEF SessionInv, Free
<1>4. v = parent.row[q.id] /\ Active(v) /\ ~ v.promoted
  BY <1>1, <1>2, <1>3 DEF SessionInv, LocksAreKnown, Uncommitted, Closed, Creates, Updates,
                          Deletes
<1>5. v \in ParentRow /\ Promoted(v, q.at) \in ParentRow
  <2>1. v \in ParentRow /\ q.at \in Time
    BY <1>2, <1>4, Typed, OwnRows DEF Active
  <2>2. QED
    BY <2>1, PromotedFacts
<1>6. /\ pc'[s] = "select_links" /\ pc' = [pc EXCEPT ![s] = "select_links"]
      /\ UNCHANGED <<tag, link, attach, todo, request, dropped, served>>
  BY <1>1 DEF Goto, IInv, TypeOK
<1>7. {} \in SUBSET Tag /\ {} \in SUBSET (Link \cup Parent) /\ "select_links" \in Steps
  BY DEF Steps
<1>8. /\ parent'.row = parent.row
      /\ \A x \in Parent :
           /\ parent'.latest[x] = IF x = q.id THEN Promoted(v, q.at) ELSE parent.latest[x]
           /\ parent'.lock[x] = IF x = q.id THEN s ELSE parent.lock[x]
      /\ SessionInv(s)' => IInv'
  <2> HIDE DEF v
  <2>1. QED
    BY <1>1, <1>2, <1>3, <1>5, <1>6, <1>7, ParentWrite
<1>9. AtItsOperation(s)'
  BY <1>1, <1>2, <1>6 DEF SessionInv, AtItsOperation, StepsOf, Asks, Creates, Updates
<1>10. HoldsItsRows(s)'
  BY <1>2, <1>3, <1>6, <1>8 DEF HoldsItsRows
<1>11. LocksAreKnown(s)'
  <2>1. ASSUME NEW x \in Parent, parent'.lock[x] = s PROVE Uncommitted(s, x)'
    <3>1. CASE x = q.id
      <4>1. /\ parent'.row[x] = v
            /\ parent'.latest[x] = Promoted(v, q.at)
        BY <1>2, <1>4, <1>8, <3>1
      <4>2. QED
        BY <1>2, <1>4, <1>6, <3>1, <4>1 DEF Uncommitted, Closed
    <3>2. CASE x # q.id
      <4>1. Uncommitted(s, x)
        BY <1>1, <1>8, <2>1, <3>2 DEF SessionInv, LocksAreKnown
      <4>2. QED
        BY <1>2, <1>6, <1>8, <3>2, <4>1 DEF Uncommitted, Creates, Updates, Deletes
    <3>3. QED
      BY <3>1, <3>2
  <2>2. ASSUME NEW l \in Link, link.lock[l] = s PROVE Touched(s, l)'
    BY <1>1, <1>2, <1>6, <2>2 DEF SessionInv, LocksAreKnown, Touched, Closed, Creates, Updates,
                                  Deletes
  <2>3. QED
    BY <1>6, <2>1, <2>2 DEF LocksAreKnown
<1>12. CascadeIsComplete(s)' /\ WorkIsKnown(s)'
  BY <1>6 DEF CascadeIsComplete, WorkIsKnown
<1>13. PromotionIsComplete(s)'
  BY <1>1, <1>2, <1>6 DEF SessionInv, PromotionIsComplete, Closed
<1>14. QED
  BY <1>8, <1>9, <1>10, <1>11, <1>12, <1>13 DEF SessionInv

LEMMA BumpParentStep ==
  ASSUME IInv, NEW s \in Session, NEW p \in Parent, BumpParent(s, p) PROVE IInv'
<1> DEFINE q == request[s]
           v == parent.row[p]
           w == todo[s] \ {p}
<1>1. /\ pc[s] = "bump_parents" /\ SessionInv(s) /\ Free(parent, s, p) /\ p \in todo[s]
      /\ parent' = WriteRow(parent, s, p, Bumped(v)) /\ todo' = [todo EXCEPT ![s] = w]
      /\ UNCHANGED <<tag, link, request, pc, attach, dropped, served>>
  BY DEF BumpParent, IInv
<1>2. Asks(q) /\ q.op = "delete_hashtag" /\ q.id \in Tag
  BY <1>1, Stations, OwnRows DEF SessionInv, OfTags
<1>3. v \in ParentRow /\ v # Missing /\ Bumped(v) \in ParentRow
  <2>1. PICK h \in Tag : link.lock[<<p, h>>] = s
    BY <1>1 DEF SessionInv, WorkIsKnown, Affected
  <2>2. link.row[<<p, h>>] = Live
    BY <1>1, <1>2, <2>1, LinkFacts
       DEF SessionInv, LocksAreKnown, Touched, Creates, Updates, Deletes
  <2>3. v # Missing
    BY <2>2, SentinelAssumption DEF IInv, NoOrphans, Live
  <2>4. QED
    BY <2>3, Typed, BumpedFacts
<1>4. todo'[s] = w /\ w \in SUBSET (Link \cup Parent)
  BY <1>1 DEF IInv, TypeOK
<1>5. {} \in SUBSET Tag /\ "commit" \in Steps
  BY DEF Steps
<1>6. /\ parent'.row = parent.row
      /\ \A x \in Parent :
           /\ parent'.latest[x] = IF x = p THEN Bumped(v) ELSE parent.latest[x]
           /\ parent'.lock[x] = IF x = p THEN s ELSE parent.lock[x]
      /\ SessionInv(s)' => IInv'
  <2> HIDE DEF v, w
  <2>1. QED
    BY <1>1, <1>3, <1>4, <1>5, ParentWrite
<1>7. AtItsOperation(s)'
  BY <1>1 DEF SessionInv, AtItsOperation, Asks
<1>8. HoldsItsRows(s)'
  BY <1>1, <1>2 DEF HoldsItsRows, OfLedger, OfDrafts
<1>9. LocksAreKnown(s)'
  <2>1. ASSUME NEW x \in Parent, parent'.lock[x] = s PROVE Uncommitted(s, x)'
    BY <1>1, <1>2, <1>3, <1>6, <2>1 DEF SessionInv, LocksAreKnown, Uncommitted
  <2>2. ASSUME NEW l \in Link, link.lock[l] = s PROVE Touched(s, l)'
    <3>1. Touched(s, l) /\ l[1] \in Parent
      BY <1>1, <2>2, LinkFacts DEF SessionInv, LocksAreKnown
    <3>2. l[1] \in todo[s] \/ parent.lock[l[1]] = s
      BY <1>1, <1>2, <3>1 DEF Touched, Creates, Updates, Deletes
    <3>3. l[1] \in w \/ parent'.lock[l[1]] = s
      BY <1>6, <3>1, <3>2
    <3>4. QED
      BY <1>1, <1>2, <1>4, <3>1, <3>3 DEF Touched, Creates, Updates, Deletes
  <2>3. QED
    BY <1>1, <2>1, <2>2 DEF LocksAreKnown
<1>10. CascadeIsComplete(s)' /\ PromotionIsComplete(s)'
  BY <1>1, <1>2 DEF CascadeIsComplete, PromotionIsComplete, Cascading, Deletes
<1>11. WorkIsKnown(s)'
  <2>1. Affected(s)' = Affected(s)
    BY <1>1 DEF Affected
  <2>2. QED
    BY <1>1, <1>4, <2>1 DEF SessionInv, WorkIsKnown
<1>12. QED
  BY <1>6, <1>7, <1>8, <1>9, <1>10, <1>11 DEF SessionInv

-----------------------------------------------------------------------------
(* Statements on the junctions.                                              *)

LEMMA LinkStep ==
  ASSUME IInv, NEW s \in Session, pc[s] # "idle", NEW w \in SUBSET (Link \cup Parent),
         link' \in Tables(Link, Time \cup {Missing}), Settled(link', Link),
         FrameOf(link, link', s, Link), link'.row = link.row,
         todo' = [todo EXCEPT ![s] = w],
         UNCHANGED <<parent, tag, request, pc, attach, dropped, served>>,
         SessionInv(s)'
  PROVE  IInv'
<1>1. OnlyMoves(s) /\ TypeOK'
  <2>1. "commit" \in Steps /\ {} \in SUBSET Tag
    BY DEF Steps
  <2>2. QED
    BY <2>1, Moves, Typed
<1>2. Frames(s) /\ Settled(parent, Parent)' /\ Settled(tag, Tag)'
  BY SameTable, Typed DEF Frames, Settled
<1>3. QED
  BY <1>1, <1>2, UncommittedStep DEF Settled

(* A junction that the statement finds is one that its session has not written. *)
LEMMA MatchFacts ==
  ASSUME IInv, NEW s \in Session, pc[s] = "visit_links", NEW l \in Link
  PROVE  LET q == request[s] IN
         /\ Matches(s, l) /\ q.op \in Cascading =>
              link.lock[l] # s /\ l[1] = q.id /\ link.row[l] = Due(s)
         /\ Matches(s, l) /\ q.op = "delete_hashtag" =>
              link.lock[l] # s /\ l[2] = q.id /\ link.row[l] = Live
         /\ Matches(s, l) /\ q.op \in Updates => l[1] = q.id
         /\ q.op \in Cascading /\ l[1] = q.id /\ link.row[l] = Due(s) =>
              Matches(s, l) \/ link.lock[l] = s
<1> DEFINE q == request[s]
<1>1. SessionInv(s) /\ Asks(q)
  BY Stations DEF IInv, SessionInv
<1>2. q.at # Live
  BY <1>1, OwnRows DEF Live
<1>3. link.lock[l] = s => Touched(s, l)
  BY <1>1 DEF SessionInv, LocksAreKnown
<1>4. CASE q.op = "restore_transaction"
  <2>1. Due(s) # Live
    <3>1. q.id \in Parent /\ parent.lock[q.id] = s
      BY <1>1, <1>4, HeldRows, OwnRows DEF SessionInv, Cascading, Closed
    <3>2. Buried(parent.row[q.id])
      BY <1>1, <1>4, <3>1 DEF SessionInv, LocksAreKnown, Uncommitted, Creates, Updates, Deletes
    <3>3. QED
      BY <1>4, <3>2 DEF Due, Buried, Live
  <2>2. Matches(s, l) <=> l[1] = q.id /\ Visible(link, s, l) = Due(s)
    BY <1>4 DEF Matches, Due
  <2>3. link.lock[l] = s => link.latest[l] = Live
    BY <1>3, <1>4 DEF Touched, Creates, Updates, Deletes
  <2>4. QED
    BY <1>4, <2>1, <2>2, <2>3 DEF Visible, Updates
<1>5. CASE q.op = "delete_hashtag"
  <2>1. Matches(s, l) <=> l[2] = q.id /\ Visible(link, s, l) = Live
    BY <1>5 DEF Matches
  <2>2. link.lock[l] = s => link.latest[l] = q.at
    BY <1>3, <1>5 DEF Touched, Creates, Updates, Deletes
  <2>3. QED
    BY <1>2, <1>5, <2>1, <2>2 DEF Visible, Updates, Cascading, Deletes
<1>6. CASE q.op \in Deletes \cup {"promote_inbox_item"}
  <2>1. Kept(s) = {} /\ Due(s) = Live
    BY <1>1, <1>6 DEF SessionInv, AtItsOperation, Kept, Due, Deletes, Creates, Updates
  <2>2. Matches(s, l) <=> l[1] = q.id /\ Visible(link, s, l) = Live
    BY <1>6, <2>1 DEF Matches, Deletes
  <2>3. link.lock[l] = s => link.latest[l] = q.at \/ l[1] # q.id
    <3>1. q.op = "promote_inbox_item" => q.id # q.to
      BY <1>1, OwnRows
    <3>2. QED
      BY <1>3, <1>6, <3>1 DEF Touched, Creates, Updates, Deletes
  <2>4. QED
    BY <1>2, <1>6, <2>1, <2>2, <2>3 DEF Visible, Updates, Deletes
<1>7. CASE q.op \notin Cascading \cup {"delete_hashtag"}
  <2>1. Matches(s, l) => l[1] = q.id
    BY <1>7 DEF Matches, Cascading
  <2>2. QED
    BY <1>7, <2>1
<1>8. QED
  BY <1>4, <1>5, <1>6, <1>7 DEF Cascading

LEMMA VisitLinkStep ==
  ASSUME IInv, NEW s \in Session, NEW l \in Link, VisitLink(s, l) PROVE IInv'
<1> DEFINE q == request[s]
           u == IF q.op = "restore_transaction" THEN Live ELSE q.at
           w == todo[s] \ {l}
<1>1. /\ pc[s] = "visit_links" /\ SessionInv(s) /\ Free(link, s, l) /\ l \in todo[s]
      /\ link' = IF Matches(s, l) THEN WriteRow(link, s, l, u) ELSE link
      /\ todo' = [todo EXCEPT ![s] = w]
      /\ UNCHANGED <<parent, tag, request, pc, attach, dropped, served>>
  BY DEF VisitLink, IInv
<1>2. Asks(q) /\ q.op \in Updates \cup Cascading \cup {"delete_hashtag"}
  BY <1>1, Stations DEF SessionInv
<1>3. u \in Time \cup {Missing}
  BY <1>2, OwnRows DEF Live, Time
<1>4. todo'[s] = w /\ w \in SUBSET (Link \cup Parent) /\ w \subseteq Link
  BY <1>1 DEF IInv, TypeOK, SessionInv, WorkIsKnown
<1>5. /\ link' \in Tables(Link, Time \cup {Missing}) /\ Settled(link', Link)
      /\ FrameOf(link, link', s, Link) /\ link'.row = link.row
      /\ \A k \in Link : /\ link.lock[k] = s => link'.lock[k] = s
                         /\ link'.lock[k] = s => link.lock[k] = s \/ (k = l /\ Matches(s, l))
                         /\ k # l => link'.latest[k] = link.latest[k]
      /\ Matches(s, l) => link'.lock[l] = s /\ link'.latest[l] = u
      /\ ~ Matches(s, l) => link' = link
  <2> HIDE DEF u
  <2>1. CASE Matches(s, l)
    <3>1. link' = WriteRow(link, s, l, u)
      BY <1>1, <2>1
    <3>2. /\ link' \in Tables(Link, Time \cup {Missing}) /\ Settled(link', Link)
          /\ FrameOf(link, link', s, Link) /\ link'.row = link.row
          /\ \A k \in Link : /\ link'.latest[k] = IF k = l THEN u ELSE link.latest[k]
                             /\ link'.lock[k] = IF k = l THEN s ELSE link.lock[k]
      BY <1>1, <1>3, <3>1, Typed, WriteFacts
    <3>3. QED
      BY <2>1, <3>2
  <2>2. CASE ~ Matches(s, l)
    <3>1. link' = link
      BY <1>1, <2>2
    <3>2. QED
      BY <2>2, <3>1, SameTable, Typed
  <2>3. QED
    BY <2>1, <2>2
<1>6. AtItsOperation(s)'
  BY <1>1 DEF SessionInv, AtItsOperation, Asks
<1>7. HoldsItsRows(s)'
  BY <1>1 DEF SessionInv, HoldsItsRows
<1>8. LocksAreKnown(s)'
  <2>1. ASSUME NEW k \in Link, link'.lock[k] = s PROVE Touched(s, k)'
    <3>1. CASE k = l /\ Matches(s, l)
      <4>1. link'.latest[k] = u /\ link'.row[k] = link.row[k] /\ pc'[s] = "visit_links"
        BY <1>1, <1>5, <3>1
      <4>2. CASE q.op \in Cascading
        <5>1. l[1] = q.id /\ link.row[l] = Due(s)
          BY <1>1, <3>1, <4>2, MatchFacts
        <5>2. QED
          BY <1>1, <3>1, <4>1, <4>2, <5>1 DEF Touched, Due, Cascading, Deletes
      <4>3. CASE q.op = "delete_hashtag"
        <5>1. l[2] = q.id /\ link.row[l] = Live
          BY <1>1, <3>1, <4>3, MatchFacts
        <5>2. QED
          BY <1>1, <3>1, <4>1, <4>3, <5>1 DEF Touched
      <4>4. CASE q.op \in Updates
        <5>1. l[1] = q.id
          BY <1>1, <3>1, <4>4, MatchFacts
        <5>2. QED
          BY <1>1, <3>1, <4>1, <4>4, <5>1 DEF Touched, Updates
      <4>5. QED
        BY <1>2, <4>2, <4>3, <4>4
    <3>2. CASE k # l \/ ~ Matches(s, l)
      <4>1. /\ link.lock[k] = s /\ link'.latest[k] = link.latest[k]
            /\ link'.row[k] = link.row[k]
        BY <1>5, <2>1, <3>2
      <4>2. Touched(s, k)
        BY <1>1, <4>1 DEF SessionInv, LocksAreKnown
      <4>3. QED
        BY <1>1, <4>1, <4>2 DEF Touched
    <3>3. QED
      BY <3>1, <3>2
  <2>2. ASSUME NEW p \in Parent, parent.lock[p] = s PROVE Uncommitted(s, p)'
    BY <1>1, <2>2 DEF SessionInv, LocksAreKnown, Uncommitted
  <2>3. QED
    BY <1>1, <2>1, <2>2 DEF LocksAreKnown
<1>9. CascadeIsComplete(s)'
  <2>1. SUFFICES ASSUME q.op \in Cascading, NEW h \in Tag, link'.row[<<q.id, h>>] = Due(s)
                 PROVE  link'.lock[<<q.id, h>>] = s \/ <<q.id, h>> \in w
    BY <1>1, <1>4 DEF CascadeIsComplete, Due
  <2> DEFINE k == <<q.id, h>>
  <2>2. k \in Link /\ k[1] = q.id
    BY <1>2, <2>1, OwnRows, LinkFacts
  <2>3. link.lock[k] = s \/ k \in todo[s]
    BY <1>1, <1>5, <2>1 DEF SessionInv, CascadeIsComplete
  <2>4. k = l => Matches(s, l) \/ link.lock[k] = s
    BY <1>1, <1>5, <2>1, <2>2, MatchFacts
  <2>5. QED
    BY <1>5, <2>2, <2>3, <2>4
<1>10. PromotionIsComplete(s)'
  <2>1. SUFFICES ASSUME q.op = "promote_inbox_item" PROVE PromotionIsComplete(s)'
    BY <1>1 DEF PromotionIsComplete
  <2>2. /\ attach[s] = LiveTags(link.row, q.id)
        /\ \A h \in attach[s] : link.lock[<<q.to, h>>] = s
    BY <1>1, <2>1 DEF SessionInv, PromotionIsComplete, Closed
  <2>3. q.to \in Parent /\ attach[s] \subseteq Tag
    BY <1>2, <2>1, OwnRows DEF IInv, TypeOK
  <2>4. \A h \in attach[s] : link'.lock[<<q.to, h>>] = s
    BY <1>5, <2>2, <2>3, LinkFacts
  <2>5. QED
    BY <1>1, <1>5, <2>2, <2>4 DEF PromotionIsComplete
<1>11. WorkIsKnown(s)'
  BY <1>1, <1>4 DEF WorkIsKnown
<1>12. SessionInv(s)'
  BY <1>6, <1>7, <1>8, <1>9, <1>10, <1>11 DEF SessionInv
<1> HIDE DEF w
<1>13. QED
  BY <1>1, <1>4, <1>5, <1>12, LinkStep

LEMMA AddLinkStep ==
  ASSUME IInv, NEW s \in Session, NEW l \in Link, AddLink(s, l) PROVE IInv'
<1> DEFINE q == request[s]
           w == todo[s] \ {l}
<1>1. /\ pc[s] = "add_links" /\ SessionInv(s) /\ Free(link, s, l) /\ l \in todo[s]
      /\ link' = IF Visible(link, s, l) = Live THEN LockRow(link, s, l)
                 ELSE WriteRow(link, s, l, Live)
      /\ todo' = [todo EXCEPT ![s] = w]
      /\ UNCHANGED <<parent, tag, request, pc, attach, dropped, served>>
  BY DEF AddLink, IInv
<1>2. Asks(q) /\ q.op \in Creates \cup Updates \cup {"promote_inbox_item"}
  BY <1>1, Stations DEF SessionInv
<1>3. l[1] = Synced(q) /\ l[2] \in attach[s]
  BY <1>1 DEF SessionInv, WorkIsKnown
<1>4. todo'[s] = w /\ w \in SUBSET (Link \cup Parent)
  BY <1>1 DEF IInv, TypeOK
<1>5. /\ link' \in Tables(Link, Time \cup {Missing}) /\ Settled(link', Link)
      /\ FrameOf(link, link', s, Link) /\ link'.row = link.row
      /\ \A k \in Link : /\ link'.lock[k] = IF k = l THEN s ELSE link.lock[k]
                         /\ link'.latest[k] = IF k = l THEN Live ELSE link.latest[k]
  <2>1. CASE Visible(link, s, l) = Live
    <3>1. link.latest[l] = Live
      BY <1>1, <2>1, Typed DEF Visible, Free, Settled
    <3>2. /\ link' \in Tables(Link, Time \cup {Missing}) /\ Settled(link', Link)
          /\ FrameOf(link, link', s, Link) /\ link'.row = link.row
          /\ link'.latest = link.latest
          /\ \A k \in Link : link'.lock[k] = IF k = l THEN s ELSE link.lock[k]
      BY <1>1, <2>1, Typed, LockFacts
    <3>3. QED
      BY <3>1, <3>2
  <2>2. CASE Visible(link, s, l) # Live
    <3>1. Live \in Time \cup {Missing} /\ link' = WriteRow(link, s, l, Live)
      BY <1>1, <2>2 DEF Live, Time
    <3>2. QED
      BY <1>1, <3>1, Typed, WriteFacts
  <2>3. QED
    BY <2>1, <2>2
<1>6. AtItsOperation(s)'
  BY <1>1 DEF SessionInv, AtItsOperation, Asks
<1>7. HoldsItsRows(s)'
  BY <1>1 DEF SessionInv, HoldsItsRows
<1>8. LocksAreKnown(s)'
  <2>1. ASSUME NEW k \in Link, link'.lock[k] = s PROVE Touched(s, k)'
    <3>1. CASE k = l
      <4>1. link'.latest[k] = Live
        BY <1>5, <3>1
      <4>2. q.op # "promote_inbox_item" => l[1] = q.id
        BY <1>3 DEF Synced
      <4>3. q.op = "promote_inbox_item" => l[1] = q.to
        BY <1>3 DEF Synced
      <4>4. QED
        BY <1>1, <1>2, <1>3, <3>1, <4>1, <4>2, <4>3 DEF Touched
    <3>2. CASE k # l
      <4>1. Touched(s, k)
        BY <1>1, <1>5, <2>1, <3>2 DEF SessionInv, LocksAreKnown
      <4>2. QED
        BY <1>1, <1>5, <3>2, <4>1 DEF Touched
    <3>3. QED
      BY <3>1, <3>2
  <2>2. ASSUME NEW p \in Parent, parent.lock[p] = s PROVE Uncommitted(s, p)'
    BY <1>1, <2>2 DEF SessionInv, LocksAreKnown, Uncommitted
  <2>3. QED
    BY <1>1, <2>1, <2>2 DEF LocksAreKnown
<1>9. CascadeIsComplete(s)'
  BY <1>1 DEF CascadeIsComplete
<1>10. PromotionIsComplete(s)'
  <2>1. SUFFICES ASSUME q.op = "promote_inbox_item" PROVE PromotionIsComplete(s)'
    BY <1>1 DEF PromotionIsComplete
  <2>2. /\ attach[s] = LiveTags(link.row, q.id)
        /\ \A h \in attach[s] : <<q.to, h>> \in todo[s] \/ link.lock[<<q.to, h>>] = s
    BY <1>1, <2>1 DEF SessionInv, PromotionIsComplete
  <2>3. q.to \in Parent /\ attach[s] \subseteq Tag
    BY <1>2, <2>1, OwnRows DEF IInv, TypeOK
  <2>4. \A h \in attach[s] : <<q.to, h>> \in w \/ link'.lock[<<q.to, h>>] = s
    BY <1>5, <2>2, <2>3, LinkFacts
  <2>5. QED
    BY <1>1, <1>4, <1>5, <2>2, <2>4 DEF PromotionIsComplete, Closed
<1>11. WorkIsKnown(s)'
  BY <1>1, <1>4 DEF SessionInv, WorkIsKnown
<1>12. SessionInv(s)'
  BY <1>6, <1>7, <1>8, <1>9, <1>10, <1>11 DEF SessionInv
<1> HIDE DEF w
<1>13. QED
  BY <1>1, <1>4, <1>5, <1>12, LinkStep

-----------------------------------------------------------------------------
(* COMMIT.                                                                   *)

(* The row p that the COMMIT of s leaves. *)
LEMMA CommittedRow ==
  ASSUME IInv, NEW s \in Session, pc[s] = "commit", NEW p \in Parent
  PROVE  LET q == request[s]
             v == parent.row[p]
             w == Visible(parent, s, p) IN
         /\ parent.lock[p] # s => w = v
         /\ parent.lock[p] = s => w \in ParentRow /\ Uncommitted(s, p)
         /\ v = Missing /\ w # Missing =>
              /\ w.deletedAt = Null /\ ~ w.promoted
              /\ \/ q.op \in Creates /\ p = q.id /\ w.from = Null
                 \/ q.op = "promote_inbox_item" /\ p = q.to /\ w.from = q.id
         /\ v # Missing =>
              /\ w \in ParentRow /\ w.from = v.from
              /\ parent.lock[p] = s => w.version = v.version + 1
              /\ w.promoted <=> v.promoted \/ (q.op = "promote_inbox_item" /\ p = q.id
                                               /\ parent.lock[p] = s)
         /\ Buried(w) => \/ Buried(v) /\ w.deletedAt = v.deletedAt
                         \/ /\ q.op \in Deletes \cup {"promote_inbox_item"} /\ p = q.id
                            /\ w.deletedAt = q.at
<1> DEFINE q == request[s]
           v == parent.row[p]
           w == Visible(parent, s, p)
<1>1. SessionInv(s) /\ Asks(q)
  BY Stations DEF IInv, SessionInv
<1>2. q.at \in Time /\ Null \in Time /\ (q.op = "promote_inbox_item" => q.id # q.to)
      /\ (q.op \in OfDrafts => q.id \in Draft)
  BY <1>1, OwnRows DEF Time
<1>3. v # Missing => v \in ParentRow
  BY Typed
<1>4. CASE parent.lock[p] # s
  <2>1. w = v
    BY <1>4 DEF Visible
  <2>2. QED
    BY <1>3, <1>4, <2>1 DEF Buried
<1>5. CASE parent.lock[p] = s
  <2>1. Uncommitted(s, p) /\ w = parent.latest[p]
    BY <1>1, <1>5 DEF SessionInv, LocksAreKnown, Visible
  <2>2. CASE q.op \in Creates /\ p = q.id /\ v = Missing /\ w = Row(Null, Null)
    <3>1. /\ w \in ParentRow /\ w.deletedAt = Null /\ w.from = Null /\ ~ w.promoted
      BY <2>2, RowFacts
    <3>2. QED
      BY <1>5, <2>1, <2>2, <3>1 DEF Buried
  <2>3. CASE q.op = "promote_inbox_item" /\ p = q.to /\ v = Missing /\ w = Row(Null, q.id)
    <3>1. q.id \in Draft
      BY <1>2, <2>3 DEF OfDrafts
    <3>2. /\ w \in ParentRow /\ w.deletedAt = Null /\ w.from = q.id /\ ~ w.promoted
      BY <2>3, <3>1, RowFacts
    <3>3. QED
      BY <1>5, <2>1, <2>3, <3>2 DEF Buried
  <2>4. CASE q.op = "promote_inbox_item" /\ p = q.id /\ Active(v) /\ w = Promoted(v, q.at)
    <3>1. /\ w \in ParentRow /\ w.deletedAt = q.at /\ w.from = v.from /\ w.promoted
          /\ w.version = v.version + 1 /\ v # Missing
      BY <1>2, <1>3, <2>4, PromotedFacts DEF Active
    <3>2. QED
      BY <1>5, <2>1, <2>4, <3>1
  <2>5. CASE /\ q.op # "promote_inbox_item" \/ p # q.id
             /\ v # Missing /\ w = Bumped(v)
    <3>1. /\ w \in ParentRow /\ w.deletedAt = v.deletedAt /\ w.from = v.from
          /\ w.promoted = v.promoted /\ w.version = v.version + 1
      BY <1>3, <2>5, BumpedFacts
    <3>2. QED
      BY <1>5, <2>1, <2>5, <3>1 DEF Buried
  <2>6. CASE q.op \in Deletes /\ p = q.id /\ v # Missing /\ w = DeletedAt(v, q.at)
    <3>1. /\ w \in ParentRow /\ w.deletedAt = q.at /\ w.from = v.from
          /\ w.promoted = v.promoted /\ w.version = v.version + 1
      BY <1>2, <1>3, <2>6, DeletedAtFacts
    <3>2. q.op # "promote_inbox_item"
      BY <2>6 DEF Deletes
    <3>3. QED
      BY <1>5, <2>1, <2>6, <3>1, <3>2
  <2>7. CASE q.op = "restore_transaction" /\ v # Missing /\ w = DeletedAt(v, Null)
    <3>1. /\ w \in ParentRow /\ w.deletedAt = Null /\ w.from = v.from
          /\ w.promoted = v.promoted /\ w.version = v.version + 1
      BY <1>2, <1>3, <2>7, DeletedAtFacts
    <3>2. QED
      BY <1>5, <2>1, <2>7, <3>1 DEF Buried
  <2>8. QED
    BY <2>1, <2>2, <2>3, <2>4, <2>5, <2>6, <2>7
       DEF Uncommitted, Closed, Active, Buried, Updates
<1>6. QED
  BY <1>4, <1>5

(* The junction l that the COMMIT of s leaves. *)
LEMMA CommittedLink ==
  ASSUME IInv, NEW s \in Session, pc[s] = "commit", NEW l \in Link
  PROVE  LET q == request[s]
             x == link.row[l]
             y == Visible(link, s, l) IN
         /\ link.lock[l] # s => y = x
         /\ link.lock[l] = s =>
              /\ parent.lock[l[1]] = s
              /\ \/ q.op \in Creates \cup Updates /\ l[1] = q.id /\ y \in {Live, q.at}
                 \/ q.op = "promote_inbox_item" /\ l[1] = q.to /\ l[2] \in attach[s] /\ y = Live
                 \/ /\ q.op \in Deletes \cup {"promote_inbox_item"} /\ l[1] = q.id
                    /\ x = Live /\ y = q.at
                 \/ /\ q.op = "restore_transaction" /\ l[1] = q.id
                    /\ x = parent.row[q.id].deletedAt /\ y = Live
                 \/ q.op = "delete_hashtag" /\ x = Live /\ y = q.at
<1> DEFINE q == request[s]
<1>1. SessionInv(s) /\ Asks(q)
  BY Stations DEF IInv, SessionInv
<1>2. CASE link.lock[l] # s
  BY <1>2 DEF Visible
<1>3. CASE link.lock[l] = s
  <2>1. Touched(s, l) /\ Visible(link, s, l) = link.latest[l]
    BY <1>1, <1>3 DEF SessionInv, LocksAreKnown, Visible
  <2>2. /\ q.op \in Creates \cup Updates \cup Cascading => parent.lock[q.id] = s
        /\ q.op = "promote_inbox_item" => parent.lock[q.to] = s
    BY <1>1 DEF SessionInv, HoldsItsRows, Before, OfLedger, OfDrafts, Creates, Updates,
                Cascading, Deletes
  <2>3. QED
    BY <1>3, <2>1, <2>2 DEF Touched, Cascading
<1>4. QED
  BY <1>2, <1>3

LEMMA CommitTables ==
  ASSUME IInv, NEW s \in Session, CommitAll(s)
  PROVE  /\ parent' \in Tables(Parent, ParentRow \cup {Missing}) /\ Settled(parent', Parent)
         /\ link' \in Tables(Link, Time \cup {Missing}) /\ Settled(link', Link)
         /\ tag' \in Tables(Tag, TagRow \cup {Missing}) /\ Settled(tag', Tag)
         /\ Frames(s)
         /\ \A p \in Parent : /\ parent'.row[p] = Visible(parent, s, p)
                              /\ parent'.lock[p] # s
         /\ \A l \in Link : link'.row[l] = Visible(link, s, l) /\ link'.lock[l] # s
  BY Typed, CommitFacts, SessionAssumption DEF CommitAll, Frames

LEMMA CommitDrops ==
  ASSUME IInv, NEW s \in Session, CommitAll(s) PROVE DeletedHaveNoTags'
<1> DEFINE q == request[s]
<1>1. pc[s] = "commit" /\ SessionInv(s) /\ Asks(q)
  BY Stations DEF IInv, SessionInv, CommitAll
<1>2. SUFFICES ASSUME NEW p \in Parent, Buried(parent'.row[p]), NEW h \in Tag,
                      link'.row[<<p, h>>] = Live
               PROVE  FALSE
  BY DEF DeletedHaveNoTags, LiveTags
<1> DEFINE l == <<p, h>>
           v == parent.row[p]
<1>3. l \in Link /\ l[1] = p /\ l[2] = h
  BY LinkFacts
<1>4. Buried(Visible(parent, s, p)) /\ Visible(link, s, l) = Live
  BY <1>2, <1>3, CommitTables
<1>5. q.at # Live /\ (q.op = "promote_inbox_item" => q.id # q.to)
  BY <1>1, OwnRows DEF Live
<1>6. CASE q.op \in Deletes \cup {"promote_inbox_item"} /\ p = q.id
  <2>1. link.row[l] = Live => link.lock[l] = s
    BY <1>1, <1>6 DEF SessionInv, CascadeIsComplete, Cascading, Deletes, Due
  <2>2. link.lock[l] = s => Visible(link, s, l) = q.at
    BY <1>1, <1>3, <1>5, <1>6, CommittedLink DEF Deletes, Creates, Updates
  <2>3. link.lock[l] # s => Visible(link, s, l) = link.row[l]
    BY DEF Visible
  <2>4. QED
    BY <1>4, <1>5, <2>1, <2>2, <2>3
<1>7. CASE Buried(v)
  <2>1. link.row[l] # Live
    BY <1>7 DEF IInv, DeletedHaveNoTags, LiveTags
  <2>2. link.lock[l] = s
    BY <1>4, <2>1 DEF Visible
  <2>3. parent.lock[p] = s /\ Uncommitted(s, p)
    BY <1>1, <1>3, <2>2, CommittedLink, CommittedRow
  <2>4. CASE q.op \in Creates \cup Updates /\ p = q.id
    BY <1>7, <2>3, <2>4 DEF Uncommitted, Buried, Active, Creates, Updates, Deletes
  <2>5. CASE q.op = "promote_inbox_item" /\ p = q.to
    BY <1>5, <1>7, <2>3, <2>5 DEF Uncommitted, Buried, Creates, Updates, Deletes
  <2>6. CASE q.op = "restore_transaction" /\ p = q.id
    <3>1. Visible(parent, s, p) = DeletedAt(v, Null) /\ v \in ParentRow /\ Null \in Time
      BY <1>7, <2>3, <2>6, Typed
         DEF Uncommitted, Buried, Visible, Creates, Updates, Deletes, Time
    <3>2. QED
      BY <1>4, <3>1, DeletedAtFacts DEF Buried
  <2>7. QED
    BY <1>1, <1>3, <1>4, <1>5, <2>2, <2>4, <2>5, <2>6, CommittedLink
<1>8. QED
  BY <1>1, <1>4, <1>6, <1>7, CommittedRow

LEMMA CommitKeeps ==
  ASSUME IInv, NEW s \in Session, CommitAll(s)
  PROVE  RowsRemain /\ LinksStay(s) /\ NoOrphans'
<1>1. pc[s] = "commit"
  BY DEF CommitAll
<1>2. \A p \in Parent : /\ parent.row[p] # Missing => parent'.row[p] # Missing
                        /\ parent.lock[p] = s => parent'.row[p] # Missing
  BY <1>1, CommitTables, CommittedRow, MissingAssumption
<1>3. \A p \in Parent, h \in Tag :
        parent.lock[p] # s => link'.row[<<p, h>>] = link.row[<<p, h>>]
  BY <1>1, CommitTables, CommittedLink, LinkFacts
<1>4. NoOrphans'
  BY <1>2, <1>3 DEF IInv, NoOrphans
<1>5. QED
  BY <1>2, <1>3, <1>4 DEF RowsRemain, LinksStay

LEMMA CommitPromotes ==
  ASSUME IInv, NEW s \in Session, CommitAll(s) PROVE OnePromotion'
<1> DEFINE q == request[s]
           Came(d, t) == parent.row[t] # Missing /\ parent.row[t].from = d
<1>1. pc[s] = "commit" /\ SessionInv(s) /\ Asks(q)
  BY Stations DEF IInv, SessionInv, CommitAll
<1>2. CASE q.op = "promote_inbox_item"
  <2>1. q.id \in Draft /\ q.to \in Txn /\ q.id \in Parent /\ q.to \in Parent /\ q.id # q.to
    BY <1>1, <1>2, OwnRows DEF Cascading
  <2>2. parent.lock[q.id] = s /\ parent.lock[q.to] = s
    BY <1>1, <1>2, HeldRows DEF SessionInv
  <2>3. parent.row[q.id] # Missing /\ ~ parent.row[q.id].promoted
    BY <1>1, <1>2, <2>1, <2>2
       DEF SessionInv, LocksAreKnown, Uncommitted, Active, Creates, Updates, Deletes
  <2>4. parent.row[q.to] = Missing /\ parent'.row[q.to] # Missing
        /\ parent'.row[q.to].from = q.id
    <3>1. parent.row[q.to] = Missing /\ Visible(parent, s, q.to) # Missing
      BY <1>1, <1>2, <2>1, <2>2, RowFacts
         DEF SessionInv, LocksAreKnown, Uncommitted, Visible, Creates, Updates, Deletes
    <3>2. QED
      BY <1>1, <1>2, <2>1, <3>1, CommittedRow, CommitTables DEF Creates
  <2>5. ASSUME NEW d \in Draft, NEW t \in Txn
        PROVE  parent'.row[t] # Missing /\ parent'.row[t].from = d
                 <=> Came(d, t) \/ (t = q.to /\ d = q.id)
    <3>1. t \in Parent
      BY DEF Parent
    <3>2. QED
      BY <1>1, <1>2, <2>1, <2>4, <3>1, CommittedRow, CommitTables, MissingAssumption DEF Creates
  <2>6. ASSUME NEW d \in Draft
        PROVE  parent'.row[d] # Missing /\ parent'.row[d].promoted
                 <=> (parent.row[d] # Missing /\ parent.row[d].promoted) \/ d = q.id
    <3>1. d \in Parent
      BY DEF Parent
    <3>2. QED
      BY <1>1, <1>2, <2>2, <2>3, <3>1, CommittedRow, CommitTables, MissingAssumption
  <2>7. \A t \in Txn : ~ Came(q.id, t)
    BY <2>1, <2>3 DEF IInv, OnePromotion
  <2>8. QED
    BY <2>1, <2>5, <2>6, <2>7 DEF IInv, OnePromotion
<1>3. CASE q.op # "promote_inbox_item"
  <2>1. ASSUME NEW d \in Draft, NEW t \in Txn
        PROVE  parent'.row[t] # Missing /\ parent'.row[t].from = d <=> Came(d, t)
    <3>1. t \in Parent /\ d # Null
      BY SentinelAssumption DEF Parent
    <3>2. QED
      BY <1>1, <1>3, <3>1, CommittedRow, CommitTables, MissingAssumption
  <2>2. ASSUME NEW d \in Draft
        PROVE  parent'.row[d] # Missing /\ parent'.row[d].promoted
                 <=> parent.row[d] # Missing /\ parent.row[d].promoted
    <3>1. d \in Parent
      BY DEF Parent
    <3>2. QED
      BY <1>1, <1>3, <3>1, CommittedRow, CommitTables, MissingAssumption
  <2>3. QED
    BY <2>1, <2>2 DEF IInv, OnePromotion
<1>4. QED
  BY <1>2, <1>3

LEMMA CommitRemembers ==
  ASSUME IInv, NEW s \in Session, CommitAll(s) PROVE DroppedIsKnown'
<1> DEFINE q == request[s]
<1>1. pc[s] = "commit" /\ SessionInv(s) /\ Asks(q)
  BY Stations DEF IInv, SessionInv, CommitAll
<1>2. SUFFICES ASSUME NEW t \in Txn, Buried(parent'.row[t])
               PROVE  dropped'[t] = {h \in Tag : link'.row[<<t, h>>] = parent'.row[t].deletedAt}
  BY DEF DroppedIsKnown
<1> DEFINE v == parent.row[t]
           x(h) == link.row[<<t, h>>]
           y(h) == Visible(link, s, <<t, h>>)
<1>3. t \in Parent /\ t \notin Draft
  BY ParentAssumption DEF Parent
<1>4. /\ parent'.row[t] = Visible(parent, s, t)
      /\ \A h \in Tag : <<t, h>> \in Link /\ <<t, h>>[1] = t /\ <<t, h>>[2] = h
                        /\ link'.row[<<t, h>>] = y(h)
  BY <1>3, CommitTables, LinkFacts
<1>5. q.at # Live /\ (q.op = "promote_inbox_item" => q.id # q.to)
  BY <1>1, OwnRows DEF Live
<1>6. CASE q.op = "delete_transaction" /\ t = q.id
  <2>1. dropped'[t] = LiveTags(link.row, t)
    BY <1>6 DEF CommitAll, IInv, TypeOK
  <2>2. parent'.row[t].deletedAt = q.at
    <3>1. parent.lock[t] = s /\ Uncommitted(s, t)
      BY <1>1, <1>3, <1>6, HeldRows DEF SessionInv, Cascading, Deletes, Closed, LocksAreKnown
    <3>2. v \in ParentRow /\ Visible(parent, s, t) = DeletedAt(v, q.at) /\ q.at \in Time
      BY <1>1, <1>3, <1>6, <3>1, Typed, OwnRows
         DEF Uncommitted, Visible, Creates, Updates, Deletes
    <3>3. QED
      BY <1>4, <3>2, DeletedAtFacts
  <2>3. ASSUME NEW h \in Tag PROVE x(h) = Live <=> y(h) = q.at
    <3>1. x(h) = Live => link.lock[<<t, h>>] = s
      BY <1>1, <1>6 DEF SessionInv, CascadeIsComplete, Cascading, Deletes, Due
    <3>2. link.lock[<<t, h>>] = s => x(h) = Live /\ y(h) = q.at
      BY <1>1, <1>4, <1>6, CommittedLink DEF Creates, Updates
    <3>3. link.lock[<<t, h>>] # s => y(h) = x(h)
      BY DEF Visible
    <3>4. x(h) # q.at
      <4>1. x(h) \in Nat => x(h) # q.at
        BY <1>1, <1>4 DEF IInv, StampsAreNew
      <4>2. QED
        BY <1>1, <4>1, OwnRows
    <3>5. QED
      BY <3>1, <3>2, <3>3, <3>4
  <2>4. QED
    BY <1>4, <2>1, <2>2, <2>3 DEF LiveTags
<1>7. CASE ~ (q.op = "delete_transaction" /\ t = q.id)
  <2>1. dropped'[t] = dropped[t]
    BY <1>7 DEF CommitAll, IInv, TypeOK
  <2>2. Buried(v) /\ parent'.row[t].deletedAt = v.deletedAt
    <3>1. q.op \in Deletes \cup {"promote_inbox_item"} => t # q.id
      BY <1>1, <1>3, <1>7, OwnRows DEF Deletes, OfDrafts
    <3>2. QED
      BY <1>1, <1>2, <1>3, <1>4, <3>1, CommittedRow
  <2>3. ASSUME NEW h \in Tag PROVE y(h) = x(h)
    <3>1. SUFFICES ASSUME link.lock[<<t, h>>] = s PROVE FALSE
      BY DEF Visible
    <3>2. parent.lock[t] = s /\ Uncommitted(s, t)
      BY <1>1, <1>3, <1>4, <3>1, CommittedLink, CommittedRow
    <3>3. x(h) # Live
      BY <1>3, <2>2 DEF IInv, DeletedHaveNoTags, LiveTags
    <3>4. q.op \notin Creates \cup Updates
      BY <2>2, <3>2 DEF Uncommitted, Active, Buried, Creates, Updates, Deletes
    <3>5. ~ (q.op = "promote_inbox_item" /\ t = q.to)
      BY <1>5, <2>2, <3>2 DEF Uncommitted, Buried, Creates, Updates, Deletes
    <3>6. q.op # "restore_transaction"
      <4>1. ASSUME q.op = "restore_transaction" PROVE FALSE
        <5>1. v \in ParentRow /\ Visible(parent, s, t) = DeletedAt(v, Null) /\ Null \in Time
          BY <1>3, <2>2, <3>2, <4>1, Typed
             DEF Uncommitted, Buried, Visible, Creates, Updates, Deletes, Time
        <5>2. QED
          BY <1>2, <1>4, <5>1, DeletedAtFacts DEF Buried
      <4>2. QED
        BY <4>1
    <3>7. QED
      BY <1>1, <1>4, <3>1, <3>3, <3>4, <3>5, <3>6, CommittedLink
  <2>4. dropped[t] = {h \in Tag : x(h) = v.deletedAt}
    BY <2>2 DEF IInv, DroppedIsKnown
  <2>5. QED
    BY <1>4, <2>1, <2>2, <2>3, <2>4
<1>8. QED
  BY <1>6, <1>7

LEMMA CommitStep ==
  ASSUME IInv, NEW s \in Session, CommitAll(s) PROVE IInv'
<1> DEFINE q == request[s]
<1>1. pc[s] = "commit" /\ SessionInv(s) /\ Asks(q) /\ TypeOK /\ DOMAIN request = Session
  BY Stations DEF IInv, SessionInv, CommitAll
<1>2. /\ SessionInv(s)' /\ OnlyMoves(s) /\ pc'[s] = "idle" /\ (DOMAIN request)' = Session
      /\ pc' \in [Session -> Steps] /\ attach' \in [Session -> SUBSET Tag]
      /\ todo' \in [Session -> SUBSET (Link \cup Parent)]
      /\ \A u \in Session : request'[u] = IF u = s THEN NoRequest ELSE request[u]
  BY <1>1, CommitTables, AtEnd DEF CommitAll
<1>3. served' = served
  BY DEF CommitAll, End
<1>4. TypeOK'
  <2>1. \A u \in Session : request'[u] = NoRequest
          \/ \E r \in Request : request'[u] = [op |-> r.op, id |-> r.id, tags |-> r.tags,
                                               to |-> r.to, at |-> request'[u].at]
    BY <1>1, <1>2 DEF TypeOK
  <2>2. dropped' \in [Txn -> SUBSET Tag]
    <3>1. \A p : LiveTags(link.row, p) \in SUBSET Tag
      BY DEF LiveTags
    <3>2. QED
      BY <1>1, <3>1 DEF CommitAll, TypeOK
  <2>3. QED
    BY <1>1, <1>2, <1>3, <2>1, <2>2, CommitTables DEF TypeOK
<1>5. StampsAreNew'
  <2>1. \A u \in Session : pc'[u] # "idle" =>
          u # s /\ pc[u] # "idle" /\ request'[u] = request[u]
    BY <1>2 DEF OnlyMoves
  <2>2. q.at \in Nat /\ q.at <= served + 1 /\ Live \notin Nat
    BY <1>1, SentinelAssumption DEF Asks, Live
  <2>3. ASSUME NEW l \in Link, link'.row[l] \in Nat
        PROVE  link'.row[l] = q.at \/ link'.row[l] = link.row[l]
    <3>1. link'.row[l] = Visible(link, s, l)
      BY CommitTables
    <3>2. QED
      BY <1>1, <2>2, <2>3, <3>1, CommittedLink
  <2>4. /\ \A l \in Link : link.row[l] \in Nat =>
             /\ link.row[l] <= served + 1
             /\ \A u \in Session : pc[u] # "idle" => link.row[l] # request[u].at
        /\ \A r, u \in Session : r # u /\ pc[r] # "idle" /\ pc[u] # "idle" =>
             request[r].at # request[u].at
    BY DEF IInv, StampsAreNew
  <2>5. ASSUME NEW l \in Link, link'.row[l] \in Nat
        PROVE  /\ link'.row[l] <= served' + 1
               /\ \A u \in Session : pc'[u] # "idle" => link'.row[l] # request'[u].at
    BY <1>1, <1>3, <2>1, <2>2, <2>3, <2>4, <2>5
  <2>6. \A r, u \in Session : r # u /\ pc'[r] # "idle" /\ pc'[u] # "idle" =>
          request'[r].at # request'[u].at
    BY <2>1, <2>4
  <2>7. QED
    BY <2>5, <2>6 DEF StampsAreNew
<1>6. Settled(parent, Parent)' /\ Settled(link, Link)' /\ Settled(tag, Tag)'
  BY CommitTables DEF Settled
<1>7. QED
  BY <1>2, <1>4, <1>5, <1>6, CommitTables, CommitDrops, CommitKeeps, CommitPromotes,
     CommitRemembers, StepOf

-----------------------------------------------------------------------------
(* The invariance of IInv.                                                   *)

LEMMA InitialRows ==
  ASSUME NEW v \in {Row(Null, Null), Row(1, Null)}
  PROVE  /\ v \in ParentRow /\ v # Missing /\ v.from = Null /\ ~ v.promoted
         /\ Buried(v) => v.deletedAt = 1
<1>1. PICK now \in {Null, 1} :
        v = [deletedAt |-> now, from |-> Null, promoted |-> FALSE, version |-> 0]
  BY DEF Row
<1>2. now \in Time
  BY DEF Time
<1>3. v \in ParentRow
  BY <1>1, <1>2 DEF ParentRow
<1>4. v.deletedAt = now /\ v.from = Null /\ ~ v.promoted
  BY <1>1
<1>5. QED
  BY <1>3, <1>4, MissingAssumption DEF Buried

LEMMA InitInvariant ==
  ASSUME Init PROVE IInv
<1>1. PICK parents \in [Parent -> {Row(Null, Null), Row(1, Null), Missing}],
           tags \in [Tag -> TagRow \cup {Missing}],
           links \in [Link -> {Live, 0, 1, Missing}] :
        /\ Consistent(parents, tags, links)
        /\ parent = AtRest(parents, Parent) /\ tag = AtRest(tags, Tag)
        /\ link = AtRest(links, Link)
        /\ dropped = [t \in Txn |-> {h \in Tag : links[<<t, h>>] = 1}]
        /\ request = [s \in Session |-> NoRequest] /\ pc = [s \in Session |-> "idle"]
        /\ attach = [s \in Session |-> {}] /\ todo = [s \in Session |-> {}] /\ served = 0
  BY DEF Init
<1>2. \A p \in Parent : parents[p] # Missing =>
        /\ parents[p] \in ParentRow /\ parents[p].from = Null /\ ~ parents[p].promoted
        /\ Buried(parents[p]) => parents[p].deletedAt = 1
  BY InitialRows
<1>3. /\ parents \in [Parent -> ParentRow \cup {Missing}]
      /\ links \in [Link -> Time \cup {Missing}]
  BY <1>2 DEF Time, Live
<1>4. /\ parent.row = parents /\ tag.row = tags /\ link.row = links
      /\ \A p \in Parent : parent.lock[p] = Nobody
      /\ \A l \in Link : link.lock[l] = Nobody
  BY <1>1 DEF AtRest
<1>5. /\ parent \in Tables(Parent, ParentRow \cup {Missing}) /\ Settled(parent, Parent)
      /\ link \in Tables(Link, Time \cup {Missing}) /\ Settled(link, Link)
      /\ tag \in Tables(Tag, TagRow \cup {Missing}) /\ Settled(tag, Tag)
  BY <1>1, <1>3 DEF AtRest, Tables, Settled
<1>6. TypeOK /\ DOMAIN request = Session
  <2>1. pc \in [Session -> Steps]
    BY <1>1 DEF Steps
  <2>2. dropped \in [Txn -> SUBSET Tag]
    BY <1>1
  <2>3. QED
    BY <1>1, <1>5, <2>1, <2>2 DEF TypeOK
<1>7. ASSUME NEW s \in Session PROVE SessionInv(s)
  <2>1. pc[s] = "idle" /\ request[s] = NoRequest /\ request[s].op = "none"
    BY <1>1 DEF NoRequest
  <2>2. AtItsOperation(s) /\ HoldsItsRows(s)
    BY <2>1 DEF AtItsOperation, HoldsItsRows
  <2>3. LocksAreKnown(s)
    BY <1>4, SessionAssumption DEF LocksAreKnown
  <2>4. CascadeIsComplete(s) /\ PromotionIsComplete(s) /\ WorkIsKnown(s)
    BY <2>1 DEF CascadeIsComplete, PromotionIsComplete, WorkIsKnown
  <2>5. QED
    BY <2>2, <2>3, <2>4 DEF SessionInv
<1>8. DeletedHaveNoTags /\ NoOrphans
  <2>1. \A p \in Parent, h \in Tag : /\ links[<<p, h>>] # Missing => parents[p] # Missing
                                     /\ links[<<p, h>>] = Live => Active(parents[p])
    BY <1>1, SentinelAssumption DEF Consistent, Live
  <2>2. QED
    BY <1>4, <2>1 DEF DeletedHaveNoTags, NoOrphans, LiveTags, Active, Buried
<1>9. OnePromotion
  <2>1. \A d \in Draft : d # Null /\ d \in Parent
    BY SentinelAssumption DEF Parent
  <2>2. \A t \in Txn : t \in Parent
    BY DEF Parent
  <2>3. QED
    BY <1>2, <1>4, <2>1, <2>2 DEF OnePromotion
<1>10. DroppedIsKnown
  <2>1. \A t \in Txn : t \in Parent
    BY DEF Parent
  <2>2. QED
    BY <1>1, <1>2, <1>4, <2>1 DEF DroppedIsKnown, Buried
<1>11. StampsAreNew
  <2>1. \A l \in Link : link.row[l] \in Nat => link.row[l] \in {0, 1}
    BY <1>4, SentinelAssumption DEF Live
  <2>2. \A l \in Link : link.row[l] \in Nat => link.row[l] <= served + 1
    BY <1>1, <2>1
  <2>3. QED
    BY <1>1, <2>2 DEF StampsAreNew
<1>12. QED
  BY <1>5, <1>6, <1>7, <1>8, <1>9, <1>10, <1>11 DEF IInv

LEMMA StutterStep ==
  ASSUME IInv, UNCHANGED vars PROVE IInv'
<1>1. UNCHANGED <<parent, tag, link, request, pc, attach, todo, dropped, served>>
  BY DEF vars
<1>2. TypeOK' /\ DOMAIN request' = Session
  BY <1>1 DEF IInv, TypeOK
<1>3. Settled(parent, Parent)' /\ Settled(link, Link)' /\ Settled(tag, Tag)'
  BY <1>1 DEF IInv, Settled
<1>4. DeletedHaveNoTags' /\ NoOrphans' /\ OnePromotion' /\ DroppedIsKnown' /\ StampsAreNew'
  BY <1>1 DEF IInv, DeletedHaveNoTags, NoOrphans, OnePromotion, DroppedIsKnown, StampsAreNew
<1>5. ASSUME NEW s \in Session PROVE SessionInv(s)'
  <2>1. SessionInv(s)
    BY DEF IInv
  <2>2. AtItsOperation(s)' /\ HoldsItsRows(s)'
    BY <1>1, <2>1 DEF SessionInv, AtItsOperation, HoldsItsRows, Asks
  <2>3. LocksAreKnown(s)'
    BY <1>1, <2>1 DEF SessionInv, LocksAreKnown, Uncommitted, Touched
  <2>4. CascadeIsComplete(s)' /\ PromotionIsComplete(s)' /\ WorkIsKnown(s)'
    BY <1>1, <2>1 DEF SessionInv, CascadeIsComplete, PromotionIsComplete, WorkIsKnown, Due,
                      Affected
  <2>5. QED
    BY <2>2, <2>3, <2>4 DEF SessionInv
<1>6. QED
  BY <1>2, <1>3, <1>4, <1>5 DEF IInv

LEMMA NextInvariant ==
  ASSUME IInv, [Next]_vars PROVE IInv'
<1>1. ASSUME NEW s \in Session, Step(s) PROVE IInv'
  BY <1>1, CreateStep, LockParentStep, ReadDraftStep, DismissStep, InsertLedgerStep,
     CloseDraftStep, CheckTagsStep, SelectLinksStep, VisitLinkStep, LinksVisitedStep,
     AddLinkStep, LinksAddedStep, InsertTagStep, ReadTagStep, BumpParentStep, DeleteTagStep,
     RestoreTagStep, CommitStep DEF Step
<1>2. ASSUME NEW s \in Session, Fail(s) PROVE IInv'
  BY <1>2, AbandonStep DEF Fail
<1>3. QED
  BY <1>1, <1>2, BeginStep, StutterStep DEF Next

LEMMA Invariance == Spec => []IInv
<1>1. Init => IInv
  BY InitInvariant
<1>2. IInv /\ [Next]_vars => IInv'
  BY NextInvariant
<1>3. QED
  BY <1>1, <1>2, PTL DEF Spec

-----------------------------------------------------------------------------
(* The results.                                                              *)

(* The tables, the requests and the handlers' locals keep their types.       *)
THEOREM TypeCorrect == Spec => []TypeOK
<1>1. IInv => TypeOK
  BY DEF IInv
<1>2. QED
  BY <1>1, Invariance, PTL

(***************************************************************************)
(* However edits, deletions, restores, dismissals, promotions and          *)
(* deletions of hashtags interleave, a deleted transaction and a closed    *)
(* draft have no live junction: the row lock of the parent covers its      *)
(* junctions, and delete_hashtag, which has no such lock, only removes.    *)
(***************************************************************************)
THEOREM NoTagsOnDeletedRows == Spec => []DeletedHaveNoTags
<1>1. IInv => DeletedHaveNoTags
  BY DEF IInv
<1>2. QED
  BY <1>1, Invariance, PTL

(***************************************************************************)
(* A draft is promoted exactly when one ledger row has come from it,       *)
(* whatever promotes, edits or dismisses it at the same time.              *)
(***************************************************************************)
THEOREM PromotedOnce == Spec => []OnePromotion
<1>1. IInv => OnePromotion
  BY DEF IInv
<1>2. QED
  BY <1>1, Invariance, PTL

-----------------------------------------------------------------------------
(* What a COMMIT may do.                                                     *)

(* Committed rows and junctions change in a COMMIT and in no other step. *)
LEMMA OnlyCommitsShow ==
  ASSUME [Next]_vars
  PROVE  \/ parent'.row = parent.row /\ link'.row = link.row /\ dropped' = dropped
         \/ \E s \in Session : CommitAll(s)
<1>1. ASSUME NEW s \in Session, Abandon(s)
      PROVE  parent'.row = parent.row /\ link'.row = link.row /\ dropped' = dropped
  BY <1>1 DEF Abandon, Rollback
<1>2. ASSUME NEW s \in Session, Create(s) \/ LockParent(s) \/ Dismiss(s) \/ InsertLedger(s)
                                \/ CloseDraft(s) \/ \E p \in Parent : BumpParent(s, p)
      PROVE  parent'.row = parent.row /\ link'.row = link.row /\ dropped' = dropped
  BY <1>1, <1>2 DEF Create, LockParent, Dismiss, InsertLedger, CloseDraft, BumpParent, Insert,
                    Refuse, WriteRow, Goto
<1>3. ASSUME NEW s \in Session, \E l \in Link : VisitLink(s, l) \/ AddLink(s, l)
      PROVE  parent'.row = parent.row /\ link'.row = link.row /\ dropped' = dropped
  BY <1>3 DEF VisitLink, AddLink, WriteRow, LockRow
<1>4. ASSUME NEW s \in Session, ReadDraft(s) \/ CheckTags(s) \/ SelectLinks(s) \/ LinksVisited(s)
                                \/ LinksAdded(s) \/ InsertTag(s) \/ ReadTag(s) \/ DeleteTag(s)
                                \/ RestoreTag(s)
      PROVE  parent'.row = parent.row /\ link'.row = link.row /\ dropped' = dropped
  BY <1>1, <1>4 DEF ReadDraft, CheckTags, SelectLinks, LinksVisited, LinksAdded, InsertTag,
                    ReadTag, DeleteTag, RestoreTag, Refuse, Goto
<1>5. CASE \E s \in Session : \E q \in Request : Begin(s, q)
  BY <1>5 DEF Begin
<1>6. CASE UNCHANGED vars
  BY <1>6 DEF vars
<1>7. QED
  BY <1>1, <1>2, <1>3, <1>4, <1>5, <1>6 DEF Next, Step, Fail

TagsBringVersion ==
    \A p \in Parent :
      parent.row[p] # Missing /\ LiveTags(link'.row, p) # LiveTags(link.row, p) =>
        parent'.row[p].version # parent.row[p].version

(***************************************************************************)
(* Whatever changes the hashtags that a transaction or a draft shows (its  *)
(* own edit, a cascade, or the deletion of a hashtag by someone else)      *)
(* changes its version in the same COMMIT, for any number of sessions.     *)
(***************************************************************************)
THEOREM VersionsMoveWithTags == Spec => TagsMoveWithVersion
<1>1. ASSUME IInv, [Next]_vars PROVE TagsBringVersion
  <2>1. SUFFICES ASSUME NEW s \in Session, CommitAll(s), NEW p \in Parent,
                        parent.row[p] # Missing,
                        LiveTags(link'.row, p) # LiveTags(link.row, p)
                 PROVE  parent'.row[p].version # parent.row[p].version
    BY <1>1, OnlyCommitsShow DEF TagsBringVersion
  <2>2. pc[s] = "commit"
    BY <2>1 DEF CommitAll
  <2>3. PICK h \in Tag : link'.row[<<p, h>>] # link.row[<<p, h>>]
    BY <2>1 DEF LiveTags
  <2>4. link.lock[<<p, h>>] = s
    BY <1>1, <2>1, <2>3, CommitTables, LinkFacts DEF Visible
  <2>5. parent.lock[p] = s
    BY <1>1, <2>1, <2>2, <2>4, CommittedLink, LinkFacts
  <2>6. parent'.row[p].version = parent.row[p].version + 1
    BY <1>1, <2>1, <2>2, <2>5, CommittedRow, CommitTables
  <2>7. parent.row[p].version \in Nat
    BY <1>1, <2>1, Typed DEF ParentRow
  <2>8. QED
    BY <2>6, <2>7
<1>2. IInv /\ [Next]_vars => [TagsBringVersion]_vars
  BY <1>1
<1>3. [TagsBringVersion]_vars =>
        [\A p \in Parent :
           parent.row[p] # Missing /\ LiveTags(link'.row, p) # LiveTags(link.row, p) =>
             parent'.row[p].version # parent.row[p].version]_vars
  BY DEF TagsBringVersion
<1>4. QED
  BY <1>2, <1>3, Invariance, PTL DEF Spec, TagsMoveWithVersion

(* A change of the row of a request at its COMMIT is that COMMIT. *)
LEMMA WhoCommits ==
  ASSUME IInv, [Next]_vars, NEW s \in Session, NEW op \in Creates \cup Updates \cup Cascading,
         Commits(s, op)
  PROVE  CommitAll(s)
<1>1. /\ pc[s] = "commit" /\ SessionInv(s) /\ Asks(request[s]) /\ request[s].op = op
      /\ parent'.row[request[s].id] # parent.row[request[s].id]
  BY Stations DEF IInv, SessionInv, Commits
<1>2. request[s].id \in Parent /\ parent.lock[request[s].id] = s
  BY <1>1, OwnRows
     DEF SessionInv, HoldsItsRows, Before, OfLedger, OfDrafts, Creates, Updates, Cascading, Deletes
<1>3. PICK u \in Session : CommitAll(u)
  BY <1>1, OnlyCommitsShow
<1>4. parent.lock[request[s].id] = u
  BY <1>1, <1>2, <1>3, CommitTables DEF Visible
<1>5. QED
  BY <1>2, <1>3, <1>4

(* A restore leaves the junctions that the deletion dropped. *)
LEMMA RestoredTags ==
  ASSUME IInv, NEW s \in Session, CommitAll(s), request[s].op = "restore_transaction"
  PROVE  /\ LiveTags(link'.row, request[s].id) = dropped[request[s].id]
         /\ Buried(parent.row[request[s].id])
<1> DEFINE q == request[s]
           v == parent.row[q.id]
<1>1. pc[s] = "commit" /\ q.op = "restore_transaction" /\ SessionInv(s) /\ Asks(q)
  BY Stations DEF IInv, SessionInv, CommitAll
<1>2. q.id \in Txn /\ q.id \in Parent /\ parent.lock[q.id] = s
  BY <1>1, OwnRows, HeldRows DEF OfLedger, SessionInv, Closed, Cascading
<1>3. Buried(v)
  BY <1>1, <1>2 DEF SessionInv, LocksAreKnown, Uncommitted, Creates, Updates, Deletes
<1>4. dropped[q.id] = {h \in Tag : link.row[<<q.id, h>>] = v.deletedAt}
  BY <1>2, <1>3 DEF IInv, DroppedIsKnown
<1>5. ASSUME NEW h \in Tag
      PROVE  link'.row[<<q.id, h>>] = Live <=> link.row[<<q.id, h>>] = v.deletedAt
  <2> DEFINE l == <<q.id, h>>
  <2>1. l \in Link /\ link'.row[l] = Visible(link, s, l) /\ link.row[l] # Live
    BY <1>2, <1>3, CommitTables, LinkFacts DEF IInv, DeletedHaveNoTags, LiveTags
  <2>2. link.row[l] = v.deletedAt => link.lock[l] = s
    BY <1>1 DEF SessionInv, CascadeIsComplete, Cascading, Due
  <2>3. link.lock[l] = s => link.row[l] = v.deletedAt /\ Visible(link, s, l) = Live
    BY <1>1, <2>1, CommittedLink DEF Creates, Updates, Deletes
  <2>4. QED
    BY <2>1, <2>2, <2>3 DEF Visible
<1>6. QED
  BY <1>3, <1>4, <1>5 DEF LiveTags

RestoresDropped ==
    \A s \in Session : Commits(s, "restore_transaction") =>
      LiveTags(link'.row, request[s].id) = dropped[request[s].id]

(***************************************************************************)
(* cascade_restore finds the junctions of the deletion by the equality of  *)
(* two deleted_at columns.  They are exactly those that the deletion       *)
(* dropped: no other statement writes its now(), and nobody touches the    *)
(* junctions of a deleted transaction.                                     *)
(***************************************************************************)
THEOREM RestoresItsOwn == Spec => RestoreRevivesItsOwn
<1>1. ASSUME IInv, [Next]_vars PROVE RestoresDropped
  <2>1. SUFFICES ASSUME NEW s \in Session, Commits(s, "restore_transaction")
                 PROVE  LiveTags(link'.row, request[s].id) = dropped[request[s].id]
    BY DEF RestoresDropped
  <2>2. CommitAll(s) /\ request[s].op = "restore_transaction"
    BY <1>1, <2>1, WhoCommits DEF Cascading, Commits
  <2>3. QED
    BY <1>1, <2>2, RestoredTags
<1>2. IInv /\ [Next]_vars => [RestoresDropped]_vars
  BY <1>1
<1>3. [RestoresDropped]_vars =>
        [\A s \in Session : Commits(s, "restore_transaction") =>
           LiveTags(link'.row, request[s].id) = dropped[request[s].id]]_vars
  BY DEF RestoresDropped
<1>4. QED
  BY <1>2, <1>3, Invariance, PTL DEF Spec, RestoreRevivesItsOwn

(* A promotion leaves the ledger row the draft's junctions. *)
LEMMA PromotedTags ==
  ASSUME IInv, NEW s \in Session, CommitAll(s), request[s].op = "promote_inbox_item"
  PROVE  LiveTags(link'.row, request[s].to) = LiveTags(link.row, request[s].id)
<1> DEFINE q == request[s]
<1>1. pc[s] = "commit" /\ q.op = "promote_inbox_item" /\ SessionInv(s) /\ Asks(q)
  BY Stations DEF IInv, SessionInv, CommitAll
<1>2. q.to \in Parent /\ q.id # q.to /\ parent.lock[q.to] = s
  BY <1>1, OwnRows, HeldRows DEF SessionInv
<1>3. parent.row[q.to] = Missing
  BY <1>1, <1>2 DEF SessionInv, LocksAreKnown, Uncommitted, Creates, Updates, Deletes
<1>4. /\ attach[s] = LiveTags(link.row, q.id) /\ attach[s] \subseteq Tag
      /\ \A h \in attach[s] : link.lock[<<q.to, h>>] = s
  BY <1>1 DEF SessionInv, PromotionIsComplete, Closed, IInv, TypeOK
<1>5. ASSUME NEW h \in Tag
      PROVE  link'.row[<<q.to, h>>] = Live <=> h \in attach[s]
  <2> DEFINE l == <<q.to, h>>
  <2>1. /\ l \in Link /\ l[1] = q.to /\ l[2] = h /\ link'.row[l] = Visible(link, s, l)
    BY <1>2, CommitTables, LinkFacts
  <2>2. link.row[l] # Live
    BY <1>2, <1>3, SentinelAssumption DEF IInv, NoOrphans, Live
  <2>3. link.lock[l] = s => h \in attach[s] /\ Visible(link, s, l) = Live
    BY <1>1, <1>2, <2>1, <2>2, CommittedLink DEF Creates, Updates, Deletes
  <2>4. QED
    BY <1>4, <2>1, <2>2, <2>3 DEF Visible
<1>6. QED
  BY <1>4, <1>5 DEF LiveTags

MovesDraftTags ==
    \A s \in Session : Commits(s, "promote_inbox_item") =>
      LiveTags(link'.row, request[s].to) = LiveTags(link.row, request[s].id)

(***************************************************************************)
(* promote reads the draft's hashtags at its first statement and writes    *)
(* them to the ledger row later.  They are the draft's to the COMMIT,      *)
(* whatever the other sessions do, and the ledger row has no others.       *)
(***************************************************************************)
THEOREM PromotionsMoveTags == Spec => PromotionMovesTags
<1>1. ASSUME IInv, [Next]_vars PROVE MovesDraftTags
  <2>1. SUFFICES ASSUME NEW s \in Session, Commits(s, "promote_inbox_item")
                 PROVE  LiveTags(link'.row, request[s].to) = LiveTags(link.row, request[s].id)
    BY DEF MovesDraftTags
  <2>2. CommitAll(s) /\ request[s].op = "promote_inbox_item"
    BY <1>1, <2>1, WhoCommits DEF Cascading, Commits
  <2>3. QED
    BY <1>1, <2>2, PromotedTags
<1>2. IInv /\ [Next]_vars => [MovesDraftTags]_vars
  BY <1>1
<1>3. [MovesDraftTags]_vars =>
        [\A s \in Session : Commits(s, "promote_inbox_item") =>
           LiveTags(link'.row, request[s].to) = LiveTags(link.row, request[s].id)]_vars
  BY DEF MovesDraftTags
<1>4. QED
  BY <1>2, <1>3, Invariance, PTL DEF Spec, PromotionMovesTags

-----------------------------------------------------------------------------
(* What an edit knows, and promoted drafts.                                  *)

(* A promoted draft is closed, and nothing reopens it. *)
PromotedAreClosed ==
    \A d \in Draft : parent.row[d] # Missing /\ parent.row[d].promoted => Buried(parent.row[d])

(* The handlers attach the hashtags of their body. *)
AttachesItsTags(s) ==
    request[s].op \in Creates \cup Updates =>
      attach[s] = IF request[s].tags = Omitted THEN {} ELSE request[s].tags

(* sync_hashtags drops every junction that its set leaves out and revives    *)
(* every one that it names: what it has not reached yet, it has to visit.    *)
SyncIsComplete(s) ==
    LET q == request[s] IN
    q.op \in Creates \cup Updates /\ q.tags # Omitted =>
      \A h \in Tag :
        LET l == <<q.id, h>> IN
        /\ link.lock[l] = s => link.latest[l] = IF h \in attach[s] THEN Live ELSE q.at
        /\ h \in attach[s] =>
             /\ pc[s] = "add_links" => l \in todo[s] \/ link.lock[l] = s
             /\ pc[s] = "commit" => link.lock[l] = s
        /\ h \notin attach[s] /\ q.op \in Updates /\ link.row[l] = Live =>
             /\ pc[s] = "visit_links" => l \in todo[s] \/ link.lock[l] = s
             /\ pc[s] \in {"add_links", "commit"} => link.lock[l] = s

(* A ledger row is never promoted. *)
PromotedAreDrafts == \A t \in Txn : parent.row[t] # Missing => ~ parent.row[t].promoted

KInv == /\ IInv /\ PromotedAreClosed /\ PromotedAreDrafts
        /\ \A s \in Session : AttachesItsTags(s) /\ SyncIsComplete(s)

(* What a step of s leaves to the others. *)
LEMMA LeavesOthers ==
  ASSUME IInv, NEW s \in Session, (\E q \in Request : Begin(s, q)) \/ Step(s) \/ Fail(s)
  PROVE  FrameOf(link, link', s, Link) /\ OnlyMoves(s) /\ LinksStay(s)
<1>1. ASSUME UNCHANGED link PROVE FrameOf(link, link', s, Link) /\ LinksStay(s)
  BY <1>1, SameTable DEF LinksStay
<1>2. /\ DOMAIN pc = Session /\ DOMAIN request = Session /\ DOMAIN attach = Session
      /\ DOMAIN todo = Session /\ served \in Nat
  BY DEF IInv, TypeOK
<1>3. ASSUME Abandon(s) PROVE FrameOf(link, link', s, Link) /\ OnlyMoves(s) /\ LinksStay(s)
  <2>1. FrameOf(link, link', s, Link) /\ link'.row = link.row
    BY <1>3, Typed, RollbackFacts DEF Abandon
  <2>2. OnlyMoves(s)
    BY <1>2, <1>3 DEF Abandon, End, OnlyMoves
  <2>3. QED
    BY <2>1, <2>2 DEF LinksStay
<1>4. CASE \E q \in Request : Begin(s, q)
  BY <1>1, <1>2, <1>4 DEF Begin, OnlyMoves
<1>5. CASE Fail(s)
  BY <1>3, <1>5 DEF Fail
<1>6. CASE CommitAll(s)
  <2>1. FrameOf(link, link', s, Link) /\ LinksStay(s)
    BY <1>6, CommitTables, CommitKeeps DEF Frames
  <2>2. QED
    BY <1>2, <1>6, <2>1 DEF CommitAll, End, OnlyMoves
<1>7. ASSUME NEW l \in Link, VisitLink(s, l) \/ AddLink(s, l)
      PROVE  FrameOf(link, link', s, Link) /\ OnlyMoves(s) /\ LinksStay(s)
  <2>1. /\ Free(link, s, l)
        /\ \/ link' = link
           \/ link' = LockRow(link, s, l)
           \/ \E v : link' = WriteRow(link, s, l, v)
    BY <1>7 DEF VisitLink, AddLink
  <2>2. link.lock \in [Link -> Session \cup {Nobody}] /\ DOMAIN link.latest = Link
    BY Typed DEF Tables
  <2>3. FrameOf(link, link', s, Link) /\ link'.row = link.row
    BY <2>1, <2>2 DEF FrameOf, LockRow, WriteRow, Free
  <2>4. OnlyMoves(s)
    BY <1>2, <1>7 DEF VisitLink, AddLink, OnlyMoves
  <2>5. QED
    BY <2>3, <2>4 DEF LinksStay
<1>8. CASE Create(s) \/ LockParent(s) \/ ReadDraft(s) \/ Dismiss(s) \/ InsertLedger(s)
           \/ CloseDraft(s) \/ CheckTags(s)
  BY <1>1, <1>2, <1>3, <1>8
     DEF Create, LockParent, ReadDraft, Dismiss, InsertLedger, CloseDraft, CheckTags, Insert,
         Refuse, Goto, OnlyMoves
<1>9. CASE SelectLinks(s) \/ LinksVisited(s) \/ LinksAdded(s)
  BY <1>1, <1>2, <1>9 DEF SelectLinks, LinksVisited, LinksAdded, Goto, OnlyMoves
<1>10. CASE InsertTag(s) \/ ReadTag(s) \/ DeleteTag(s) \/ RestoreTag(s)
            \/ \E p \in Parent : BumpParent(s, p)
  BY <1>1, <1>2, <1>3, <1>10
     DEF InsertTag, ReadTag, DeleteTag, RestoreTag, BumpParent, Refuse, Goto, OnlyMoves
<1>11. QED
  BY <1>4, <1>5, <1>6, <1>7, <1>8, <1>9, <1>10 DEF Step

(* An edit keeps its part while others move. *)
LEMMA EditsStand ==
  ASSUME KInv, NEW s \in Session, (\E q \in Request : Begin(s, q)) \/ Step(s) \/ Fail(s),
         NEW u \in Session \ {s}
  PROVE  AttachesItsTags(u)' /\ SyncIsComplete(u)'
<1> DEFINE q == request[u]
<1>1. /\ IInv /\ SessionInv(u) /\ AttachesItsTags(u) /\ SyncIsComplete(u)
      /\ FrameOf(link, link', s, Link) /\ LinksStay(s)
      /\ pc'[u] = pc[u] /\ request'[u] = q /\ attach'[u] = attach[u] /\ todo'[u] = todo[u]
  BY LeavesOthers DEF KInv, IInv, OnlyMoves
<1>2. AttachesItsTags(u)'
  BY <1>1 DEF AttachesItsTags
<1>3. SUFFICES ASSUME q.op \in Creates \cup Updates, q.tags # Omitted, NEW h \in Tag
               PROVE  LET l == <<q.id, h>> IN
                      /\ link'.lock[l] = u =>
                           link'.latest[l] = IF h \in attach[u] THEN Live ELSE q.at
                      /\ h \in attach[u] =>
                           /\ pc[u] = "add_links" => l \in todo[u] \/ link'.lock[l] = u
                           /\ pc[u] = "commit" => link'.lock[l] = u
                      /\ h \notin attach[u] /\ q.op \in Updates /\ link'.row[l] = Live =>
                           /\ pc[u] = "visit_links" => l \in todo[u] \/ link'.lock[l] = u
                           /\ pc[u] \in {"add_links", "commit"} => link'.lock[l] = u
  BY <1>1, <1>2 DEF SyncIsComplete
<1> DEFINE l == <<q.id, h>>
<1>4. pc[u] # "idle" /\ Asks(q) /\ q.id \in Parent /\ l \in Link
  <2>1. pc[u] # "idle" /\ Asks(q)
    <3>1. AtItsOperation(u) /\ NoRequest.op = "none"
      BY <1>1 DEF SessionInv, NoRequest
    <3>2. QED
      BY <1>3, <3>1 DEF AtItsOperation, StepsOf, Creates, Updates
  <2>2. q.id \in Parent
    BY <1>3, <2>1, OwnRows
  <2>3. QED
    BY <2>1, <2>2, LinkFacts
<1>5. /\ link.lock[l] = u => link'.lock[l] = u /\ link'.latest[l] = link.latest[l]
      /\ link'.lock[l] = u => link.lock[l] = u
  BY <1>1, <1>4, SessionAssumption DEF FrameOf
<1>6. pc[u] \in {"visit_links", "add_links", "commit"} => link'.row[l] = link.row[l]
  <2>1. pc[u] \in {"visit_links", "add_links", "commit"} => parent.lock[q.id] = u
    BY <1>1, <1>3, <1>4
       DEF SessionInv, HoldsItsRows, Before, OfLedger, OfDrafts, Creates, Updates
  <2>2. QED
    BY <1>1, <1>4, <2>1, SessionAssumption DEF LinksStay
<1>7. QED
  BY <1>1, <1>3, <1>5, <1>6 DEF SyncIsComplete

LEMMA PromotedStayClosed ==
  ASSUME IInv, PromotedAreClosed, NEW s \in Session, CommitAll(s) PROVE PromotedAreClosed'
<1> DEFINE q == request[s]
<1>1. SUFFICES ASSUME NEW d \in Draft, parent'.row[d] # Missing, parent'.row[d].promoted
               PROVE  Buried(parent'.row[d])
  BY DEF PromotedAreClosed
<1> DEFINE v == parent.row[d]
           w == Visible(parent, s, d)
<1>2. /\ pc[s] = "commit" /\ IInv /\ SessionInv(s) /\ Asks(q)
      /\ d \in Parent /\ d \notin Txn /\ parent'.row[d] = w
  <2>1. pc[s] = "commit" /\ IInv /\ SessionInv(s)
    BY DEF CommitAll, IInv
  <2>2. Asks(q)
    BY <2>1, Stations DEF SessionInv
  <2>3. d \in Parent /\ d \notin Txn
    BY ParentAssumption DEF Parent
  <2>4. parent'.row[d] = w
    BY <2>1, <2>3, CommitTables
  <2>5. QED
    BY <2>1, <2>2, <2>3, <2>4
<1>3. v # Missing
  BY <1>1, <1>2, CommittedRow
<1>4. CASE parent.lock[d] # s
  BY <1>1, <1>2, <1>3, <1>4 DEF Visible, PromotedAreClosed
<1>5. CASE parent.lock[d] = s
  <2>1. /\ Uncommitted(s, d) /\ w = parent.latest[d] /\ v \in ParentRow
        /\ (v.promoted => Buried(v)) /\ q.at \in Time /\ q.at # Null
        /\ w.promoted => v.promoted \/ (q.op = "promote_inbox_item" /\ d = q.id)
    BY <1>2, <1>3, <1>5, Typed, OwnRows, CommittedRow
       DEF SessionInv, LocksAreKnown, Visible, PromotedAreClosed
  <2>2. CASE q.op = "promote_inbox_item" /\ d = q.id
    <3>1. w = Promoted(v, q.at)
      <4>1. q.op \notin Creates \cup Updates \cup Deletes /\ q.to # d
        BY <1>2, <2>2, OwnRows DEF Creates, Updates, Deletes
      <4>2. QED
        BY <1>2, <1>3, <2>1, <2>2, <4>1 DEF Uncommitted, Closed
    <3>2. QED
      BY <1>2, <2>1, <3>1, PromotedFacts DEF Buried
  <2>3. CASE ~ (q.op = "promote_inbox_item" /\ d = q.id)
    <3>1. Buried(v)
      BY <1>1, <1>2, <2>1, <2>3
    <3>2. ~ (q.op = "restore_transaction" /\ d = q.id)
      BY <1>2, OwnRows DEF OfLedger
    <3>3. \/ w = DeletedAt(v, q.at)
          \/ w = Bumped(v)
      BY <1>3, <2>1, <2>3, <3>1, <3>2 DEF Uncommitted, Active, Buried
    <3>4. CASE w = DeletedAt(v, q.at)
      BY <1>2, <2>1, <3>4, DeletedAtFacts DEF Buried
    <3>5. CASE w = Bumped(v)
      BY <1>2, <2>1, <3>1, <3>5, BumpedFacts DEF Buried
    <3>6. QED
      BY <3>3, <3>4, <3>5
  <2>4. QED
    BY <2>2, <2>3
<1>6. QED
  BY <1>4, <1>5

(* What an edit knows before it reaches the junctions, and when it ends. *)
LEMMA SyncStarts ==
  ASSUME NEW s \in Session, AttachesItsTags(s)',
         \A l \in Link : link'.lock[l] # s,
         request'[s].op \in Creates \cup Updates => request'[s].id \in Parent,
         pc'[s] \notin {"visit_links", "add_links"},
         pc'[s] = "commit" => attach'[s] = {} /\ (request'[s].op \in Updates => request'[s].tags = Omitted)
  PROVE  SyncIsComplete(s)'
  BY LinkFacts DEF SyncIsComplete, Creates, Updates

LEMMA SyncEnds ==
  ASSUME KInv, NEW s \in Session, End(s) PROVE AttachesItsTags(s)' /\ SyncIsComplete(s)'
<1>1. request'[s].op = "none"
  BY DEF KInv, IInv, TypeOK, End, NoRequest
<1>2. QED
  BY <1>1 DEF AttachesItsTags, SyncIsComplete, Creates, Updates

LEMMA SyncBegins ==
  ASSUME KInv, NEW s \in Session, NEW q \in Request, Begin(s, q)
  PROVE  AttachesItsTags(s)' /\ SyncIsComplete(s)'
<1>1. /\ pc[s] = "idle" /\ UNCHANGED link /\ request'[s].op = q.op /\ request'[s].tags = q.tags
      /\ request'[s].id = q.id
      /\ attach'[s] = (IF q.tags = Omitted THEN {} ELSE q.tags) /\ pc'[s] = FirstStep[q.op]
  BY DEF Begin, KInv, IInv, TypeOK
<1>2. AttachesItsTags(s)'
  BY <1>1 DEF AttachesItsTags
<1>3. \A l \in Link : link.lock[l] # s
  BY <1>1, NoLinks DEF KInv, IInv, SessionInv
<1>4. q.op \in Creates \cup Updates => q.id \in Parent
  BY RequestFacts DEF Creates, Updates, OfLedger, OfDrafts, Parent
<1>5. pc'[s] \notin {"visit_links", "add_links", "commit"}
  BY <1>1, RequestFacts, FirstFacts
<1>6. QED
  BY <1>1, <1>2, <1>3, <1>4, <1>5, SyncStarts

(* A request that is no edit has nothing to keep. *)
LEMMA SyncElsewhere ==
  ASSUME KInv, NEW s \in Session, UNCHANGED request,
         request[s].op \notin Creates \cup Updates
  PROVE  AttachesItsTags(s)' /\ SyncIsComplete(s)'
  BY DEF AttachesItsTags, SyncIsComplete

(* The statements on the row, before those on the junctions. *)
LEMMA SyncLocks ==
  ASSUME KInv, NEW s \in Session, Create(s) \/ LockParent(s) \/ CheckTags(s), ~ Abandon(s),
         request[s].op \in Creates \cup Updates
  PROVE  AttachesItsTags(s)' /\ SyncIsComplete(s)'
<1> DEFINE q == request[s]
<1>1. /\ pc[s] \in {"insert", "lock", "check_tags"} /\ UNCHANGED <<request, link, attach>>
      /\ AttachesItsTags(s) /\ SessionInv(s)
  BY DEF Create, LockParent, CheckTags, Insert, Refuse, Goto, KInv, IInv, Creates, Updates
<1>2. /\ AttachesItsTags(s)' /\ Asks(q) /\ q.id \in Parent
      /\ \A l \in Link : link.lock[l] # s
      /\ pc[s] = "insert" => q.op \in Creates
      /\ pc[s] = "lock" => q.op \in Updates
  BY <1>1, Stations, NoLinks, OwnRows
     DEF AttachesItsTags, SessionInv, Creates, Updates
<1>3. CASE Create(s)
  <2>1. pc'[s] = (IF attach[s] = {} THEN "commit" ELSE "check_tags") /\ q.op \in Creates
    BY <1>1, <1>2, <1>3 DEF Create, Insert, Refuse, Goto, KInv, IInv, TypeOK
  <2>2. QED
    BY <1>1, <1>2, <2>1, SyncStarts DEF Creates, Updates
<1>4. CASE LockParent(s)
  <2>1. pc'[s] = AfterLock(q) /\ q.op \in Updates
    BY <1>1, <1>2, <1>4 DEF LockParent, Refuse, Goto, KInv, IInv, TypeOK
  <2>2. /\ AfterLock(q) \in {"check_tags", "select_links", "commit"}
        /\ AfterLock(q) = "commit" => q.tags = Omitted
    BY <2>1 DEF AfterLock, Updates
  <2>3. q.tags = Omitted => attach[s] = {}
    BY <1>1, <2>1 DEF AttachesItsTags
  <2>4. QED
    BY <1>1, <1>2, <2>1, <2>2, <2>3, SyncStarts
<1>5. CASE CheckTags(s)
  <2>1. CASE q.op \in Updates
    <3>1. pc'[s] = "select_links"
      BY <1>1, <1>5, <2>1 DEF CheckTags, Refuse, Goto, KInv, IInv, TypeOK, Updates
    <3>2. QED
      BY <1>1, <1>2, <3>1, SyncStarts
  <2>2. CASE q.op \in Creates
    <3>1. pc'[s] = "add_links" /\ todo'[s] = {q.id} \X attach[s]
      BY <1>1, <1>5, <2>2
         DEF CheckTags, Synced, Refuse, Goto, KInv, IInv, TypeOK, Creates
    <3>2. \A h \in Tag : <<q.id, h>> \in Link
      BY <1>2, LinkFacts
    <3>3. QED
      BY <1>1, <1>2, <2>2, <3>1, <3>2 DEF SyncIsComplete, Creates, Updates
  <2>3. QED
    BY <2>1, <2>2
<1>6. QED
  BY <1>3, <1>4, <1>5

(* The statements on the junctions, between them and after them. *)
LEMMA SyncMoves ==
  ASSUME KInv, NEW s \in Session, SelectLinks(s) \/ LinksVisited(s) \/ LinksAdded(s),
         request[s].op \in Creates \cup Updates
  PROVE  AttachesItsTags(s)' /\ SyncIsComplete(s)'
<1> DEFINE q == request[s]
<1>1. /\ pc[s] \in {"select_links", "visit_links", "add_links"}
      /\ UNCHANGED <<request, link, attach>>
      /\ AttachesItsTags(s) /\ SyncIsComplete(s) /\ SessionInv(s)
  BY DEF SelectLinks, LinksVisited, LinksAdded, Goto, KInv, IInv
<1>2. /\ AttachesItsTags(s)' /\ Asks(q) /\ q.id \in Parent
      /\ pc[s] \in {"select_links", "visit_links"} => q.op \in Updates
  BY <1>1, Stations, OwnRows
     DEF AttachesItsTags, SessionInv, Creates, Updates, Cascading, Deletes
<1>3. \A h \in Tag : <<q.id, h>> \in Link /\ <<q.id, h>>[1] = q.id /\ <<q.id, h>>[2] = h
  BY <1>2, LinkFacts
<1>4. CASE SelectLinks(s)
  <2>1. pc'[s] = "visit_links" /\ todo'[s] = {l \in Link : Matches(s, l)} /\ q.op \in Updates
    BY <1>1, <1>2, <1>4 DEF SelectLinks, Goto, KInv, IInv, TypeOK
  <2>2. \A l \in Link : link.lock[l] # s
    BY <1>4, <2>1, NoLinks DEF SelectLinks, KInv, IInv, SessionInv, Updates
  <2>3. Kept(s) = attach[s]
    BY <2>1 DEF Kept, Updates
  <2>4. \A h \in Tag : h \notin attach[s] /\ link.row[<<q.id, h>>] = Live =>
                         <<q.id, h>> \in todo'[s]
    BY <1>3, <2>1, <2>2, <2>3 DEF Matches, Visible, Updates
  <2>5. QED
    BY <1>1, <1>2, <1>3, <2>1, <2>2, <2>4 DEF SyncIsComplete
<1>5. CASE LinksVisited(s)
  <2>1. /\ pc[s] = "visit_links" /\ todo[s] = {} /\ q.op \in Updates
        /\ \/ pc'[s] = "add_links" /\ todo'[s] = {q.id} \X attach[s]
           \/ pc'[s] = "commit" /\ attach[s] = {}
    BY <1>1, <1>2, <1>5 DEF LinksVisited, Goto, KInv, IInv, TypeOK, Updates
  <2>2. QED
    BY <1>1, <1>2, <1>3, <2>1 DEF SyncIsComplete
<1>6. CASE LinksAdded(s)
  <2>1. pc[s] = "add_links" /\ todo[s] = {} /\ pc'[s] = "commit"
    BY <1>1, <1>2, <1>6 DEF LinksAdded, Goto, KInv, IInv, TypeOK, Creates, Updates
  <2>2. QED
    BY <1>1, <1>2, <1>3, <2>1 DEF SyncIsComplete
<1>7. QED
  BY <1>4, <1>5, <1>6

(* A junction that sync_hashtags drops. *)
LEMMA SyncVisits ==
  ASSUME KInv, NEW s \in Session, NEW l \in Link, VisitLink(s, l),
         request[s].op \in Creates \cup Updates
  PROVE  AttachesItsTags(s)' /\ SyncIsComplete(s)'
<1> DEFINE q == request[s]
<1>1. /\ pc[s] = "visit_links" /\ UNCHANGED <<request, attach, pc>>
      /\ todo'[s] = todo[s] \ {l}
      /\ AttachesItsTags(s) /\ SyncIsComplete(s) /\ SessionInv(s)
  BY DEF VisitLink, KInv, IInv, TypeOK
<1>2. AttachesItsTags(s)' /\ Asks(q) /\ q.id \in Parent /\ q.op \in Updates /\ q.at # Live
  BY <1>1, Stations, OwnRows
     DEF AttachesItsTags, SessionInv, Creates, Updates, Cascading, Deletes, Live
<1>3. \A h \in Tag : <<q.id, h>> \in Link /\ <<q.id, h>>[1] = q.id /\ <<q.id, h>>[2] = h
  BY <1>2, LinkFacts
<1>4. /\ Kept(s) = attach[s]
      /\ Matches(s, l) <=> l[1] = q.id /\ l[2] \notin attach[s] /\ Visible(link, s, l) = Live
  BY <1>2 DEF Matches, Kept, Updates
<1>5. link' = IF Matches(s, l) THEN WriteRow(link, s, l, q.at) ELSE link
  BY <1>2 DEF VisitLink, Updates
<1>6. link.lock \in [Link -> Session \cup {Nobody}] /\ DOMAIN link.latest = Link
  BY Typed DEF KInv, Tables
<1>7. /\ link'.row = link.row
      /\ \A k \in Link : /\ link.lock[k] = s => link'.lock[k] = s
                         /\ k # l => /\ link'.lock[k] = link.lock[k]
                                     /\ link'.latest[k] = link.latest[k]
      /\ Matches(s, l) => link'.lock[l] = s /\ link'.latest[l] = q.at
      /\ ~ Matches(s, l) => link'.lock[l] = link.lock[l] /\ link'.latest[l] = link.latest[l]
  BY <1>5, <1>6 DEF WriteRow
<1>8. ASSUME q.tags # Omitted, NEW h \in Tag
      PROVE  LET k == <<q.id, h>> IN
             /\ link'.lock[k] = s => link'.latest[k] = IF h \in attach[s] THEN Live ELSE q.at
             /\ h \notin attach[s] /\ link'.row[k] = Live => k \in todo'[s] \/ link'.lock[k] = s
  <2> DEFINE k == <<q.id, h>>
  <2>1. /\ k \in Link /\ k[1] = q.id /\ k[2] = h
        /\ link.lock[k] = s => link.latest[k] = IF h \in attach[s] THEN Live ELSE q.at
        /\ h \notin attach[s] /\ link.row[k] = Live => k \in todo[s] \/ link.lock[k] = s
    BY <1>1, <1>2, <1>3, <1>8 DEF SyncIsComplete
  <2>2. CASE k # l
    BY <1>1, <1>7, <2>1, <2>2
  <2>3. CASE k = l
    <3>1. Matches(s, l) => h \notin attach[s]
      BY <1>4, <2>1, <2>3
    <3>2. h \notin attach[s] /\ link.row[k] = Live => Matches(s, l) \/ link.lock[k] = s
      BY <1>4, <2>1, <2>3 DEF Visible
    <3>3. QED
      BY <1>7, <2>1, <2>3, <3>1, <3>2
  <2>4. QED
    BY <2>2, <2>3
<1>9. QED
  BY <1>1, <1>2, <1>8 DEF SyncIsComplete

(* A junction that the upsert attaches. *)
LEMMA SyncAdds ==
  ASSUME KInv, NEW s \in Session, NEW l \in Link, AddLink(s, l),
         request[s].op \in Creates \cup Updates
  PROVE  AttachesItsTags(s)' /\ SyncIsComplete(s)'
<1> DEFINE q == request[s]
<1>1. /\ pc[s] = "add_links" /\ UNCHANGED <<request, attach, pc>> /\ l \in todo[s]
      /\ todo'[s] = todo[s] \ {l} /\ Free(link, s, l)
      /\ AttachesItsTags(s) /\ SyncIsComplete(s) /\ SessionInv(s)
      /\ link' = IF Visible(link, s, l) = Live THEN LockRow(link, s, l)
                 ELSE WriteRow(link, s, l, Live)
  BY DEF AddLink, KInv, IInv, TypeOK
<1>2. AttachesItsTags(s)' /\ Asks(q) /\ q.id \in Parent
  BY <1>1, Stations, OwnRows DEF AttachesItsTags, SessionInv
<1>3. \A h \in Tag : <<q.id, h>> \in Link /\ <<q.id, h>>[1] = q.id /\ <<q.id, h>>[2] = h
  BY <1>2, LinkFacts
<1>4. l[2] \in attach[s]
  BY <1>1 DEF SessionInv, WorkIsKnown
<1>5. link.lock \in [Link -> Session \cup {Nobody}] /\ DOMAIN link.latest = Link
  BY Typed DEF KInv, Tables
<1>6. Visible(link, s, l) = Live => link.latest[l] = Live
  BY <1>1, Typed DEF KInv, Visible, Free, Settled
<1>7. /\ link'.row = link.row
      /\ \A k \in Link : k # l => /\ link'.lock[k] = link.lock[k]
                                  /\ link'.latest[k] = link.latest[k]
      /\ link'.lock[l] = s /\ link'.latest[l] = Live
  BY <1>1, <1>5, <1>6 DEF WriteRow, LockRow
<1>8. ASSUME q.tags # Omitted, NEW h \in Tag
      PROVE  LET k == <<q.id, h>> IN
             /\ link'.lock[k] = s => link'.latest[k] = IF h \in attach[s] THEN Live ELSE q.at
             /\ h \in attach[s] => k \in todo'[s] \/ link'.lock[k] = s
             /\ h \notin attach[s] /\ q.op \in Updates /\ link'.row[k] = Live =>
                  link'.lock[k] = s
  <2> DEFINE k == <<q.id, h>>
  <2>1. /\ k \in Link /\ k[1] = q.id /\ k[2] = h
        /\ link.lock[k] = s => link.latest[k] = IF h \in attach[s] THEN Live ELSE q.at
        /\ h \in attach[s] => k \in todo[s] \/ link.lock[k] = s
        /\ h \notin attach[s] /\ q.op \in Updates /\ link.row[k] = Live => link.lock[k] = s
    BY <1>1, <1>3, <1>8 DEF SyncIsComplete, KInv
  <2>2. CASE k # l
    BY <1>1, <1>7, <2>1, <2>2
  <2>3. CASE k = l
    BY <1>4, <1>7, <2>1, <2>3
  <2>4. QED
    BY <2>2, <2>3
<1>9. QED
  BY <1>1, <1>2, <1>8 DEF SyncIsComplete

LEMMA SyncStep ==
  ASSUME KInv, NEW s \in Session, (\E q \in Request : Begin(s, q)) \/ Step(s) \/ Fail(s)
  PROVE  AttachesItsTags(s)' /\ SyncIsComplete(s)'
<1> DEFINE q == request[s]
<1>1. SessionInv(s)
  BY DEF KInv, IInv
<1>2. ASSUME Abandon(s) \/ CommitAll(s) PROVE AttachesItsTags(s)' /\ SyncIsComplete(s)'
  BY <1>2, SyncEnds DEF Abandon, CommitAll
<1>3. CASE q.op \in Creates \cup Updates /\ Step(s) /\ ~ Abandon(s) /\ ~ CommitAll(s)
  <2>1. /\ ~ (ReadDraft(s) \/ Dismiss(s) \/ InsertLedger(s) \/ CloseDraft(s) \/ InsertTag(s))
        /\ ~ (ReadTag(s) \/ DeleteTag(s) \/ RestoreTag(s) \/ \E p \in Parent : BumpParent(s, p))
    BY <1>1, <1>3, Stations
       DEF SessionInv, ReadDraft, Dismiss, InsertLedger, Insert, CloseDraft, InsertTag, ReadTag,
           DeleteTag, RestoreTag, BumpParent, Creates, Updates
  <2>2. QED
    BY <1>3, <2>1, SyncLocks, SyncMoves, SyncVisits, SyncAdds DEF Step
<1>4. CASE q.op \notin Creates \cup Updates /\ Step(s) /\ ~ Abandon(s) /\ ~ CommitAll(s)
  <2>1. UNCHANGED request
    BY <1>4
       DEF Step, Create, LockParent, ReadDraft, Dismiss, InsertLedger, Insert, CloseDraft,
           CheckTags, SelectLinks, VisitLink, LinksVisited, AddLink, LinksAdded, InsertTag,
           ReadTag, BumpParent, DeleteTag, RestoreTag, Refuse, Goto
  <2>2. QED
    BY <1>4, <2>1, SyncElsewhere
<1>5. QED
  BY <1>2, <1>3, <1>4, SyncBegins DEF Fail

LEMMA EditsInvariance == Spec => []KInv
<1>1. Init => KInv
  <2>1. ASSUME Init, NEW p \in Parent, parent.row[p] # Missing PROVE ~ parent.row[p].promoted
    BY <2>1 DEF Init, AtRest, Row
  <2>2. ASSUME Init, NEW s \in Session PROVE AttachesItsTags(s) /\ SyncIsComplete(s)
    BY <2>2 DEF Init, NoRequest, AttachesItsTags, SyncIsComplete, Creates, Updates
  <2>3. QED
    BY <2>1, <2>2, InitInvariant DEF KInv, PromotedAreClosed, PromotedAreDrafts, Parent
<1>2. KInv /\ [Next]_vars => KInv'
  <2>1. SUFFICES ASSUME KInv, [Next]_vars PROVE KInv'
    OBVIOUS
  <2>2. IInv'
    BY <2>1, NextInvariant DEF KInv
  <2>3. PromotedAreClosed' /\ PromotedAreDrafts'
    <3>1. CASE parent'.row = parent.row
      BY <2>1, <3>1 DEF KInv, PromotedAreClosed, PromotedAreDrafts
    <3>2. CASE \E s \in Session : CommitAll(s)
      <4>1. PICK s \in Session : CommitAll(s)
        BY <3>2
      <4>2. PromotedAreClosed'
        BY <2>1, <4>1, PromotedStayClosed DEF KInv
      <4>3. ASSUME NEW t \in Txn, parent'.row[t] # Missing PROVE ~ parent'.row[t].promoted
        <5>1. t \in Parent /\ t \notin Draft /\ parent'.row[t] = Visible(parent, s, t)
          BY <2>1, <4>1, ParentAssumption, CommitTables DEF KInv, Parent
        <5>2. pc[s] = "commit" /\ (request[s].op = "promote_inbox_item" => request[s].id \in Draft)
          BY <2>1, <4>1, Stations, OwnRows DEF KInv, IInv, SessionInv, CommitAll
        <5>3. QED
          BY <2>1, <4>3, <5>1, <5>2, CommittedRow DEF KInv, PromotedAreDrafts
      <4>4. QED
        BY <4>2, <4>3 DEF PromotedAreDrafts
    <3>3. QED
      BY <2>1, <3>1, <3>2, OnlyCommitsShow
  <2>4. \A s \in Session : AttachesItsTags(s)' /\ SyncIsComplete(s)'
    <3>1. CASE Next
      BY <2>1, <3>1, SyncStep, EditsStand DEF Next
    <3>2. CASE UNCHANGED vars
      <4>1. ASSUME NEW s \in Session PROVE AttachesItsTags(s)' /\ SyncIsComplete(s)'
        <5>1. AttachesItsTags(s) /\ SyncIsComplete(s)
          BY <2>1 DEF KInv
        <5>2. UNCHANGED <<link, request, pc, attach, todo>>
          BY <3>2 DEF vars
        <5>3. QED
          BY <5>1, <5>2 DEF AttachesItsTags, SyncIsComplete
      <4>2. QED
        BY <4>1
    <3>3. QED
      BY <2>1, <3>1, <3>2
  <2>5. QED
    BY <2>2, <2>3, <2>4 DEF KInv
<1>3. QED
  BY <1>1, <1>2, PTL DEF Spec

EditsTakeEffect ==
    \A s \in Session, op \in {"create_transaction", "create_inbox_item",
                              "update_transaction", "update_inbox_item"} :
      Commits(s, op) /\ request[s].tags # Omitted =>
        LiveTags(link'.row, request[s].id) = request[s].tags

(***************************************************************************)
(* A creation or an edit leaves exactly the hashtags of its body.  Only    *)
(* delete_hashtag changes the junctions of a row that another session has  *)
(* locked; it can only drop them, and waits for those the edit has reached *)
(* or is waited for.                                                       *)
(***************************************************************************)
THEOREM EditsAreWhole == Spec => TagsAreAsAsked
<1>1. ASSUME KInv, [Next]_vars PROVE EditsTakeEffect
  <2>1. SUFFICES ASSUME NEW s \in Session, NEW op \in Creates \cup Updates, Commits(s, op),
                        request[s].tags # Omitted
                 PROVE  LiveTags(link'.row, request[s].id) = request[s].tags
    BY DEF EditsTakeEffect, Creates, Updates
  <2> DEFINE q == request[s]
  <2>2. IInv /\ CommitAll(s) /\ pc[s] = "commit" /\ q.op = op
    BY <1>1, <2>1, WhoCommits DEF KInv, Commits
  <2>3. SessionInv(s) /\ AttachesItsTags(s) /\ SyncIsComplete(s) /\ Asks(q)
    BY <1>1, <2>2, Stations DEF KInv, IInv, SessionInv
  <2>4. attach[s] = q.tags /\ attach[s] \subseteq Tag
    BY <2>1, <2>2, <2>3 DEF AttachesItsTags, IInv, TypeOK
  <2>5. q.id \in Parent /\ q.at # Live /\ parent.lock[q.id] = s
    BY <2>1, <2>2, <2>3, OwnRows
       DEF SessionInv, HoldsItsRows, Before, OfLedger, OfDrafts, Creates, Updates, Live
  <2>6. q.op \in Creates => parent.row[q.id] = Missing
    BY <2>2, <2>3, <2>5
       DEF SessionInv, LocksAreKnown, Uncommitted, Creates, Updates, Deletes
  <2>7. ASSUME NEW h \in Tag PROVE link'.row[<<q.id, h>>] = Live <=> h \in attach[s]
    <3> DEFINE l == <<q.id, h>>
    <3>1. l \in Link /\ link'.row[l] = Visible(link, s, l)
      BY <2>2, <2>5, CommitTables, LinkFacts
    <3>2. /\ link.lock[l] = s => link.latest[l] = IF h \in attach[s] THEN Live ELSE q.at
          /\ h \in attach[s] => link.lock[l] = s
          /\ h \notin attach[s] /\ q.op \in Updates /\ link.row[l] = Live => link.lock[l] = s
      BY <2>1, <2>2, <2>3 DEF SyncIsComplete
    <3>3. q.op \in Creates => link.row[l] # Live
      BY <2>2, <2>5, <2>6, SentinelAssumption DEF IInv, NoOrphans, Live
    <3>4. QED
      BY <2>1, <2>2, <2>5, <3>1, <3>2, <3>3 DEF Visible
  <2>8. QED
    BY <2>4, <2>7 DEF LiveTags
<1>2. KInv /\ [Next]_vars => [EditsTakeEffect]_vars
  BY <1>1
<1>3. [EditsTakeEffect]_vars =>
        [\A s \in Session, op \in {"create_transaction", "create_inbox_item",
                                   "update_transaction", "update_inbox_item"} :
           Commits(s, op) /\ request[s].tags # Omitted =>
             LiveTags(link'.row, request[s].id) = request[s].tags]_vars
  BY DEF EditsTakeEffect
<1>4. QED
  BY <1>2, <1>3, EditsInvariance, PTL DEF Spec, TagsAreAsAsked

-----------------------------------------------------------------------------
(* The refinement of TaggedRows.                                             *)

LEMMA StateFacts ==
  ASSUME NEW v \in ParentRow
  PROVE  /\ v.promoted => StateOf(v) = "promoted"
         /\ ~ v.promoted /\ v.deletedAt = Null => StateOf(v) = "active"
         /\ ~ v.promoted /\ v.deletedAt # Null => StateOf(v) = "deleted"
         /\ OriginOf(v) = v.from
<1>1. v # Missing /\ v.promoted \in BOOLEAN
  BY MissingAssumption DEF ParentRow
<1>2. QED
  BY <1>1 DEF StateOf, OriginOf

LEMMA NoRowFacts == StateOf(Missing) = "absent" /\ OriginOf(Missing) = Null
  BY DEF StateOf, OriginOf

(* The rows that the request of s has locked when it commits, and how.       *)
LEMMA CommittedRows ==
  ASSUME KInv, NEW s \in Session, CommitAll(s)
  PROVE  LET q == request[s] IN
         /\ pc[s] = "commit" /\ IInv /\ SessionInv(s) /\ Asks(q)
         /\ \A p \in Parent : parent.lock[p] = s => Uncommitted(s, p)
         /\ q.op \in Creates \cup Updates \cup Cascading => q.id \in Parent /\ parent.lock[q.id] = s
         /\ q.op = "promote_inbox_item" => q.to \in Parent /\ parent.lock[q.to] = s
<1> DEFINE q == request[s]
<1>1. pc[s] = "commit" /\ IInv /\ SessionInv(s)
  BY DEF CommitAll, KInv, IInv
<1>2. Asks(q)
  BY <1>1, Stations DEF SessionInv
<1>3. \A p \in Parent : parent.lock[p] = s => Uncommitted(s, p)
  BY <1>1 DEF SessionInv, LocksAreKnown
<1>4. q.op \in Creates \cup Updates \cup Cascading => q.id \in Parent /\ parent.lock[q.id] = s
  BY <1>1, <1>2, OwnRows
     DEF SessionInv, HoldsItsRows, Before, OfLedger, OfDrafts, Creates, Updates, Cascading, Deletes
<1>5. q.op = "promote_inbox_item" => q.to \in Parent /\ parent.lock[q.to] = s
  BY <1>1, <1>2, OwnRows, HeldRows DEF SessionInv
<1>6. QED
  BY <1>1, <1>2, <1>3, <1>4, <1>5

(* A row that s has not locked shows after its COMMIT what it showed before. *)
LEMMA OthersKeep ==
  ASSUME KInv, NEW s \in Session, CommitAll(s), NEW p \in Parent, parent.lock[p] # s
  PROVE  parent'.row[p] = parent.row[p] /\ LiveTags(link'.row, p) = LiveTags(link.row, p)
<1>1. pc[s] = "commit" /\ IInv
  BY DEF CommitAll, KInv
<1>2. parent'.row[p] = parent.row[p]
  BY <1>1, CommitTables DEF Visible
<1>3. ASSUME NEW h \in Tag PROVE link'.row[<<p, h>>] = link.row[<<p, h>>]
  BY <1>1, CommitTables, CommittedLink, LinkFacts
<1>4. QED
  BY <1>2, <1>3 DEF LiveTags

(* A COMMIT of one row. *)
LEMMA OneRow ==
  ASSUME KInv, NEW s \in Session, CommitAll(s), NEW p \in Parent,
         \A r \in Parent : parent.lock[r] = s => r = p
  PROVE  /\ RowStates' = [RowStates EXCEPT ![p] = StateOf(parent'.row[p])]
         /\ RowTags' = [RowTags EXCEPT ![p] = LiveTags(link'.row, p)]
<1>1. \A r \in Parent : r # p =>
        parent'.row[r] = parent.row[r] /\ LiveTags(link'.row, r) = LiveTags(link.row, r)
  BY OthersKeep
<1>2. \A r \in Parent : RowStates'[r] = [RowStates EXCEPT ![p] = StateOf(parent'.row[p])][r]
  BY <1>1 DEF RowStates
<1>3. \A r \in Parent : RowTags'[r] = [RowTags EXCEPT ![p] = LiveTags(link'.row, p)][r]
  BY <1>1 DEF RowTags
<1>4. QED
  BY <1>2, <1>3 DEF RowStates, RowTags

(* Only a promotion gives a ledger row an origin, and only a deletion moves the shelf. *)
LEMMA OriginsStay ==
  ASSUME KInv, NEW s \in Session, CommitAll(s)
  PROVE  /\ request[s].op # "promote_inbox_item" => RowOrigins' = RowOrigins
         /\ request[s].op # "delete_transaction" => dropped' = dropped
<1>1. ASSUME request[s].op # "promote_inbox_item", NEW t \in Txn
      PROVE  OriginOf(parent'.row[t]) = OriginOf(parent.row[t])
  <2>1. /\ t \in Parent /\ parent'.row[t] = Visible(parent, s, t) /\ pc[s] = "commit" /\ IInv
    <3>1. t \in Parent /\ IInv
      BY DEF Parent, KInv
    <3>2. pc[s] = "commit"
      BY DEF CommitAll
    <3>3. QED
      BY <3>1, <3>2, CommitTables
  <2>2. CASE parent.row[t] = Missing /\ parent'.row[t] # Missing
    BY <1>1, <2>1, <2>2, CommittedRow DEF OriginOf
  <2>3. CASE parent.row[t] # Missing
    <3>1. parent'.row[t] \in ParentRow /\ parent'.row[t].from = parent.row[t].from
      BY <2>1, <2>3, CommittedRow
    <3>2. QED
      BY <2>3, <3>1, MissingAssumption DEF OriginOf
  <2>4. QED
    BY <2>2, <2>3
<1>2. QED
  BY <1>1 DEF RowOrigins, CommitAll

(* A row that an edit or a deletion finds active has no promotion. *)
LEMMA ActiveIsOpen ==
  ASSUME KInv, NEW p \in Parent, Active(parent.row[p])
  PROVE  parent.row[p] \in ParentRow /\ ~ parent.row[p].promoted /\ StateOf(parent.row[p]) = "active"
<1>1. parent.row[p] \in ParentRow /\ parent.row[p].deletedAt = Null
  BY Typed DEF KInv, Active
<1>2. ~ parent.row[p].promoted
  BY DEF KInv, PromotedAreClosed, PromotedAreDrafts, Active, Buried, Parent
<1>3. QED
  BY <1>1, <1>2, StateFacts

LEMMA Shown == /\ \A p : LiveTags(link.row, p) \in SUBSET Tag
               /\ \A p \in Parent : RowStates[p] = StateOf(parent.row[p])
               /\ \A p \in Parent : RowTags[p] = LiveTags(link.row, p)
               /\ Promised!Parent = Parent
  BY DEF LiveTags, RowStates, RowTags, Promised!Parent, Parent

(* Each COMMIT is one step of TaggedRows, or none.                           *)

LEMMA CreateCommits ==
  ASSUME KInv, NEW s \in Session, CommitAll(s), request[s].op \in Creates
  PROVE  Promised!Create(request[s].id, LiveTags(link'.row, request[s].id))
<1> DEFINE q == request[s]
<1>1. /\ q.id \in Parent /\ parent.row[q.id] = Missing
      /\ parent'.row[q.id] = Row(Null, Null)
      /\ \A p \in Parent : parent.lock[p] = s => p = q.id
  BY CommittedRows, CommitTables DEF Uncommitted, Visible, Creates, Updates, Deletes, KInv
<1>2. StateOf(parent.row[q.id]) = "absent" /\ StateOf(parent'.row[q.id]) = "active"
  BY <1>1, NoRowFacts, RowFacts, StateFacts
<1>3. /\ RowStates' = [RowStates EXCEPT ![q.id] = "active"]
      /\ RowTags' = [RowTags EXCEPT ![q.id] = LiveTags(link'.row, q.id)]
  BY <1>1, <1>2, OneRow
<1>4. RowOrigins' = RowOrigins /\ dropped' = dropped
  BY OriginsStay DEF Creates
<1>5. RowStates[q.id] = "absent"
  BY <1>1, <1>2, Shown
<1>6. QED
  BY <1>3, <1>4, <1>5 DEF Promised!Create, Promised!Becomes

LEMMA EditCommits ==
  ASSUME KInv, NEW s \in Session, CommitAll(s), request[s].op \in Updates
  PROVE  Promised!Edit(request[s].id, LiveTags(link'.row, request[s].id))
<1> DEFINE q == request[s]
           v == parent.row[q.id]
<1>1. /\ q.id \in Parent /\ Active(v) /\ parent'.row[q.id] = Bumped(v)
      /\ \A p \in Parent : parent.lock[p] = s => p = q.id
  BY CommittedRows, CommitTables DEF Uncommitted, Visible, Creates, Updates, Deletes, KInv
<1>2. v \in ParentRow /\ ~ v.promoted /\ StateOf(v) = "active"
  BY <1>1, ActiveIsOpen
<1>3. StateOf(parent'.row[q.id]) = "active"
  BY <1>1, <1>2, BumpedFacts, StateFacts DEF Active
<1>4. /\ RowStates' = [RowStates EXCEPT ![q.id] = "active"]
      /\ RowTags' = [RowTags EXCEPT ![q.id] = LiveTags(link'.row, q.id)]
  BY <1>1, <1>3, OneRow
<1>5. RowStates[q.id] = "active"
  BY <1>1, <1>2, Shown
<1>6. RowStates' = RowStates
  BY <1>4, <1>5 DEF RowStates
<1>7. RowOrigins' = RowOrigins /\ dropped' = dropped
  BY OriginsStay DEF Updates
<1>8. QED
  BY <1>4, <1>5, <1>6, <1>7 DEF Promised!Edit

(* What a deletion, a dismissal or the end of a draft leaves. *)
LEMMA GoneShowsNothing ==
  ASSUME KInv, NEW s \in Session, CommitAll(s), NEW p \in Parent, Buried(parent'.row[p])
  PROVE  LiveTags(link'.row, p) = {}
  BY CommitDrops DEF KInv, DeletedHaveNoTags

LEMMA DeleteCommits ==
  ASSUME KInv, NEW s \in Session, CommitAll(s), request[s].op = "delete_transaction"
  PROVE  Promised!Delete(request[s].id)
<1> DEFINE q == request[s]
           v == parent.row[q.id]
<1>1. /\ q.id \in Parent /\ Active(v) /\ parent'.row[q.id] = DeletedAt(v, q.at) /\ Asks(q)
      /\ \A p \in Parent : parent.lock[p] = s => p = q.id
  BY CommittedRows, CommitTables
     DEF Uncommitted, Visible, Creates, Updates, Deletes, Cascading, KInv
<1>2. v \in ParentRow /\ ~ v.promoted /\ StateOf(v) = "active"
  BY <1>1, ActiveIsOpen
<1>3. StateOf(parent'.row[q.id]) = "deleted" /\ Buried(parent'.row[q.id])
  BY <1>1, <1>2, OwnRows, DeletedAtFacts, StateFacts DEF Buried
<1>4. /\ RowStates' = [RowStates EXCEPT ![q.id] = "deleted"]
      /\ RowTags' = [RowTags EXCEPT ![q.id] = {}]
  BY <1>1, <1>3, OneRow, GoneShowsNothing
<1>5. RowOrigins' = RowOrigins
  BY OriginsStay
<1>6. RowStates[q.id] = "active" /\ dropped' = [dropped EXCEPT ![q.id] = RowTags[q.id]]
  BY <1>1, <1>2, Shown DEF CommitAll
<1>7. QED
  BY <1>4, <1>5, <1>6 DEF Promised!Delete, Promised!Becomes

(* A dismissal that comes after the draft's end moves only its deleted_at. *)
LEMMA DismissCommits ==
  ASSUME KInv, NEW s \in Session, CommitAll(s), request[s].op = "delete_inbox_item"
  PROVE  Promised!Dismiss(request[s].id) \/ UNCHANGED Promised!vars
<1> DEFINE q == request[s]
           v == parent.row[q.id]
<1>1. /\ q.id \in Parent /\ v # Missing /\ parent'.row[q.id] = DeletedAt(v, q.at) /\ Asks(q)
      /\ \A p \in Parent : parent.lock[p] = s => p = q.id
  BY CommittedRows, CommitTables
     DEF Uncommitted, Visible, Creates, Updates, Deletes, Cascading, KInv
<1>2. v \in ParentRow
  BY <1>1, Typed DEF KInv
<1>3. /\ Buried(parent'.row[q.id]) /\ parent'.row[q.id] \in ParentRow
      /\ parent'.row[q.id].promoted = v.promoted
  BY <1>1, <1>2, OwnRows, DeletedAtFacts DEF Buried
<1>4. /\ RowStates' = [RowStates EXCEPT ![q.id] = StateOf(parent'.row[q.id])]
      /\ RowTags' = [RowTags EXCEPT ![q.id] = {}]
  BY <1>1, <1>3, OneRow, GoneShowsNothing
<1>5. RowOrigins' = RowOrigins /\ dropped' = dropped
  BY OriginsStay
<1>6. CASE Active(v)
  <2>1. ~ v.promoted /\ StateOf(v) = "active"
    BY <1>1, <1>6, ActiveIsOpen
  <2>2. StateOf(parent'.row[q.id]) = "deleted"
    BY <1>3, <2>1, StateFacts DEF Buried
  <2>3. RowStates[q.id] = "active"
    BY <1>1, <2>1, Shown
  <2>4. QED
    BY <1>4, <1>5, <2>2, <2>3 DEF Promised!Dismiss, Promised!Becomes
<1>7. CASE ~ Active(v)
  <2>1. Buried(v)
    BY <1>1, <1>7 DEF Active, Buried
  <2>2. StateOf(parent'.row[q.id]) = StateOf(v)
    <3>1. v.promoted \in BOOLEAN
      BY <1>2 DEF ParentRow
    <3>2. CASE v.promoted
      BY <1>2, <1>3, <3>2, StateFacts
    <3>3. CASE ~ v.promoted
      BY <1>2, <1>3, <2>1, <3>3, StateFacts DEF Buried
    <3>4. QED
      BY <3>2, <3>3
  <2>3. RowStates[q.id] = StateOf(v) /\ RowTags[q.id] = {}
    BY <1>1, <2>1, Shown DEF KInv, IInv, DeletedHaveNoTags
  <2>4. RowStates' = RowStates /\ RowTags' = RowTags
    BY <1>4, <2>2, <2>3 DEF RowStates, RowTags
  <2>5. QED
    BY <1>5, <2>4 DEF Promised!vars
<1>8. QED
  BY <1>6, <1>7

LEMMA RestoreCommits ==
  ASSUME KInv, NEW s \in Session, CommitAll(s), request[s].op = "restore_transaction"
  PROVE  Promised!Restore(request[s].id)
<1> DEFINE q == request[s]
           v == parent.row[q.id]
<1>1. /\ q.id \in Parent /\ Buried(v) /\ parent'.row[q.id] = DeletedAt(v, Null) /\ Asks(q)
      /\ \A p \in Parent : parent.lock[p] = s => p = q.id
  BY CommittedRows, CommitTables
     DEF Uncommitted, Visible, Creates, Updates, Deletes, Cascading, KInv
<1>2. v \in ParentRow /\ q.id \in Txn /\ ~ v.promoted
  BY <1>1, Typed, OwnRows DEF KInv, PromotedAreDrafts, OfLedger, Buried
<1>3. StateOf(v) = "deleted" /\ StateOf(parent'.row[q.id]) = "active"
  <2>1. StateOf(v) = "deleted"
    BY <1>1, <1>2, StateFacts DEF Buried
  <2>2. /\ DeletedAt(v, Null) \in ParentRow /\ DeletedAt(v, Null).deletedAt = Null
        /\ DeletedAt(v, Null).promoted = v.promoted
    BY <1>2, DeletedAtFacts DEF Time
  <2>3. QED
    BY <1>1, <1>2, <2>1, <2>2, StateFacts
<1>4. LiveTags(link'.row, q.id) = dropped[q.id]
  BY RestoredTags DEF KInv
<1>5. /\ RowStates' = [RowStates EXCEPT ![q.id] = "active"]
      /\ RowTags' = [RowTags EXCEPT ![q.id] = dropped[q.id]]
  BY <1>1, <1>3, <1>4, OneRow
<1>6. RowOrigins' = RowOrigins /\ dropped' = dropped
  BY OriginsStay
<1>7. RowStates[q.id] = "deleted"
  BY <1>1, <1>3, Shown
<1>8. QED
  BY <1>5, <1>6, <1>7 DEF Promised!Restore, Promised!Becomes

LEMMA PromoteCommits ==
  ASSUME KInv, NEW s \in Session, CommitAll(s), request[s].op = "promote_inbox_item"
  PROVE  Promised!Promote(request[s].id, request[s].to)
<1> DEFINE q == request[s]
           v == parent.row[q.id]
<1>1. /\ q.id \in Draft /\ q.to \in Txn /\ q.id \in Parent /\ q.to \in Parent /\ q.id # q.to
      /\ parent.lock[q.id] = s /\ parent.lock[q.to] = s /\ pc[s] = "commit" /\ Asks(q) /\ IInv
      /\ \A p \in Parent : parent.lock[p] = s => Uncommitted(s, p)
  <2>1. Asks(q)
    BY CommittedRows
  <2>2. QED
    BY <2>1, CommittedRows, OwnRows DEF Cascading
<1>2. \A p \in Parent : parent.lock[p] = s => p = q.id \/ p = q.to
  BY <1>1 DEF Uncommitted, Creates, Updates, Deletes
<1>3. Active(v) /\ parent'.row[q.id] = Promoted(v, q.at)
  BY <1>1, CommitTables DEF Uncommitted, Visible, Creates, Updates, Deletes, Closed
<1>4. parent.row[q.to] = Missing /\ parent'.row[q.to] = Row(Null, q.id)
  BY <1>1, CommitTables DEF Uncommitted, Visible, Creates, Updates, Deletes
<1>5. StateOf(v) = "active" /\ StateOf(parent.row[q.to]) = "absent"
  BY <1>1, <1>3, <1>4, ActiveIsOpen, NoRowFacts
<1>6. StateOf(parent'.row[q.id]) = "promoted" /\ Buried(parent'.row[q.id])
  <2>1. v \in ParentRow /\ q.at \in Time /\ q.at # Null
    BY <1>1, <1>3, ActiveIsOpen, OwnRows
  <2>2. QED
    BY <1>3, <2>1, PromotedFacts, StateFacts DEF Buried
<1>7. StateOf(parent'.row[q.to]) = "active" /\ OriginOf(parent'.row[q.to]) = q.id
  BY <1>1, <1>4, RowFacts, StateFacts
<1>8. LiveTags(link'.row, q.id) = {} /\ LiveTags(link'.row, q.to) = LiveTags(link.row, q.id)
  BY <1>1, <1>6, GoneShowsNothing, PromotedTags
<1>9. \A p \in Parent : p # q.id /\ p # q.to =>
        parent'.row[p] = parent.row[p] /\ LiveTags(link'.row, p) = LiveTags(link.row, p)
  BY <1>2, OthersKeep
<1>10. RowStates' = [RowStates EXCEPT ![q.id] = "promoted", ![q.to] = "active"]
  BY <1>1, <1>6, <1>7, <1>9 DEF RowStates
<1>11. RowTags' = [RowTags EXCEPT ![q.id] = {}, ![q.to] = RowTags[q.id]]
  BY <1>1, <1>8, <1>9 DEF RowTags
<1>12. RowOrigins' = [RowOrigins EXCEPT ![q.to] = q.id]
  <2>1. \A t \in Txn : t # q.to => parent'.row[t] = parent.row[t]
    BY <1>1, <1>9, ParentAssumption DEF Parent
  <2>2. QED
    BY <1>1, <1>7, <2>1 DEF RowOrigins
<1>13. RowStates[q.id] = "active" /\ RowStates[q.to] = "absent" /\ dropped' = dropped
  BY <1>1, <1>5, Shown, OriginsStay
<1>14. QED
  BY <1>10, <1>11, <1>12, <1>13 DEF Promised!Promote

(* delete_hashtag bumps the rows it takes the hashtag from; the requests on  *)
(* a hashtag alone are not seen.                                             *)
LEMMA DropCommits ==
  ASSUME KInv, NEW s \in Session, CommitAll(s), request[s].op \in OfTags
  PROVE  Promised!DropTag(request[s].id,
                          {p \in Parent : link.lock[<<p, request[s].id>>] = s})
<1> DEFINE q == request[s]
           P == {p \in Parent : link.lock[<<p, q.id>>] = s}
<1>1. /\ pc[s] = "commit" /\ IInv /\ SessionInv(s) /\ Asks(q) /\ q.at # Live
      /\ \A p \in Parent : parent.lock[p] = s => Uncommitted(s, p)
  <2>1. Asks(q)
    BY CommittedRows
  <2>2. q.at # Live
    BY <2>1, OwnRows DEF Live
  <2>3. QED
    BY <2>1, <2>2, CommittedRows
<1>2. ASSUME NEW p \in Parent PROVE StateOf(parent'.row[p]) = StateOf(parent.row[p])
  <2> DEFINE v == parent.row[p]
  <2>1. CASE parent.lock[p] # s
    BY <2>1, OthersKeep
  <2>2. CASE parent.lock[p] = s
    <3>1. v # Missing /\ parent'.row[p] = Bumped(v)
      BY <1>1, <2>2, CommitTables
         DEF Uncommitted, Visible, OfTags, Creates, Updates, Deletes
    <3>2. v \in ParentRow
      BY <1>1, <3>1, Typed
    <3>3. /\ Bumped(v) # Missing /\ v # Missing
          /\ Bumped(v).deletedAt = v.deletedAt /\ Bumped(v).promoted = v.promoted
      BY <3>1, <3>2, BumpedFacts
    <3>4. StateOf(Bumped(v)) = StateOf(v)
      BY <3>3 DEF StateOf
    <3>5. QED
      BY <3>1, <3>4
  <2>3. QED
    BY <2>1, <2>2
<1>3. RowStates' = RowStates
  BY <1>2 DEF RowStates
<1>4. ASSUME NEW p \in Parent, NEW h \in Tag
      PROVE  link'.row[<<p, h>>] = Live <=>
               link.row[<<p, h>>] = Live /\ ~ (p \in P /\ h = q.id)
  <2> DEFINE l == <<p, h>>
  <2>1. l \in Link /\ l[1] = p /\ l[2] = h /\ link'.row[l] = Visible(link, s, l)
    BY <1>1, CommitTables, LinkFacts
  <2>2. CASE link.lock[l] # s
    BY <2>1, <2>2 DEF Visible
  <2>3. CASE link.lock[l] = s
    <3>1. Touched(s, l) /\ Visible(link, s, l) = link.latest[l]
      BY <1>1, <2>1, <2>3 DEF SessionInv, LocksAreKnown, Visible
    <3>2. h = q.id /\ link.row[l] = Live /\ link.latest[l] = q.at
      BY <2>1, <3>1 DEF Touched, OfTags, Creates, Updates, Deletes
    <3>3. QED
      BY <1>1, <2>1, <2>3, <3>1, <3>2
  <2>4. QED
    BY <2>2, <2>3
<1>5. \A p \in Parent : LiveTags(link'.row, p) = IF p \in P THEN LiveTags(link.row, p) \ {q.id}
                                                 ELSE LiveTags(link.row, p)
  BY <1>4 DEF LiveTags
<1>6. RowTags' = [p \in Promised!Parent |-> IF p \in P THEN RowTags[p] \ {q.id} ELSE RowTags[p]]
  BY <1>5, Shown DEF RowTags
<1>7. RowOrigins' = RowOrigins /\ dropped' = dropped
  BY OriginsStay DEF OfTags
<1>8. QED
  BY <1>3, <1>6, <1>7 DEF Promised!DropTag

(***************************************************************************)
(* The handlers implement TaggedRows, for any number of sessions and any   *)
(* interleaving of their statements: the COMMIT of a request on a row is   *)
(* the one abstract step of that request, that of delete_hashtag takes the *)
(* hashtag off the rows it has bumped, and nothing else is seen.           *)
(***************************************************************************)
THEOREM Refinement == Spec => ImplementsTaggedRows
<1>1. Init => Promised!Init
  <2>1. SUFFICES ASSUME Init PROVE Promised!Init
    OBVIOUS
  <2>2. PICK parents \in [Parent -> {Row(Null, Null), Row(1, Null), Missing}],
             tags \in [Tag -> TagRow \cup {Missing}],
             links \in [Link -> {Live, 0, 1, Missing}] :
          /\ \A d \in Draft : ~ Buried(parents[d])
          /\ Consistent(parents, tags, links)
          /\ parent.row = parents /\ link.row = links
          /\ dropped = [t \in Txn |-> {h \in Tag : links[<<t, h>>] = 1}]
    BY <2>1 DEF Init, AtRest
  <2>3. ASSUME NEW p \in Parent
        PROVE  /\ OriginOf(parents[p]) = Null
               /\ StateOf(parents[p]) \in {"absent", "active", "deleted"}
               /\ StateOf(parents[p]) = "active" <=> Active(parents[p])
               /\ StateOf(parents[p]) = "deleted" <=> Buried(parents[p])
    <3>1. CASE parents[p] = Missing
      BY <3>1, NoRowFacts DEF Active, Buried
    <3>2. CASE parents[p] # Missing
      <4>1. parents[p] \in {Row(Null, Null), Row(1, Null)}
        BY <2>2, <3>2
      <4>2. /\ parents[p] \in ParentRow /\ parents[p] # Missing
            /\ parents[p].from = Null /\ ~ parents[p].promoted
        BY <4>1, InitialRows
      <4>3. QED
        BY <4>2, StateFacts DEF Active, Buried
    <3>3. QED
      BY <3>1, <3>2
  <2>4. ASSUME NEW p \in Parent, ~ Active(parents[p]) PROVE LiveTags(links, p) = {}
    BY <2>2, <2>4, SentinelAssumption DEF Consistent, LiveTags, Live
  <2>5. /\ RowStates = [p \in Parent |-> StateOf(parents[p])]
        /\ RowOrigins = [t \in Txn |-> OriginOf(parents[t])]
        /\ RowTags = [p \in Parent |-> LiveTags(links, p)]
    BY <2>2 DEF RowStates, RowOrigins, RowTags
  <2>6. /\ RowStates \in [Parent -> {"absent", "active", "deleted"}]
        /\ \A d \in Draft : RowStates[d] # "deleted"
    BY <2>2, <2>3, <2>5 DEF Parent
  <2>7. RowOrigins = [t \in Txn |-> Null]
    BY <2>3, <2>5 DEF Parent
  <2>8. /\ RowTags \in [Parent -> SUBSET Tag]
        /\ \A p \in Parent : RowStates[p] # "active" => RowTags[p] = {}
    <3>1. RowTags \in [Parent -> SUBSET Tag]
      BY <2>5 DEF LiveTags
    <3>2. QED
      BY <2>3, <2>4, <2>5, <3>1
  <2>9. dropped \in [Txn -> SUBSET Tag]
    BY <2>2
  <2>10. QED
    BY <2>6, <2>7, <2>8, <2>9, Shown DEF Promised!Init
<1>2. KInv /\ [Next]_vars => [Promised!Next]_Promised!vars
  <2>1. SUFFICES ASSUME KInv, [Next]_vars PROVE [Promised!Next]_Promised!vars
    OBVIOUS
  <2>2. CASE parent'.row = parent.row /\ link'.row = link.row /\ dropped' = dropped
    BY <2>2 DEF Promised!vars, RowStates, RowOrigins, RowTags, LiveTags
  <2>3. ASSUME NEW s \in Session, CommitAll(s) PROVE [Promised!Next]_Promised!vars
    <3> DEFINE q == request[s]
    <3>1. Asks(q) /\ Promised!Parent = Parent
      BY <2>1, <2>3, CommittedRows, Shown
    <3>2. /\ q.op \in Creates \cup Updates => q.id \in Parent
          /\ q.op \in OfLedger => q.id \in Txn
          /\ q.op \in OfDrafts => q.id \in Draft
          /\ q.op \in OfTags => q.id \in Tag
          /\ q.op = "promote_inbox_item" => q.to \in Txn
          /\ q.op \in Operation
      BY <3>1, OwnRows DEF Asks
    <3>3. CASE q.op \in Creates \cup Updates
      <4>1. LiveTags(link'.row, q.id) \in SUBSET Tag
        BY DEF LiveTags
      <4>2. \/ Promised!Create(q.id, LiveTags(link'.row, q.id))
            \/ Promised!Edit(q.id, LiveTags(link'.row, q.id))
        BY <2>1, <2>3, <3>3, CreateCommits, EditCommits
      <4>3. QED
        BY <3>1, <3>2, <3>3, <4>1, <4>2 DEF Promised!Next
    <3>4. CASE q.op \in {"delete_transaction", "restore_transaction"}
      <4>1. q.id \in Txn
        BY <3>2, <3>4 DEF OfLedger
      <4>2. Promised!Delete(q.id) \/ Promised!Restore(q.id)
        BY <2>1, <2>3, <3>4, DeleteCommits, RestoreCommits
      <4>3. QED
        BY <4>1, <4>2 DEF Promised!Next
    <3>5. CASE q.op = "delete_inbox_item"
      <4>1. q.id \in Draft
        BY <3>2, <3>5 DEF OfDrafts
      <4>2. QED
        BY <2>1, <2>3, <3>5, <4>1, DismissCommits DEF Promised!Next
    <3>6. CASE q.op = "promote_inbox_item"
      <4>1. q.id \in Draft /\ q.to \in Txn
        BY <3>2, <3>6 DEF OfDrafts
      <4>2. QED
        BY <2>1, <2>3, <3>6, <4>1, PromoteCommits DEF Promised!Next
    <3>7. CASE q.op \in OfTags
      <4>1. {p \in Parent : link.lock[<<p, q.id>>] = s} \in SUBSET Promised!Parent
        BY <3>1
      <4>2. QED
        BY <2>1, <2>3, <3>2, <3>7, <4>1, DropCommits DEF Promised!Next
    <3>8. QED
      BY <3>2, <3>3, <3>4, <3>5, <3>6, <3>7 DEF Operation, Creates, Updates, OfTags
  <2>4. QED
    BY <2>1, <2>2, <2>3, OnlyCommitsShow
<1>3. QED
  BY <1>1, <1>2, EditsInvariance, PTL DEF Spec, ImplementsTaggedRows, Promised!Spec

-----------------------------------------------------------------------------
(* Requests served one at a time.                                            *)

(* Every request is served by the same session. *)
OneSession == \A s, u \in Session : s = u

(* The hashtags to attach were found active and still are; so are those      *)
(* that the session has attached.                                            *)
AttachesActive(s) ==
    /\ pc[s] \notin {"idle", "insert", "lock", "insert_ledger", "check_tags"} =>
         \A h \in attach[s] : tag.row[h] = "active"
    /\ \A l \in Link : link.lock[l] = s /\ link.latest[l] = Live => tag.row[l[2]] = "active"

(* The deletion of a hashtag has every junction of it. *)
TagIsCleared(s) ==
    request[s].op = "delete_hashtag" /\ pc[s] \in {"visit_links", "bump_parents", "commit"} =>
      \A l \in Link : l[2] = request[s].id /\ link.row[l] = Live =>
        link.lock[l] = s \/ (pc[s] = "visit_links" /\ l \in todo[s])

(* A hashtag is written by the last statement of a request of its own. *)
WritesItsTag(s) ==
    \A h \in Tag : tag.lock[h] = s =>
      /\ pc[s] = "commit" /\ request[s].op \in OfTags /\ h = request[s].id
      /\ tag.latest[h] # "active" => request[s].op = "delete_hashtag"

(* No transaction is restored. *)
NeverRestores(s) == request[s].op # "restore_transaction"

TagsAlone(s) ==
    /\ NeverRestores(s) /\ AttachesItsTags(s) /\ AttachesActive(s)
    /\ TagIsCleared(s) /\ WritesItsTag(s)

TInv == IInv /\ LiveTagsAreActive /\ \A s \in Session : TagsAlone(s)

(* A step that commits nothing. *)
Quiet(s) == TagsAlone(s)' /\ tag'.row = tag.row /\ link'.row = link.row

LEMMA QuietStep ==
  ASSUME OneSession, TInv, IInv', NEW s \in Session, Quiet(s) PROVE TInv'
  BY DEF OneSession, TInv, Quiet, LiveTagsAreActive, LiveTags

(* What a session at work knows of its request. *)
LEMMA TagsAtWork ==
  ASSUME TInv, NEW s \in Session, pc[s] # "idle"
  PROVE  /\ SessionInv(s) /\ TagsAlone(s) /\ Asks(request[s])
         /\ request[s].at # Live
         /\ attach[s] # {} => request[s].op \in Creates \cup Updates \cup {"promote_inbox_item"}
         /\ pc[s] # "commit" => \A h \in Tag : tag.lock[h] # s
<1>1. SessionInv(s) /\ TagsAlone(s)
  BY DEF TInv, IInv
<1>2. Asks(request[s])
  BY <1>1, Stations DEF SessionInv
<1>3. request[s].at # Live
  BY <1>2, OwnRows DEF Live
<1>4. attach[s] # {} => request[s].op \in Creates \cup Updates \cup {"promote_inbox_item"}
  BY <1>1 DEF SessionInv, AtItsOperation
<1>5. pc[s] # "commit" => \A h \in Tag : tag.lock[h] # s
  BY <1>1 DEF TagsAlone, WritesItsTag
<1>6. QED
  BY <1>1, <1>2, <1>3, <1>4, <1>5

(* The session only moves on: tables of hashtags and junctions are as before. *)
LEMMA TagsMove ==
  ASSUME TInv, NEW s \in Session, pc[s] \notin {"idle", "commit"},
         UNCHANGED <<tag, link, attach, request>>,
         /\ pc'[s] \notin {"idle", "insert", "lock", "insert_ledger", "check_tags"} =>
              \A h \in attach[s] : tag.row[h] = "active",
         TagIsCleared(s)'
  PROVE  Quiet(s)
<1>1. TagsAlone(s) /\ \A h \in Tag : tag.lock[h] # s
  BY TagsAtWork
<1>2. NeverRestores(s)' /\ AttachesItsTags(s)' /\ AttachesActive(s)' /\ WritesItsTag(s)'
  BY <1>1 DEF TagsAlone, NeverRestores, AttachesItsTags, AttachesActive, WritesItsTag
<1>3. QED
  BY <1>2 DEF Quiet, TagsAlone

LEMMA TagsEnd ==
  ASSUME TInv, NEW s \in Session, End(s),
         \A l \in Link : link'.lock[l] # s, \A h \in Tag : tag'.lock[h] # s
  PROVE  TagsAlone(s)'
<1>1. pc'[s] = "idle" /\ request'[s] = NoRequest /\ NoRequest.op = "none"
  BY DEF TInv, IInv, TypeOK, End, NoRequest
<1>2. NeverRestores(s)' /\ AttachesItsTags(s)' /\ TagIsCleared(s)'
  BY <1>1 DEF NeverRestores, AttachesItsTags, TagIsCleared, Creates, Updates
<1>3. AttachesActive(s)' /\ WritesItsTag(s)'
  BY <1>1 DEF AttachesActive, WritesItsTag
<1>4. QED
  BY <1>2, <1>3 DEF TagsAlone

LEMMA TagsAbandon ==
  ASSUME TInv, NEW s \in Session, Abandon(s) PROVE Quiet(s)
<1>1. /\ link'.row = link.row /\ \A l \in Link : link'.lock[l] # s
      /\ tag'.row = tag.row /\ \A h \in Tag : tag'.lock[h] # s
  BY Typed, RollbackFacts, SessionAssumption DEF TInv, Abandon
<1>2. QED
  BY <1>1, TagsEnd DEF Abandon, Quiet

LEMMA TagsBegin ==
  ASSUME TInv, "restore_transaction" \notin Workload,
         NEW s \in Session, NEW q \in Request, Begin(s, q)
  PROVE  Quiet(s)
<1>1. /\ pc'[s] = FirstStep[q.op] /\ request'[s].op = q.op /\ request'[s].tags = q.tags
      /\ attach'[s] = IF q.tags = Omitted THEN {} ELSE q.tags
      /\ UNCHANGED <<tag, link>> /\ pc[s] = "idle" /\ q.op \in Workload
  BY DEF Begin, TInv, IInv, TypeOK
<1>2. FirstStep[q.op] \in {"insert", "lock", "read", "insert_tag", "read_tag"}
      /\ (q.op \notin Creates \cup Updates => q.tags = Omitted)
      /\ (q.op \in Creates \cup Updates => FirstStep[q.op] \in {"insert", "lock"})
  BY RequestFacts, FirstFacts DEF Creates, Updates, FirstStep, Operation
<1>3. SessionInv(s) /\ TagsAlone(s)
  BY DEF TInv, IInv
<1>4. (\A l \in Link : link.lock[l] # s) /\ \A h \in Tag : tag.lock[h] # s
  BY <1>1, <1>3, NoLinks DEF SessionInv, TagsAlone, WritesItsTag
<1>5. NeverRestores(s)' /\ AttachesItsTags(s)'
  BY <1>1 DEF NeverRestores, AttachesItsTags
<1>6. AttachesActive(s)' /\ TagIsCleared(s)' /\ WritesItsTag(s)'
  BY <1>1, <1>2, <1>4 DEF AttachesActive, TagIsCleared, WritesItsTag
<1>7. QED
  BY <1>1, <1>5, <1>6 DEF TagsAlone, Quiet

LEMMA TagsInsert ==
  ASSUME TInv, NEW s \in Session, Create(s) \/ InsertLedger(s) PROVE Quiet(s)
<1>1. CASE Abandon(s)
  BY <1>1, TagsAbandon
<1>2. CASE ~ Abandon(s)
  <2>1. /\ pc[s] \in {"insert", "insert_ledger"} /\ UNCHANGED <<tag, link, attach, request>>
        /\ pc'[s] \in {"commit", "close"} => attach[s] = {}
        /\ pc'[s] \in {"commit", "close", "check_tags"}
    BY <1>2 DEF Create, InsertLedger, Insert, Refuse, Goto, TInv, IInv, TypeOK
  <2>2. request[s].op # "delete_hashtag"
    BY <2>1, Stations DEF TInv, IInv, SessionInv, Creates
  <2>3. TagIsCleared(s)'
    BY <2>1, <2>2 DEF TagIsCleared
  <2>4. QED
    BY <2>1, <2>3, TagsMove
<1>3. QED
  BY <1>1, <1>2

LEMMA TagsLock ==
  ASSUME TInv, NEW s \in Session, LockParent(s) PROVE Quiet(s)
<1> DEFINE q == request[s]
<1>1. CASE Abandon(s)
  BY <1>1, TagsAbandon
<1>2. CASE ~ Abandon(s)
  <2>1. /\ pc[s] = "lock" /\ UNCHANGED <<tag, link, request>>
        /\ pc'[s] = AfterLock(q)
        /\ q.op # "promote_inbox_item" => attach'[s] = attach[s]
    BY <1>2 DEF LockParent, Refuse, Goto, TInv, IInv, TypeOK
  <2>2. /\ TagsAlone(s) /\ \A h \in Tag : tag.lock[h] # s
        /\ attach[s] # {} => q.op \in Creates \cup Updates \cup {"promote_inbox_item"}
        /\ q.op \in Updates \cup {"delete_transaction", "restore_transaction",
                                  "promote_inbox_item"}
    BY <2>1, TagsAtWork, Stations DEF SessionInv
  <2>3. AttachesActive(s)'
    <3>1. \A l \in Link : link.lock[l] # s
      BY <2>1, NoLinks DEF TInv, IInv, SessionInv
    <3>2. CASE q.op = "promote_inbox_item"
      BY <2>1, <3>1, <3>2 DEF AfterLock, AttachesActive
    <3>3. CASE q.op \in Updates
      <4>1. pc'[s] = "check_tags" \/ attach[s] = {}
        BY <2>1, <2>2, <3>3 DEF AfterLock, TagsAlone, AttachesItsTags, Updates
      <4>2. q.op # "promote_inbox_item"
        BY <3>3 DEF Updates
      <4>3. QED
        BY <2>1, <3>1, <4>1, <4>2 DEF AttachesActive
    <3>4. CASE q.op \in {"delete_transaction", "restore_transaction"}
      BY <2>1, <2>2, <3>1, <3>4 DEF AttachesActive, Creates, Updates
    <3>5. QED
      BY <2>2, <3>2, <3>3, <3>4
  <2>4. NeverRestores(s)' /\ AttachesItsTags(s)'
    BY <2>1, <2>2 DEF TagsAlone, NeverRestores, AttachesItsTags, Creates, Updates
  <2>5. TagIsCleared(s)' /\ WritesItsTag(s)'
    BY <2>1, <2>2 DEF TagIsCleared, WritesItsTag, Updates
  <2>6. QED
    BY <2>1, <2>3, <2>4, <2>5 DEF Quiet, TagsAlone
<1>3. QED
  BY <1>1, <1>2

LEMMA TagsDraft ==
  ASSUME TInv, NEW s \in Session, ReadDraft(s) \/ Dismiss(s) \/ CloseDraft(s) PROVE Quiet(s)
<1>1. CASE Abandon(s)
  BY <1>1, TagsAbandon
<1>2. CASE ~ Abandon(s)
  <2>1. /\ pc[s] \in {"read", "dismiss", "close"} /\ UNCHANGED <<tag, link, attach, request>>
        /\ pc'[s] \in {"dismiss", "select_links"}
    BY <1>2 DEF ReadDraft, Dismiss, CloseDraft, Refuse, Goto, TInv, IInv, TypeOK
  <2>2. \A h \in attach[s] : tag.row[h] = "active"
    BY <2>1, TagsAtWork DEF TagsAlone, AttachesActive
  <2>3. TagIsCleared(s)'
    BY <2>1 DEF TagIsCleared
  <2>4. QED
    BY <2>1, <2>2, <2>3, TagsMove
<1>3. QED
  BY <1>1, <1>2

LEMMA TagsCheck ==
  ASSUME TInv, NEW s \in Session, CheckTags(s) PROVE Quiet(s)
<1>1. CASE Abandon(s)
  BY <1>1, TagsAbandon
<1>2. CASE ~ Abandon(s)
  <2>1. /\ pc[s] = "check_tags" /\ UNCHANGED <<tag, link, attach, request>>
        /\ pc'[s] \in {"select_links", "add_links"} /\ ValidTags(s)
    BY <1>2 DEF CheckTags, Refuse, Goto, TInv, IInv, TypeOK
  <2>2. TagIsCleared(s)'
    BY <2>1 DEF TagIsCleared
  <2>3. QED
    BY <2>1, <2>2, TagsMove DEF ValidTags
<1>3. QED
  BY <1>1, <1>2

LEMMA TagsSelect ==
  ASSUME TInv, NEW s \in Session, SelectLinks(s) PROVE Quiet(s)
<1>1. /\ pc[s] = "select_links" /\ UNCHANGED <<tag, link, attach, request>>
      /\ pc'[s] = "visit_links" /\ todo'[s] = {l \in Link : Matches(s, l)}
  BY DEF SelectLinks, Goto, TInv, IInv, TypeOK
<1>2. \A h \in attach[s] : tag.row[h] = "active"
  BY <1>1, TagsAtWork DEF TagsAlone, AttachesActive
<1>3. TagIsCleared(s)'
  <2>1. SUFFICES ASSUME request[s].op = "delete_hashtag", NEW l \in Link,
                        l[2] = request[s].id, link.row[l] = Live
                 PROVE  l \in todo'[s]
    BY <1>1 DEF TagIsCleared
  <2>2. link.lock[l] # s
    BY <1>1, <2>1, NoLinks DEF TInv, IInv, SessionInv
  <2>3. QED
    BY <1>1, <2>1, <2>2 DEF Matches, Visible
<1>4. QED
  BY <1>1, <1>2, <1>3, TagsMove

LEMMA TagsVisit ==
  ASSUME TInv, NEW s \in Session, NEW l \in Link, VisitLink(s, l) PROVE Quiet(s)
<1> DEFINE q == request[s]
<1>1. /\ pc[s] = "visit_links" /\ UNCHANGED <<tag, attach, request, pc>>
      /\ todo'[s] = todo[s] \ {l}
  BY DEF VisitLink, TInv, IInv, TypeOK
<1>2. /\ SessionInv(s) /\ TagsAlone(s) /\ q.at # Live
      /\ \A h \in Tag : tag.lock[h] # s
  BY <1>1, TagsAtWork
<1>3. link' = IF Matches(s, l) THEN WriteRow(link, s, l, q.at) ELSE link
  BY <1>2 DEF VisitLink, TagsAlone, NeverRestores
<1>4. link.lock \in [Link -> Session \cup {Nobody}] /\ DOMAIN link.latest = Link
  BY Typed DEF TInv, Tables
<1>5. link'.row = link.row
  BY <1>3 DEF WriteRow
<1>6. \A k \in Link : /\ link.lock[k] = s => link'.lock[k] = s
                      /\ k # l => /\ link'.lock[k] = link.lock[k]
                                  /\ link'.latest[k] = link.latest[k]
                      /\ Matches(s, l) => link'.lock[l] = s /\ link'.latest[l] = q.at
  BY <1>3, <1>4 DEF WriteRow
<1>7. NeverRestores(s)' /\ AttachesItsTags(s)' /\ WritesItsTag(s)'
  BY <1>1, <1>2 DEF TagsAlone, NeverRestores, AttachesItsTags, WritesItsTag
<1>8. AttachesActive(s)'
  <2>1. \A k \in Link : link'.lock[k] = s /\ link'.latest[k] = Live =>
                          link.lock[k] = s /\ link.latest[k] = Live
    BY <1>2, <1>3, <1>6
  <2>2. QED
    BY <1>1, <1>2, <2>1 DEF TagsAlone, AttachesActive
<1>9. TagIsCleared(s)'
  <2>1. SUFFICES ASSUME q.op = "delete_hashtag", NEW k \in Link, k[2] = q.id,
                        link.row[k] = Live
                 PROVE  link'.lock[k] = s \/ k \in todo'[s]
    BY <1>1, <1>5 DEF TagIsCleared
  <2>2. link.lock[k] = s \/ k \in todo[s]
    BY <1>1, <1>2, <2>1 DEF TagsAlone, TagIsCleared
  <2>3. CASE k # l \/ link.lock[k] = s
    BY <1>1, <1>6, <2>2, <2>3
  <2>4. CASE k = l /\ link.lock[k] # s
    BY <1>6, <2>1, <2>4 DEF Matches, Visible
  <2>5. QED
    BY <2>3, <2>4
<1>10. QED
  BY <1>1, <1>5, <1>7, <1>8, <1>9 DEF Quiet, TagsAlone

LEMMA TagsVisited ==
  ASSUME TInv, NEW s \in Session, LinksVisited(s) \/ LinksAdded(s) PROVE Quiet(s)
<1>1. /\ pc[s] \in {"visit_links", "add_links"} /\ UNCHANGED <<tag, link, attach, request>>
      /\ pc'[s] \in {"bump_parents", "add_links", "commit", "close"}
      /\ todo[s] = {}
  BY DEF LinksVisited, LinksAdded, Goto, TInv, IInv, TypeOK
<1>2. TagsAlone(s) /\ SessionInv(s)
  BY <1>1, TagsAtWork
<1>3. \A h \in attach[s] : tag.row[h] = "active"
  BY <1>1, <1>2 DEF TagsAlone, AttachesActive
<1>4. pc[s] = "add_links" => request[s].op # "delete_hashtag"
  BY <1>1, <1>2, Stations DEF SessionInv, Creates, Updates
<1>5. TagIsCleared(s)'
  BY <1>1, <1>2, <1>4 DEF TagsAlone, TagIsCleared
<1>6. QED
  BY <1>1, <1>3, <1>5, TagsMove

LEMMA TagsAdd ==
  ASSUME TInv, NEW s \in Session, NEW l \in Link, AddLink(s, l) PROVE Quiet(s)
<1>1. /\ pc[s] = "add_links" /\ UNCHANGED <<tag, attach, request, pc>> /\ l \in todo[s]
      /\ link' = IF Visible(link, s, l) = Live THEN LockRow(link, s, l)
                 ELSE WriteRow(link, s, l, Live)
  BY DEF AddLink
<1>2. SessionInv(s) /\ TagsAlone(s) /\ \A h \in Tag : tag.lock[h] # s
  BY <1>1, TagsAtWork
<1>3. l[2] \in attach[s]
  BY <1>1, <1>2 DEF SessionInv, WorkIsKnown
<1>4. tag.row[l[2]] = "active"
  BY <1>1, <1>2, <1>3 DEF TagsAlone, AttachesActive
<1>5. link.lock \in [Link -> Session \cup {Nobody}] /\ DOMAIN link.latest = Link
  BY Typed DEF TInv, Tables
<1>6. /\ link'.row = link.row
      /\ \A k \in Link \ {l} : link'.lock[k] = link.lock[k] /\ link'.latest[k] = link.latest[k]
  BY <1>1, <1>5 DEF WriteRow, LockRow
<1>7. request[s].op # "delete_hashtag"
  BY <1>1, <1>2, Stations DEF SessionInv, Creates, Updates
<1>8. NeverRestores(s)' /\ AttachesItsTags(s)' /\ WritesItsTag(s)' /\ TagIsCleared(s)'
  BY <1>1, <1>2, <1>7
     DEF TagsAlone, NeverRestores, AttachesItsTags, WritesItsTag, TagIsCleared
<1>9. AttachesActive(s)'
  BY <1>1, <1>2, <1>4, <1>6 DEF TagsAlone, AttachesActive
<1>10. QED
  BY <1>1, <1>6, <1>8, <1>9 DEF Quiet, TagsAlone

LEMMA TagsRead ==
  ASSUME TInv, NEW s \in Session, ReadTag(s) PROVE Quiet(s)
<1>1. CASE Abandon(s)
  BY <1>1, TagsAbandon
<1>2. CASE ~ Abandon(s)
  <2>1. /\ pc[s] = "read_tag" /\ UNCHANGED <<tag, link, attach, request>>
        /\ pc'[s] \in {"select_links", "restore_tag"}
    BY <1>2 DEF ReadTag, Refuse, Goto, TInv, IInv, TypeOK
  <2>2. \A h \in attach[s] : tag.row[h] = "active"
    BY <2>1, TagsAtWork DEF TagsAlone, AttachesActive
  <2>3. TagIsCleared(s)'
    BY <2>1 DEF TagIsCleared
  <2>4. QED
    BY <2>1, <2>2, <2>3, TagsMove
<1>3. QED
  BY <1>1, <1>2

LEMMA TagsBump ==
  ASSUME TInv, NEW s \in Session, NEW p \in Parent, BumpParent(s, p) PROVE Quiet(s)
<1>1. pc[s] = "bump_parents" /\ UNCHANGED <<tag, link, attach, request, pc>>
  BY DEF BumpParent
<1>2. TagsAlone(s)
  BY <1>1, TagsAtWork
<1>3. QED
  BY <1>1, <1>2, TagsMove DEF TagsAlone, AttachesActive, TagIsCleared

(* The last statement of the requests on a hashtag. *)
LEMMA TagsWrite ==
  ASSUME TInv, NEW s \in Session, InsertTag(s) \/ DeleteTag(s) \/ RestoreTag(s) PROVE Quiet(s)
<1> DEFINE q == request[s]
<1>1. CASE Abandon(s)
  BY <1>1, TagsAbandon
<1>2. CASE ~ Abandon(s)
  <2>1. PICK v \in {"active", "deleted"} :
          /\ tag' = WriteRow(tag, s, q.id, v) /\ (v = "deleted" => DeleteTag(s))
    BY <1>2 DEF InsertTag, DeleteTag, RestoreTag, Refuse
  <2>2. /\ pc[s] \in {"insert_tag", "bump_parents", "restore_tag"}
        /\ UNCHANGED <<link, attach, request>> /\ pc'[s] = "commit"
    BY <1>2 DEF InsertTag, DeleteTag, RestoreTag, Refuse, Goto, TInv, IInv, TypeOK
  <2>3. /\ SessionInv(s) /\ TagsAlone(s) /\ \A h \in Tag : tag.lock[h] # s
    BY <2>2, TagsAtWork
  <2>4. /\ q.op \in OfTags /\ (pc[s] = "bump_parents" <=> q.op = "delete_hashtag")
        /\ Asks(q)
    BY <2>2, <2>3, Stations DEF SessionInv, OfTags
  <2>5. /\ tag'.row = tag.row /\ tag'.latest = [tag.latest EXCEPT ![q.id] = v]
        /\ tag'.lock = [tag.lock EXCEPT ![q.id] = s]
    BY <2>1 DEF WriteRow
  <2>6. DOMAIN tag.lock = Tag /\ DOMAIN tag.latest = Tag /\ q.id \in Tag
    BY <2>4, Typed DEF TInv, Tables, Asks
  <2>7. WritesItsTag(s)'
    <3>1. v = "deleted" => pc[s] = "bump_parents"
      BY <2>1 DEF DeleteTag
    <3>2. QED
      BY <2>2, <2>3, <2>4, <2>5, <2>6, <3>1 DEF WritesItsTag
  <2>8. NeverRestores(s)' /\ AttachesItsTags(s)' /\ AttachesActive(s)'
    BY <2>2, <2>3, <2>5 DEF TagsAlone, NeverRestores, AttachesItsTags, AttachesActive
  <2>9. TagIsCleared(s)'
    BY <2>2, <2>3, <2>4 DEF TagsAlone, TagIsCleared
  <2>10. QED
    BY <2>2, <2>5, <2>7, <2>8, <2>9 DEF Quiet, TagsAlone
<1>3. QED
  BY <1>1, <1>2

LEMMA TagsCommit ==
  ASSUME OneSession, TInv, IInv', NEW s \in Session, CommitAll(s) PROVE TInv'
<1> DEFINE q == request[s]
<1>1. pc[s] = "commit" /\ End(s) /\ tag' = Commit(tag, s, Tag) /\ link' = Commit(link, s, Link)
  BY DEF CommitAll
<1>2. IInv /\ LiveTagsAreActive /\ SessionInv(s) /\ TagsAlone(s) /\ q.at # Live
  BY <1>1, TagsAtWork DEF TInv
<1>3. /\ \A l \in Link : link'.row[l] = Visible(link, s, l) /\ link'.lock[l] # s
      /\ \A h \in Tag : tag'.row[h] = Visible(tag, s, h) /\ tag'.lock[h] # s
  <2>1. /\ \A l \in Link : /\ link'.row[l] = Visible(link, s, l)
                           /\ link'.lock[l] = IF link.lock[l] = s THEN Nobody ELSE link.lock[l]
        /\ \A h \in Tag : /\ tag'.row[h] = Visible(tag, s, h)
                          /\ tag'.lock[h] = IF tag.lock[h] = s THEN Nobody ELSE tag.lock[h]
    BY <1>1, <1>2, Typed, CommitFacts
  <2>2. QED
    BY <2>1, SessionAssumption
<1>4. ASSUME NEW p \in Parent, NEW h \in Tag, link'.row[<<p, h>>] = Live
      PROVE  tag'.row[h] = "active"
  <2> DEFINE l == <<p, h>>
  <2>1. l \in Link /\ l[1] = p /\ l[2] = h
    BY LinkFacts
  <2>2. Visible(link, s, l) = Live
    BY <1>3, <1>4, <2>1
  <2>3. tag.row[h] = "active"
    <3>1. CASE link.lock[l] = s
      BY <1>2, <2>1, <2>2, <3>1 DEF Visible, TagsAlone, AttachesActive
    <3>2. CASE link.lock[l] # s
      BY <1>2, <2>2, <3>2 DEF Visible, LiveTagsAreActive, LiveTags
    <3>3. QED
      BY <3>1, <3>2
  <2>4. CASE tag.lock[h] # s
    BY <1>3, <2>3, <2>4 DEF Visible
  <2>5. CASE tag.lock[h] = s
    <3>1. q.op \in OfTags /\ h = q.id
      BY <1>2, <2>5 DEF TagsAlone, WritesItsTag
    <3>2. ~ (q.op = "delete_hashtag")
      <4>1. SUFFICES ASSUME q.op = "delete_hashtag" PROVE FALSE
        OBVIOUS
      <4>2. link.lock[l] = s => link.latest[l] = q.at
        BY <1>2, <2>1, <4>1
           DEF SessionInv, LocksAreKnown, Touched, Creates, Updates, Deletes
      <4>3. link.lock[l] # s /\ link.row[l] = Live
        BY <1>2, <2>2, <4>2 DEF Visible
      <4>4. QED
        BY <1>1, <1>2, <2>1, <3>1, <4>1, <4>3 DEF TagsAlone, TagIsCleared
    <3>3. tag.latest[h] = "active"
      BY <1>2, <2>5, <3>2 DEF TagsAlone, WritesItsTag
    <3>4. QED
      BY <1>3, <2>5, <3>3 DEF Visible
  <2>6. QED
    BY <2>4, <2>5
<1>5. LiveTagsAreActive'
  BY <1>4 DEF LiveTagsAreActive, LiveTags
<1>6. TagsAlone(s)'
  BY <1>1, <1>3, TagsEnd
<1>7. QED
  BY <1>5, <1>6 DEF TInv, OneSession

LEMMA TagsInvariance ==
  ASSUME OneSession, "restore_transaction" \notin Workload
  PROVE  Spec => []TInv
<1>1. ASSUME Init PROVE LiveTagsAreActive
  <2>1. PICK parents \in [Parent -> {Row(Null, Null), Row(1, Null), Missing}],
             tags \in [Tag -> TagRow \cup {Missing}],
             links \in [Link -> {Live, 0, 1, Missing}] :
          Consistent(parents, tags, links) /\ tag.row = tags /\ link.row = links
    BY <1>1 DEF Init, AtRest
  <2>2. Live # Missing
    BY SentinelAssumption DEF Live
  <2>3. QED
    BY <2>1, <2>2 DEF Consistent, LiveTagsAreActive, LiveTags
<1>2. ASSUME Init, NEW s \in Session PROVE TagsAlone(s)
  <2>1. /\ pc[s] = "idle" /\ request[s].op = "none"
        /\ (\A l \in Link : link.lock[l] = Nobody) /\ \A h \in Tag : tag.lock[h] = Nobody
    BY <1>2 DEF Init, AtRest, NoRequest
  <2>2. NeverRestores(s) /\ AttachesItsTags(s) /\ TagIsCleared(s)
    BY <2>1 DEF NeverRestores, AttachesItsTags, TagIsCleared, Creates, Updates
  <2>3. AttachesActive(s) /\ WritesItsTag(s)
    BY <2>1, SessionAssumption DEF AttachesActive, WritesItsTag
  <2>4. QED
    BY <2>2, <2>3 DEF TagsAlone
<1>3. ASSUME TInv, IInv', [Next]_vars PROVE TInv'
  <2>1. CASE UNCHANGED vars
    BY <1>3, <2>1 DEF vars, TInv, TagsAlone, NeverRestores, AttachesItsTags, AttachesActive,
       TagIsCleared, WritesItsTag, LiveTagsAreActive, LiveTags
  <2>2. ASSUME NEW s \in Session, NEW q \in Request, Begin(s, q) PROVE TInv'
    BY <1>3, <2>2, TagsBegin, QuietStep
  <2>3. ASSUME NEW s \in Session, Fail(s) PROVE TInv'
    BY <1>3, <2>3, TagsAbandon, QuietStep DEF Fail
  <2>4. ASSUME NEW s \in Session, Step(s), ~ CommitAll(s) PROVE Quiet(s)
    BY <1>3, <2>4, TagsInsert, TagsLock, TagsDraft, TagsCheck, TagsSelect, TagsVisit,
       TagsVisited, TagsAdd, TagsRead, TagsBump, TagsWrite DEF Step
  <2>5. ASSUME NEW s \in Session, Step(s) PROVE TInv'
    BY <1>3, <2>4, <2>5, QuietStep, TagsCommit
  <2>6. QED
    BY <1>3, <2>1, <2>2, <2>3, <2>5 DEF Next
<1>4. Init /\ IInv => TInv
  BY <1>1, <1>2 DEF TInv
<1>5. TInv /\ IInv' /\ [Next]_vars => TInv'
  BY <1>3
<1>6. QED
  BY <1>4, <1>5, Invariance, PTL DEF Spec

(***************************************************************************)
(* Served one at a time, and as long as no deleted transaction is          *)
(* restored, requests show no hashtag that is deleted: the check of the    *)
(* hashtags and the cascade of their deletion do not overlap.              *)
(***************************************************************************)
THEOREM SerialTags ==
  ASSUME OneSession, "restore_transaction" \notin Workload
  PROVE  Spec => []LiveTagsAreActive
<1>1. TInv => LiveTagsAreActive
  BY DEF TInv
<1>2. QED
  BY <1>1, TagsInvariance, PTL

(* The draft that a dismissal has read is still pending. *)
StillPending(s) ==
    request[s].op = "delete_inbox_item" /\ pc[s] # "read" => Active(parent.row[request[s].id])

PInv == IInv /\ PromotedAreClosed /\ \A s \in Session : StillPending(s)

(* A session other than the one that commits has nothing to lose: there is none. *)
LEMMA PendingStep ==
  ASSUME OneSession, PInv, IInv', [Next]_vars PROVE PInv'
<1>1. CASE \E s \in Session : CommitAll(s)
  <2>1. PICK s \in Session : CommitAll(s)
    BY <1>1
  <2>2. request'[s].op = "none"
    BY <2>1 DEF CommitAll, End, NoRequest, PInv, IInv
  <2>3. QED
    BY <2>1, <2>2, PromotedStayClosed DEF PInv, OneSession, StillPending
<1>2. CASE ~ \E s \in Session : CommitAll(s)
  <2>1. parent'.row = parent.row
    BY <1>2, OnlyCommitsShow
  <2>2. PromotedAreClosed'
    BY <2>1 DEF PInv, PromotedAreClosed
  <2>3. ASSUME NEW s \in Session, Abandon(s) PROVE StillPending(s)'
    BY <2>3 DEF Abandon, End, NoRequest, StillPending, PInv, IInv
  <2>4. ASSUME NEW s \in Session, NEW q \in Request, Begin(s, q) PROVE StillPending(s)'
    <3>1. request'[s].op = q.op /\ pc'[s] = FirstStep[q.op]
      BY <2>4 DEF Begin, PInv, IInv, TypeOK
    <3>2. FirstStep["delete_inbox_item"] = "read"
      BY DEF FirstStep
    <3>3. QED
      BY <3>1, <3>2 DEF StillPending
  <2>5. ASSUME NEW s \in Session, ReadDraft(s) PROVE StillPending(s)'
    BY <2>1, <2>3, <2>5 DEF ReadDraft, Refuse, Goto, StillPending, PInv, IInv
  <2>6. ASSUME NEW s \in Session, Step(s), ~ ReadDraft(s), ~ Abandon(s) PROVE StillPending(s)'
    <3>1. request' = request /\ pc[s] # "read"
      BY <1>2, <2>6
         DEF Step, Create, LockParent, Dismiss, InsertLedger, Insert, CloseDraft, CheckTags,
             SelectLinks, VisitLink, LinksVisited, AddLink, LinksAdded, InsertTag, ReadTag,
             BumpParent, DeleteTag, RestoreTag, Refuse, Goto
    <3>2. QED
      BY <2>1, <3>1 DEF PInv, StillPending
  <2>7. CASE UNCHANGED vars
    BY <2>2, <2>7 DEF vars, PInv, StillPending
  <2>8. CASE Next
    <3>1. \E s \in Session : StillPending(s)'
      BY <2>3, <2>4, <2>5, <2>6, <2>8 DEF Next, Fail
    <3>2. QED
      BY <2>2, <3>1 DEF OneSession, PInv
  <2>9. QED
    BY <2>7, <2>8
<1>3. QED
  BY <1>1, <1>2

DismissesPending ==
    \A s \in Session : Commits(s, "delete_inbox_item") => ~ parent'.row[request[s].id].promoted

(***************************************************************************)
(* Served one at a time, requests dismiss only pending drafts: the draft   *)
(* that delete_inbox_item reads without a lock is the one it closes.       *)
(***************************************************************************)
THEOREM SerialDismissals ==
  ASSUME OneSession
  PROVE  Spec => DismissedIsPending
<1>1. Init /\ IInv => PInv
  <2>1. ASSUME Init, NEW d \in Draft, parent.row[d] # Missing PROVE ~ parent.row[d].promoted
    BY <2>1 DEF Init, AtRest, Row, Parent
  <2>2. ASSUME Init, NEW s \in Session PROVE StillPending(s)
    BY <2>2 DEF Init, NoRequest, StillPending
  <2>3. QED
    BY <2>1, <2>2 DEF PInv, PromotedAreClosed
<1>2. PInv /\ IInv' /\ [Next]_vars => PInv'
  BY PendingStep
<1>3. ASSUME PInv, [Next]_vars PROVE DismissesPending
  <2>1. SUFFICES ASSUME NEW s \in Session, Commits(s, "delete_inbox_item")
                 PROVE  ~ parent'.row[request[s].id].promoted
    BY DEF DismissesPending
  <2> DEFINE d == request[s].id
  <2>2. IInv /\ CommitAll(s)
    BY <1>3, <2>1, WhoCommits DEF PInv, Cascading, Deletes
  <2>3. pc[s] = "commit" /\ request[s].op = "delete_inbox_item" /\ Asks(request[s])
    BY <2>1, <2>2, Stations DEF IInv, SessionInv, Commits
  <2>4. d \in Draft /\ d \in Parent /\ Active(parent.row[d])
    BY <1>3, <2>3, OwnRows DEF PInv, StillPending, OfDrafts
  <2>5. ~ parent.row[d].promoted
    BY <1>3, <2>4 DEF PInv, PromotedAreClosed, Active, Buried
  <2>6. parent'.row[d].promoted <=> parent.row[d].promoted
    BY <2>2, <2>3, <2>4, CommittedRow, CommitTables DEF Active
  <2>7. QED
    BY <2>5, <2>6
<1>4. PInv /\ [Next]_vars => [DismissesPending]_vars
  BY <1>3
<1>5. [DismissesPending]_vars =>
        [\A s \in Session : Commits(s, "delete_inbox_item") =>
           ~ parent'.row[request[s].id].promoted]_vars
  BY DEF DismissesPending
<1>6. QED
  BY <1>1, <1>2, <1>4, <1>5, Invariance, PTL DEF Spec, DismissedIsPending
=============================================================================
