----------------------------- MODULE TaggedRows ------------------------------
(***************************************************************************)
(* What requests on transactions and drafts promise of the rows and their  *)
(* hashtags: each takes effect whole, in one step, whatever runs beside    *)
(* it.  Statements, junction rows, locks and deleted_at markers are not    *)
(* visible here, only what a row shows between requests.                   *)
(***************************************************************************)
CONSTANTS Txn, Draft,   \* ids of transactions and of drafts
          Tag,          \* ids of hashtags
          Null          \* "not from a draft"

Parent == Txn \cup Draft

VARIABLES
    state,  \* state[p]: absent, active, deleted (a draft: dismissed) or promoted
    from,   \* from[t]: the draft that t was promoted from
    shown,  \* shown[p]: the hashtags on p
    shelf   \* shelf[t]: the hashtags that the last deletion of t took off it

vars == <<state, from, shown, shelf>>

(* Rows of earlier requests; none of their drafts has been closed.           *)
Init == /\ state \in [Parent -> {"absent", "active", "deleted"}]
        /\ from = [t \in Txn |-> Null]
        /\ shown \in [Parent -> SUBSET Tag]
        /\ shelf \in [Txn -> SUBSET Tag]
        /\ \A d \in Draft : state[d] # "deleted"
        /\ \A p \in Parent : state[p] # "active" => shown[p] = {}

Becomes(p, old, new) == state[p] = old /\ state' = [state EXCEPT ![p] = new]

(* create_transaction, create_inbox_item. *)
Create(p, hs) == /\ Becomes(p, "absent", "active")
                 /\ shown' = [shown EXCEPT ![p] = hs]
                 /\ UNCHANGED <<from, shelf>>

(* update_transaction, update_inbox_item. *)
Edit(p, hs) == /\ state[p] = "active"
               /\ shown' = [shown EXCEPT ![p] = hs]
               /\ UNCHANGED <<state, from, shelf>>

(* delete_transaction and its undoing, which brings back what that took off. *)
Delete(t) == /\ Becomes(t, "active", "deleted")
             /\ shelf' = [shelf EXCEPT ![t] = shown[t]]
             /\ shown' = [shown EXCEPT ![t] = {}]
             /\ UNCHANGED from
Restore(t) == /\ Becomes(t, "deleted", "active")
              /\ shown' = [shown EXCEPT ![t] = shelf[t]]
              /\ UNCHANGED <<from, shelf>>

(* delete_inbox_item and promote_inbox_item: a pending draft ends in one of  *)
(* two ways, for good, and the row it becomes has the hashtags it had.       *)
Dismiss(d) == /\ Becomes(d, "active", "deleted")
              /\ shown' = [shown EXCEPT ![d] = {}]
              /\ UNCHANGED <<from, shelf>>
Promote(d, t) == /\ state[d] = "active" /\ state[t] = "absent"
                 /\ state' = [state EXCEPT ![d] = "promoted", ![t] = "active"]
                 /\ from' = [from EXCEPT ![t] = d]
                 /\ shown' = [shown EXCEPT ![d] = {}, ![t] = shown[d]]
                 /\ UNCHANGED shelf

(* delete_hashtag takes it off the rows it finds it on, shelves aside. *)
DropTag(h, P) == /\ shown' = [p \in Parent |-> IF p \in P THEN shown[p] \ {h} ELSE shown[p]]
                 /\ UNCHANGED <<state, from, shelf>>

Next == \/ \E p \in Parent, hs \in SUBSET Tag : Create(p, hs) \/ Edit(p, hs)
        \/ \E t \in Txn : Delete(t) \/ Restore(t)
        \/ \E d \in Draft : Dismiss(d) \/ \E t \in Txn : Promote(d, t)
        \/ \E h \in Tag, P \in SUBSET Parent : DropTag(h, P)

Spec == Init /\ [][Next]_vars
=============================================================================
