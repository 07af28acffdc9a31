------------------------------ MODULE RateCache ------------------------------
(* The rate lookup of one worker process, composed with the jobs that fill   *)
(* the table it reads.                                                       *)
(*                                                                           *)
(* get_rate answers from a dictionary shared by every request of the worker. *)
(* On a miss it awaits the database, so requests for one key overlap: each   *)
(* takes the time before it asks, and stores what it was told under an       *)
(* expiry counted from then.  A rate is kept for an hour, the lack of one    *)
(* for a minute.                                                             *)
(*                                                                           *)
(* Time advances in ticks.  landed is a history variable: when each day's    *)
(* row was inserted, which the properties need to say what was true when.    *)
EXTENDS RateJobs

CONSTANTS
    Reader,     \* requests in flight in the worker
    Base,       \* BASE_CURRENCY, USD
    Home,       \* the other currency, PEN
    Key,        \* the lookups requests make: [from, to, as_of]
    Ttl,        \* _RATE_CACHE_TTL_SECONDS
    NegTtl,     \* _NEGATIVE_RATE_CACHE_TTL_SECONDS
    MaxTime,    \* bound: the last tick
    Scenes      \* bound: which processes run together

Currency == {Base, Home}

ASSUME KeyAssumption == Key \subseteq [from : Currency, to : Currency, as_of : Day]
ASSUME TtlAssumption == NegTtl \in Nat /\ Ttl \in Nat /\ NegTtl <= Ttl
ASSUME TimeAssumption == MaxTime \in Nat

VARIABLES
    clock,      \* time.monotonic
    cache,      \* _RATE_CACHE
    look,       \* the lookup each request is in
    landed,     \* history: the tick each stored row was inserted at
    scene       \* the processes of this behaviour

cacheVars == <<clock, cache, look, landed, scene>>
vars == <<rates, jobVars, cacheVars>>

------------------------------------------------------------------------------
\* _fetch_rate_from_db: the rate, and the day it is dated.  Only the direction
\* is told apart: a rate towards USD is the inverse of the stored one.
Answer(table, key) ==
    IF key.from = key.to
      THEN [rate |-> <<"one">>, date |-> key.as_of]
      ELSE LET row == CarriedForward(table, key.as_of)
           IN  IF row = NoRate THEN NoRate
               ELSE CASE key.from = Base ->
                           [rate |-> <<"stored", row.rate>>, date |-> row.date]
                      [] key.to = Base ->
                           [rate |-> <<"inverse", row.rate>>, date |-> row.date]
                      [] OTHER -> NoRate

NoEntry == [answer |-> NoRate, expires |-> -1]
Idle == [at |-> "idle"]
Never == MaxTime + 1

Lifetime(answer) == IF answer = NoRate THEN NegTtl ELSE Ttl

(* A rate, or the lack of one, that the table gave at some moment of tick t: *)
(* with the rows that had landed before, and some of those that landed then. *)
TrueAt(key, answer, t) ==
    \E S \in SUBSET {d \in Day : landed[d] = t} :
        answer = Answer([d \in Day |->
                           IF landed[d] < t \/ d \in S THEN rates[d] ELSE NoRate], key)

CacheTypeOK ==
    /\ clock \in 0 .. MaxTime
    /\ DOMAIN cache = Key
    /\ \A k \in Key : cache[k].expires \in -1 .. MaxTime + Ttl
    /\ DOMAIN look = Reader
    /\ \A r \in Reader : look[r].at \in {"idle", "asked", "told", "done"}
    /\ landed \in [Day -> -1 .. Never]
    /\ \A d \in Day : landed[d] = Never <=> rates[d] = NoRate

CacheInit ==
    /\ clock = 0
    /\ cache = [k \in Key |-> NoEntry]
    /\ look = [r \in Reader |-> Idle]
    /\ landed = [d \in Day |-> IF rates[d] = NoRate THEN Never ELSE -1]
    /\ scene \in Scenes

------------------------------------------------------------------------------
Fresh(entry) == clock < entry.expires

\* A request asks.  An expired entry is dropped before the database is asked.
Ask(r, key) ==
    /\ look[r].at = "idle"
    /\ IF Fresh(cache[key])
         THEN /\ look' = [look EXCEPT ![r] =
                   [at |-> "done", key |-> key, since |-> clock,
                    answer |-> cache[key].answer]]
              /\ UNCHANGED cache
         ELSE /\ look' = [look EXCEPT ![r] =
                   [at |-> "asked", key |-> key, since |-> clock]]
              /\ cache' = [cache EXCEPT ![key] = NoEntry]

\* The database reads the table; the worker has not seen the result yet.
Read(r) ==
    /\ look[r].at = "asked"
    /\ look' = [look EXCEPT ![r] =
         [at |-> "told", key |-> @.key, since |-> @.since,
          answer |-> Answer(rates, @.key)]]
    /\ UNCHANGED cache

\* Mutant: the lifetime is counted from when the answer arrived.
StampNow(lookup) == clock

\* The time an entry's lifetime is counted from: taken before the await.
StampOf(lookup) == lookup.since

\* The request goes on, stores what it was told over whatever is there, and
\* returns it.
Store(r) ==
    /\ look[r].at = "told"
    /\ look' = [look EXCEPT ![r].at = "done"]
    /\ cache' = [cache EXCEPT ![look[r].key] =
         [answer  |-> look[r].answer,
          expires |-> StampOf(look[r]) + Lifetime(look[r].answer)]]

\* The request is over, or its query failed: nothing is stored.
Leave(r) ==
    /\ look[r].at # "idle"
    /\ look' = [look EXCEPT ![r] = Idle]
    /\ UNCHANGED cache

Lookup(r) ==
    /\ "lookups" \in scene
    /\ \/ \E key \in Key : Ask(r, key)
       \/ Read(r)
       \/ Store(r)
       \/ Leave(r)
    /\ UNCHANGED <<rates, jobVars, clock, landed, scene>>

Tick ==
    /\ "lookups" \in scene
    /\ clock < MaxTime
    /\ clock' = clock + 1
    /\ UNCHANGED <<rates, jobVars, cache, look, landed, scene>>

Lands == landed' = [d \in Day |-> IF rates[d] = NoRate /\ rates'[d] # NoRate
                                    THEN clock ELSE landed[d]]

Works(j, Action) ==
    /\ j \in scene
    /\ Action
    /\ Lands
    /\ UNCHANGED <<clock, cache, look, scene>>

Init == JobInit /\ CacheInit

Next ==
    \/ \E j \in Job : Works(j, StartJob(j)) \/ Works(j, JobStep(j)) \/ Works(j, Die(j))
    \/ \E r \in Reader : Lookup(r)
    \/ Tick

\* A job that is started keeps running: nothing stops it but its own end.
Fairness == \A j \in Job : WF_vars(Works(j, JobStep(j)))

Spec == Init /\ [][Next]_vars /\ Fairness

TypeOK == JobTypeOK /\ CacheTypeOK

------------------------------------------------------------------------------
(* Properties *)

\* The first rate stored for a day is the one that stands: no later run of
\* either job corrects or removes it, also when two runs store the day at once.
FirstRateStands ==
    [][\A d \in Day : rates[d] # NoRate => rates'[d] = rates[d]]_vars

\* A run that exits with 0 left no day of its range behind in silence: each
\* has a row, or was reported as a day the provider has no data for.
ZeroMeansCovered ==
    \A j \in Job : pc[j] = "off" /\ code[j] = 0 =>
        \A d \in range[j] : rates[d] # NoRate \/ d \in gaps[j]

\* A day whose rate was refused as implausible is priced from a row no older
\* than the window: a feed that moves for good is accepted again once the
\* window has passed, however many rates were refused meanwhile.
RefusedIsPricedNearby ==
    \A j \in Job, d \in Day : <<d, "implausible">> \in problems[j] =>
        LET row == CarriedForward(rates, d)
        IN  row # NoRate /\ row.date >= d - Window

\* A lookup that ends at tick t having begun at s answers what was true at some
\* moment no earlier than s less the lifetime of such an answer: an hour for a
\* rate, a minute for its absence, whatever other lookups stored meanwhile.
AnswersAreFresh ==
    [][\A r \in Reader : look[r].at # "done" /\ look'[r].at = "done" =>
         LET l == look'[r]
         IN  \E t \in l.since - Lifetime(l.answer) .. clock : TrueAt(l.key, l.answer, t)]_vars

\* A run that is started ends, with an exit code.
JobsEnd == \A j \in Job : pc[j] # "off" ~> pc[j] = "off"
=============================================================================
