------------------------------- MODULE RateJobs -------------------------------
(* The two jobs that fill the exchange_rates table, statement by statement:  *)
(* the daily fetch, which stores the provider's latest rate, and the         *)
(* historical backfill, which stores one rate per day of a range in the      *)
(* order its downloads complete.                                             *)
(*                                                                           *)
(* Neither opens a transaction: every statement commits by itself, and the   *)
(* baseline a rate is judged against is read in one statement and the rate   *)
(* inserted in another.  The jobs may run at the same time.  The provider is *)
(* free to answer anything; a job may die at any statement.                  *)
(*                                                                           *)
(* Abstracted: retries of a download and the semaphore that bounds downloads *)
(* in flight.  as_completed starts the downloads in no particular order, so  *)
(* any pending day may be the next to complete.                              *)
EXTENDS RateTable

CONSTANTS
    DailyJob,       \* processes that run fetch_exchange_rates
    BackfillJob,    \* processes that run backfill_exchange_rates
    Floor,          \* PROVIDER_FLOOR
    Window,         \* MAX_BASELINE_GAP_DAYS
    Seeds,          \* bound: the tables a behaviour starts from
    Tries,          \* DB_CONNECT_TRIES
    MaxRuns         \* bound: how often each job is started

ASSUME WindowAssumption == Window \in Nat
ASSUME FloorAssumption == Floor \in Int
ASSUME SeedsAssumption == Seeds \subseteq RateTables
ASSUME RunsAssumption == MaxRuns \in Nat
ASSUME TriesAssumption == Tries \in Nat \ {0}
ASSUME JobAssumption == DailyJob \cap BackfillJob = {}

Job == DailyJob \cup BackfillJob

VARIABLES
    rates,      \* the table
    pc,         \* the statement each job is at
    range,      \* the days the run was asked for
    todo,       \* the days the run has still to store
    held,       \* the rate a job is about to judge or to insert
    gaps,       \* days the provider has no data for
    problems,   \* days counted as missing or failed, each with its reason
    code,       \* the exit code of the last run
    runs,       \* how often the job was started
    tries       \* how often it has found Postgres not up, while it waits for it

jobVars == <<pc, range, todo, held, gaps, problems, code, runs, tries>>

Reason == {"missing target", "download failed", "not positive", "implausible"}

NothingHeld == [day |-> NoRate, rate |-> NoRate]
StillRunning == -1

JobTypeOK ==
    /\ rates \in RateTables
    /\ pc \in [Job -> {"off", "connect", "targets", "existing", "fetch", "judge", "insert"}]
    /\ range \in [Job -> SUBSET Day]
    /\ todo \in [Job -> SUBSET Day]
    /\ \A j \in Job : todo[j] \subseteq range[j]
    /\ held \in [Job -> [day : Day, rate : Rate] \cup {NothingHeld}]
    /\ \A j \in Job : pc[j] \in {"judge", "insert"} => held[j] # NothingHeld
    /\ gaps \in [Job -> SUBSET Day]
    /\ problems \in [Job -> SUBSET (Day \X Reason)]
    /\ code \in [Job -> {StillRunning, 0, 1, 2}]
    /\ runs \in [Job -> 0 .. MaxRuns]
    /\ tries \in [Job -> 0 .. Tries]

JobInit ==
    /\ rates \in Seeds
    /\ pc = [j \in Job |-> "off"]
    /\ range = [j \in Job |-> {}]
    /\ todo = [j \in Job |-> {}]
    /\ held = [j \in Job |-> NothingHeld]
    /\ gaps = [j \in Job |-> {}]
    /\ problems = [j \in Job |-> {}]
    /\ code = [j \in Job |-> 0]
    /\ runs = [j \in Job |-> 0]
    /\ tries = [j \in Job |-> 0]

------------------------------------------------------------------------------
\* A run that starts forgets the last one; its range is fixed by its arguments.
Start(j, days, at, exit) ==
    /\ pc[j] = "off"
    /\ runs[j] < MaxRuns
    /\ runs' = [runs EXCEPT ![j] = @ + 1]
    /\ pc' = [pc EXCEPT ![j] = at]
    /\ range' = [range EXCEPT ![j] = days]
    /\ todo' = [todo EXCEPT ![j] = {}]
    /\ held' = [held EXCEPT ![j] = NothingHeld]
    /\ gaps' = [gaps EXCEPT ![j] = {}]
    /\ problems' = [problems EXCEPT ![j] = {}]
    /\ code' = [code EXCEPT ![j] = exit]
    /\ UNCHANGED <<rates, tries>>

StartDaily(j) == j \in DailyJob /\ Start(j, {}, "connect", StillRunning)

\* A range that starts before the provider's floor, or ends before it starts,
\* is refused.
StartBackfill(j, first, last) ==
    /\ j \in BackfillJob
    /\ IF first < Floor \/ first > last
         THEN Start(j, {}, "off", 2)
         ELSE Start(j, (first .. last) \cap Day, "connect", StillRunning)

Exit(j, exit) ==
    /\ pc' = [pc EXCEPT ![j] = "off"]
    /\ code' = [code EXCEPT ![j] = exit]

\* Mutant: the last try is followed by a first one.
WaitsForever(j) ==
    /\ tries' = [tries EXCEPT ![j] = IF @ + 1 < Tries THEN @ + 1 ELSE 0]
    /\ UNCHANGED <<pc, code>>

\* Postgres is not up: another try after a pause, but for the last one.
WaitsOn(j) ==
    IF tries[j] + 1 < Tries
      THEN tries' = [tries EXCEPT ![j] = @ + 1] /\ UNCHANGED <<pc, code>>
      ELSE tries' = [tries EXCEPT ![j] = 0] /\ Exit(j, 1)

Connect(j) ==
    /\ pc[j] = "connect"
    /\ \/ /\ pc' = [pc EXCEPT ![j] = "targets"]
          /\ tries' = [tries EXCEPT ![j] = 0]
          /\ UNCHANGED code
       \/ WaitsOn(j)
    /\ UNCHANGED <<rates, range, todo, held, gaps, problems, runs>>

\* No account and no settings row may need a rate: then there is nothing to do.
FetchTargets(j) ==
    /\ pc[j] = "targets"
    /\ \/ /\ pc' = [pc EXCEPT ![j] = IF j \in DailyJob THEN "fetch" ELSE "existing"]
          /\ UNCHANGED <<range, code>>
       \/ /\ Exit(j, 0)
          /\ range' = [range EXCEPT ![j] = {}]
    /\ UNCHANGED <<rates, todo, held, gaps, problems, runs, tries>>

ExistingDates(j) == range[j] \cap Stored(rates)

\* The days of the range without a row, as the table is now.
SkipExisting(j) ==
    /\ pc[j] = "existing"
    /\ todo' = [todo EXCEPT ![j] = range[j] \ ExistingDates(j)]
    /\ IF todo'[j] = {} THEN Exit(j, 0)
                        ELSE pc' = [pc EXCEPT ![j] = "fetch"] /\ UNCHANGED code
    /\ UNCHANGED <<rates, range, held, gaps, problems, runs, tries>>

------------------------------------------------------------------------------
\* Mutant: a target absent from a payload does not count as a failure.
FailsUnlessMissing(j) == \E p \in problems'[j] : p[2] # "missing target"

\* failed or missing_target: either makes the run exit with 2.
Fails(j) == problems'[j] # {}

\* Mutant: the run never sees that its last day is done.
GoesOn(j) == pc' = [pc EXCEPT ![j] = "fetch"] /\ UNCHANGED code

\* After a day is dealt with, the next download, or the end of the run.
NextDay(j) ==
    IF todo'[j] = {} THEN Exit(j, IF Fails(j) THEN 2 ELSE 0)
                     ELSE pc' = [pc EXCEPT ![j] = "fetch"] /\ UNCHANGED code

Report(j, d, reason) == problems' = [problems EXCEPT ![j] = @ \cup {<<d, reason>>}]

\* _apply_rates up to the guard on the sign: what a payload holds for day d is
\* a rate to judge, nothing, or a rate that is not positive.
Apply(j, d) ==
    \/ /\ \E r \in Rate : held' = [held EXCEPT ![j] = [day |-> d, rate |-> r]]
       /\ pc' = [pc EXCEPT ![j] = "judge"]
       /\ UNCHANGED <<gaps, problems, code>>
    \/ /\ Report(j, d, "missing target") \/ Report(j, d, "not positive")
       /\ NextDay(j)
       /\ UNCHANGED <<held, gaps>>

\* The provider's latest payload, which names its own date.
FetchLatest(j) ==
    /\ j \in DailyJob
    /\ pc[j] = "fetch"
    /\ \/ \E d \in Day :
            /\ range' = [range EXCEPT ![j] = {d}]
            /\ UNCHANGED todo
            /\ Apply(j, d)
       \/ Exit(j, 2) /\ UNCHANGED <<range, todo, held, gaps, problems>>
    /\ UNCHANGED <<rates, runs, tries>>

\* The next download of a backfill to complete.  A 404 is a gap, not a failure.
FetchNextDate(j) ==
    /\ j \in BackfillJob
    /\ pc[j] = "fetch"
    /\ \E d \in todo[j] :
         /\ todo' = [todo EXCEPT ![j] = @ \ {d}]
         /\ \/ Apply(j, d)
            \/ /\ gaps' = [gaps EXCEPT ![j] = @ \cup {d}]
               /\ UNCHANGED <<problems, held>>
               /\ NextDay(j)
            \/ /\ Report(j, d, "download failed")
               /\ NextDay(j)
               /\ UNCHANGED <<held, gaps>>
    /\ UNCHANGED <<rates, range, runs, tries>>

\* |rate - baseline| / baseline > 10%.
Distance(a, b) == IF a >= b THEN a - b ELSE b - a
Implausible(rate, base) == base # NoRate /\ Distance(rate, base.rate) * 10 > base.rate

\* _baseline_rate, and the refusal.
Judge(j) ==
    /\ pc[j] = "judge"
    /\ IF Implausible(held[j].rate, Baseline(rates, held[j].day, Window))
         THEN /\ Report(j, held[j].day, "implausible")
              /\ held' = [held EXCEPT ![j] = NothingHeld]
              /\ UNCHANGED todo
              /\ NextDay(j)
         ELSE /\ pc' = [pc EXCEPT ![j] = "insert"]
              /\ UNCHANGED <<todo, held, problems, code>>
    /\ UNCHANGED <<rates, range, gaps, runs, tries>>

\* Mutant: ON CONFLICT DO UPDATE.
Overwritten(table, d, rate) == [table EXCEPT ![d] = rate]

\* INSERT ... ON CONFLICT DO NOTHING.
Inserted(table, d, rate) == [table EXCEPT ![d] = IF @ = NoRate THEN rate ELSE @]

Insert(j) ==
    /\ pc[j] = "insert"
    /\ rates' = Inserted(rates, held[j].day, held[j].rate)
    /\ held' = [held EXCEPT ![j] = NothingHeld]
    /\ UNCHANGED <<todo, problems>>
    /\ NextDay(j)
    /\ UNCHANGED <<range, gaps, runs, tries>>

\* A statement fails, a connection is refused for another reason than that
\* Postgres is not up, or the process is killed: what was stored stays.
Die(j) ==
    /\ pc[j] # "off"
    /\ Exit(j, 1)
    /\ tries' = [tries EXCEPT ![j] = 0]
    /\ UNCHANGED <<rates, range, todo, held, gaps, problems, runs>>

StartJob(j) == StartDaily(j) \/ \E first, last \in Day : StartBackfill(j, first, last)

JobStep(j) ==
    \/ Connect(j)
    \/ FetchTargets(j)
    \/ SkipExisting(j)
    \/ FetchLatest(j)
    \/ FetchNextDate(j)
    \/ Judge(j)
    \/ Insert(j)

JobNext == \E j \in Job : StartJob(j) \/ JobStep(j) \/ Die(j)
=============================================================================
