--------------------------- MODULE RateCacheProofs ---------------------------
(***************************************************************************)
(* The jobs and the rate lookup proved for any days, rates, window, numbers *)
(* of processes and lifetimes.                                             *)
(***************************************************************************)
EXTENDS RateCache, WellFoundedInduction, TLAPS

------------------------------------------------------------------------------
(* The rate that is carried forward. *)

(* A set of days that ends has a last day. *)
LEMMA LastDay ==
  ASSUME NEW S \in SUBSET Int, S # {}, NEW k \in Int, \A d \in S : d <= k
  PROVE  LatestOf(S) # {}
<1> DEFINE T == {k - d : d \in S}
<1>1. T \subseteq Nat /\ T # {}
  <2>1. \A d \in S : k - d \in Nat
    OBVIOUS
  <2>2. T \subseteq Nat
    BY <2>1
  <2>3. PICK d \in S : TRUE
    OBVIOUS
  <2>4. k - d \in T
    BY <2>3
  <2>5. QED
    BY <2>2, <2>4
<1>2. PICK n \in T : \A m \in T : ~ (<<m, n>> \in OpToRel(<, Nat))
  BY <1>1, NatLessThanWellFounded, WFMin
<1>3. \A m \in T : ~ (m < n)
  BY <1>1, <1>2 DEF OpToRel
<1>4. PICK d \in S : n = k - d
  BY <1>2
<1>5. ASSUME NEW e \in S PROVE e <= d
  <2>1. k - e \in T /\ e \in Int /\ d \in Int
    OBVIOUS
  <2>2. ~ (k - e < k - d)
    BY <1>3, <1>4, <2>1
  <2>3. QED
    BY <2>1, <2>2
<1>6. QED
  BY <1>5 DEF LatestOf

LEMMA CarriedFacts ==
  ASSUME NEW table \in RateTables, NEW k \in Day, NEW e \in Stored(table), e <= k
  PROVE  LET row == CarriedForward(table, k) IN
         /\ row # NoRate
         /\ row.date \in Stored(table) /\ e <= row.date /\ row.date <= k
         /\ row.rate = table[row.date]
<1> DEFINE S == {d \in Stored(table) : d <= k}
           d0 == CHOOSE d \in LatestOf(S) : TRUE
<1>1. S \in SUBSET Int /\ S # {} /\ k \in Int /\ \A d \in S : d <= k
  BY DayAssumption DEF Stored
<1>2. d0 \in LatestOf(S)
  BY <1>1, LastDay
<1>3. d0 \in Day /\ d0 \in Stored(table) /\ e <= d0 /\ d0 <= k
  BY <1>2 DEF LatestOf, Stored
<1>4. table[d0] \in Rate
  BY <1>3 DEF Stored, RateTables
<1>5. CarriedForward(table, k) = [rate |-> table[d0], date |-> d0]
  BY <1>1 DEF CarriedForward, LatestRow
<1>6. [rate |-> table[d0], date |-> d0] \in [rate : Rate, date : Day]
  BY <1>3, <1>4
<1> HIDE DEF d0
<1>7. QED
  BY <1>3, <1>5, <1>6, NoRateAssumption

------------------------------------------------------------------------------
(* The invariant of the jobs. *)

(* What a run knows of a day of its range. *)
DealtWith(j, d) ==
    \/ pc[j] \in {"judge", "insert"} /\ d = held[j].day
    \/ rates[d] # NoRate
    \/ d \in gaps[j]
    \/ \E reason \in Reason : <<d, reason>> \in problems[j]

(* A day has a row no older than the window. *)
Nearby(d) == \E e \in Stored(rates) : d - Window <= e /\ e <= d

(* Days are dealt with as they leave todo, and refusals have their reason. *)
JobPart(j) ==
    /\ pc[j] = "off" /\ code[j] = 0 =>
         \A d \in range[j] : rates[d] # NoRate \/ d \in gaps[j]
    /\ pc[j] \in {"fetch", "judge", "insert"} =>
         \A d \in range[j] \ todo[j] : DealtWith(j, d)
    /\ \A d \in Day : <<d, "implausible">> \in problems[j] => Nearby(d)
    /\ j \in DailyJob => todo[j] = {} /\ pc[j] # "existing"
    /\ j \in DailyJob /\ pc[j] \in {"connect", "targets"} => range[j] = {}
    /\ pc[j] \in {"connect", "targets", "existing"} => todo[j] = {}

(* Rows are never changed or removed. *)
RatesGrow ==
    /\ rates' \in RateTables
    /\ \A d \in Day : rates[d] # NoRate => rates'[d] = rates[d]

(* What a step of job j leaves alone. *)
OnlyJob(j) ==
    \A o \in Job \ {j} :
        /\ pc'[o] = pc[o] /\ range'[o] = range[o] /\ todo'[o] = todo[o]
        /\ held'[o] = held[o] /\ gaps'[o] = gaps[o] /\ problems'[o] = problems[o]
        /\ code'[o] = code[o]

LEMMA StillNearby ==
  ASSUME rates \in RateTables, RatesGrow, NEW d \in Day, Nearby(d)
  PROVE  Nearby(d)'
  BY DEF RatesGrow, Nearby, Stored

LEMMA OtherJob ==
  ASSUME JobTypeOK, RatesGrow, NEW j \in Job, OnlyJob(j), NEW o \in Job \ {j}, JobPart(o)
  PROVE  JobPart(o)'
<1>1. rates \in RateTables /\ range[o] \subseteq Day
  BY DEF JobTypeOK
<1>2. \A d \in Day : rates[d] # NoRate => rates'[d] # NoRate
  BY DEF RatesGrow
<1>3. \A d \in Day : DealtWith(o, d) => DealtWith(o, d)'
  BY <1>2 DEF DealtWith, OnlyJob
<1>4. \A d \in Day : Nearby(d) => Nearby(d)'
  BY <1>1, StillNearby
<1>5. QED
  BY <1>1, <1>2, <1>3, <1>4 DEF JobPart, OnlyJob

LEMMA JobInitial == JobInit => JobTypeOK /\ \A j \in Job : JobPart(j)
<1> SUFFICES ASSUME JobInit PROVE JobTypeOK /\ \A j \in Job : JobPart(j)
  OBVIOUS
<1>1. JobTypeOK
  BY SeedsAssumption, RunsAssumption, TriesAssumption DEF JobInit, JobTypeOK, NothingHeld
<1>2. \A j \in Job : JobPart(j)
  BY DEF JobInit, JobPart
<1>3. QED
  BY <1>1, <1>2

------------------------------------------------------------------------------
(* The steps of a job. *)

(* The end of a day's work: no problem and nothing left means exit code 0. *)
LEMMA NextDayFacts ==
  ASSUME JobTypeOK, NEW j \in Job, NextDay(j)
  PROVE  /\ pc' \in [Job -> {"off", "connect", "targets", "existing", "fetch", "judge", "insert"}]
         /\ code' \in [Job -> {StillRunning, 0, 1, 2}]
         /\ \A o \in Job \ {j} : pc'[o] = pc[o] /\ code'[o] = code[o]
         /\ pc'[j] \in {"off", "fetch"}
         /\ pc'[j] = "off" /\ code'[j] = 0 => todo'[j] = {} /\ problems'[j] = {}
  BY DEF JobTypeOK, NextDay, Exit, Fails

(* A step that leaves the table alone and keeps all of the job's knowledge. *)
LEMMA RunsOn ==
  ASSUME JobTypeOK, NEW j \in Job, JobPart(j), rates' = rates,
         pc'[j] \in {"off", "fetch", "judge", "insert"},
         \A d \in Day : <<d, "implausible">> \in problems'[j] \ problems[j] => Nearby(d),
         pc'[j] = "off" /\ code'[j] = 0 => todo'[j] = {} /\ problems'[j] = {},
         \A d \in range'[j] \ todo'[j] : DealtWith(j, d)',
         j \in DailyJob => todo'[j] = {}
  PROVE  JobPart(j)'
<1>1. \A d \in Day : <<d, "implausible">> \in problems'[j] => Nearby(d)'
  BY DEF JobPart, Nearby, Stored
<1>2. ASSUME pc'[j] = "off", code'[j] = 0, NEW d \in range'[j]
      PROVE  rates'[d] # NoRate \/ d \in gaps'[j]
  BY <1>2 DEF DealtWith
<1>3. QED
  BY <1>1, <1>2 DEF JobPart

StepOk(j) == JobTypeOK' /\ RatesGrow /\ OnlyJob(j) /\ JobPart(j)'

LEMMA StartOk ==
  ASSUME JobTypeOK, NEW j \in Job, NEW days \in SUBSET Day, NEW at, NEW exit,
         Start(j, days, at, exit),
         \/ at = "connect" /\ exit = StillRunning
         \/ at = "off" /\ exit = 2,
         j \in DailyJob => days = {}
  PROVE  StepOk(j)
<1>1. JobTypeOK'
  BY RunsAssumption DEF JobTypeOK, Start
<1>2. RatesGrow /\ OnlyJob(j)
  BY DEF JobTypeOK, Start, RatesGrow, OnlyJob
<1>3. pc'[j] = at /\ code'[j] = exit /\ problems'[j] = {} /\ range'[j] = days /\ todo'[j] = {}
  BY DEF JobTypeOK, Start
<1>4. JobPart(j)'
  BY <1>3 DEF JobPart, StillRunning
<1>5. QED
  BY <1>1, <1>2, <1>4 DEF StepOk

LEMMA StartJobOk ==
  ASSUME JobTypeOK, NEW j \in Job, StartJob(j)
  PROVE  StepOk(j)
<1>1. CASE StartDaily(j)
  BY <1>1, StartOk DEF StartDaily
<1>2. CASE \E first, last \in Day : StartBackfill(j, first, last)
  <2>1. PICK first \in Day, last \in Day : StartBackfill(j, first, last)
    BY <1>2
  <2>2. j \notin DailyJob
    BY <2>1, JobAssumption DEF StartBackfill
  <2>3. CASE Start(j, {}, "off", 2)
    BY <2>2, <2>3, StartOk
  <2>4. CASE Start(j, (first .. last) \cap Day, "connect", StillRunning)
    BY <2>2, <2>4, StartOk
  <2>5. QED
    BY <2>1, <2>3, <2>4 DEF StartBackfill
<1>3. QED
  BY <1>1, <1>2 DEF StartJob

(* Giving up, and the statements before the first download. *)
LEMMA DieOk ==
  ASSUME JobTypeOK, NEW j \in Job, JobPart(j), Die(j)
  PROVE  StepOk(j)
<1>1. JobTypeOK' /\ RatesGrow /\ OnlyJob(j)
  BY TriesAssumption DEF JobTypeOK, Die, Exit, RatesGrow, OnlyJob
<1>2. pc'[j] = "off" /\ code'[j] = 1
  BY DEF JobTypeOK, Die, Exit
<1>3. JobPart(j)'
  BY <1>2 DEF JobPart, Nearby, Stored, Die
<1>4. QED
  BY <1>1, <1>3 DEF StepOk

LEMMA ConnectOk ==
  ASSUME JobTypeOK, NEW j \in Job, JobPart(j), Connect(j)
  PROVE  StepOk(j)
<1>1. pc[j] = "connect" /\ UNCHANGED <<rates, range, todo, held, gaps, problems, runs>>
  BY DEF Connect
<1>2. /\ tries' \in [Job -> 0 .. Tries]
      /\ \/ pc' = [pc EXCEPT ![j] = "targets"] /\ UNCHANGED code
         \/ Exit(j, 1)
         \/ UNCHANGED <<pc, code>>
  BY TriesAssumption DEF JobTypeOK, Connect, WaitsOn
<1>3. JobTypeOK' /\ RatesGrow /\ OnlyJob(j)
  BY <1>1, <1>2 DEF JobTypeOK, Exit, RatesGrow, OnlyJob
<1>4. pc'[j] \in {"connect", "targets"} \/ (pc'[j] = "off" /\ code'[j] = 1)
  BY <1>1, <1>2 DEF JobTypeOK, Exit
<1>5. JobPart(j)'
  BY <1>1, <1>4 DEF JobPart, Nearby, Stored
<1>6. QED
  BY <1>3, <1>5 DEF StepOk

LEMMA FetchTargetsOk ==
  ASSUME JobTypeOK, NEW j \in Job, JobPart(j), FetchTargets(j)
  PROVE  StepOk(j)
<1>1. UNCHANGED <<rates, todo, held, gaps, problems, runs, tries>> /\ pc[j] = "targets"
  BY DEF FetchTargets
<1>2. CASE /\ pc' = [pc EXCEPT ![j] = IF j \in DailyJob THEN "fetch" ELSE "existing"]
           /\ UNCHANGED <<range, code>>
  <2>1. JobTypeOK' /\ RatesGrow /\ OnlyJob(j)
    BY <1>1, <1>2 DEF JobTypeOK, RatesGrow, OnlyJob
  <2>2. pc'[j] = IF j \in DailyJob THEN "fetch" ELSE "existing"
    BY <1>2 DEF JobTypeOK
  <2>3. range' = range /\ todo' = todo /\ problems' = problems /\ rates' = rates
    BY <1>1, <1>2
  <2>4. todo'[j] = {} /\ (j \in DailyJob => range'[j] = {})
    BY <1>1, <2>3 DEF JobPart
  <2>5. \A d \in Day : <<d, "implausible">> \in problems'[j] => Nearby(d)'
    BY <2>3 DEF JobPart, Nearby, Stored
  <2>6. JobPart(j)'
    BY <2>2, <2>4, <2>5 DEF JobPart
  <2>7. QED
    BY <2>1, <2>6 DEF StepOk
<1>3. CASE Exit(j, 0) /\ range' = [range EXCEPT ![j] = {}]
  <2>1. pc'[j] = "off" /\ range'[j] = {} /\ todo[j] = {}
    BY <1>1, <1>3 DEF JobTypeOK, Exit, JobPart
  <2>2. JobTypeOK' /\ RatesGrow /\ OnlyJob(j)
    BY <1>1, <1>3, <2>1 DEF JobTypeOK, Exit, RatesGrow, OnlyJob
  <2>3. JobPart(j)'
    BY <1>1, <1>3, <2>1 DEF JobPart, Nearby, Stored
  <2>4. QED
    BY <2>2, <2>3 DEF StepOk
<1>4. QED
  BY <1>2, <1>3 DEF FetchTargets

LEMMA SkipExistingOk ==
  ASSUME JobTypeOK, NEW j \in Job, JobPart(j), SkipExisting(j)
  PROVE  StepOk(j)
<1>1. pc[j] = "existing" /\ UNCHANGED <<rates, range, held, gaps, problems, runs, tries>>
        /\ todo' = [todo EXCEPT ![j] = range[j] \ ExistingDates(j)] /\ range[j] \subseteq Day
  BY DEF SkipExisting, JobTypeOK
<1>2. todo'[j] = range[j] \ ExistingDates(j)
  BY <1>1 DEF JobTypeOK
<1>3. \A d \in range[j] \ todo'[j] : rates[d] # NoRate
  BY <1>2 DEF ExistingDates, Stored
<1>4. \/ pc'[j] = "off" /\ todo'[j] = {}
      \/ pc'[j] = "fetch"
  BY DEF SkipExisting, Exit, JobTypeOK
<1>5. /\ pc' \in [Job -> {"off", "connect", "targets", "existing", "fetch", "judge", "insert"}]
      /\ code' \in [Job -> {StillRunning, 0, 1, 2}]
      /\ \A o \in Job \ {j} : pc'[o] = pc[o] /\ code'[o] = code[o]
  BY DEF SkipExisting, Exit, JobTypeOK
<1>6. JobTypeOK' /\ RatesGrow /\ OnlyJob(j)
  <2>1. todo' \in [Job -> SUBSET Day] /\ \A o \in Job : todo'[o] \subseteq range'[o]
    BY <1>1 DEF JobTypeOK
  <2>2. \A o \in Job : pc'[o] \in {"judge", "insert"} => held'[o] # NothingHeld
    BY <1>1, <1>4, <1>5 DEF JobTypeOK
  <2>3. QED
    BY <1>1, <1>5, <2>1, <2>2 DEF JobTypeOK, RatesGrow, OnlyJob
<1>7. JobPart(j)'
  BY <1>1, <1>2, <1>3, <1>4 DEF JobPart, DealtWith, Nearby, Stored
<1>8. QED
  BY <1>6, <1>7 DEF StepOk

(* What the end of a download, of a judgement and of an insert have in common. *)
Onward(j) ==
    /\ JobTypeOK'
    /\ \A o \in Job \ {j} : /\ pc'[o] = pc[o] /\ code'[o] = code[o]
                            /\ held'[o] = held[o] /\ gaps'[o] = gaps[o]
                            /\ problems'[o] = problems[o]
    /\ pc'[j] \in {"off", "fetch", "judge", "insert"}
    /\ pc'[j] = "off" /\ code'[j] = 0 => todo'[j] = {} /\ problems'[j] = {}
    /\ gaps[j] \subseteq gaps'[j] /\ problems[j] \subseteq problems'[j]

LEMMA ReportFacts ==
  ASSUME JobTypeOK, NEW j \in Job, NEW d \in Day, NEW reason \in Reason, Report(j, d, reason)
  PROVE  /\ problems' \in [Job -> SUBSET (Day \X Reason)]
         /\ \A o \in Job \ {j} : problems'[o] = problems[o]
         /\ problems'[j] = problems[j] \cup {<<d, reason>>}
  BY DEF JobTypeOK, Report

(* A run whose only step outside pc and code is a report. *)
LEMMA ReportedOk ==
  ASSUME JobTypeOK, NEW j \in Job, NEW d \in Day, NEW reason \in Reason,
         reason # "implausible",
         Report(j, d, reason), NextDay(j), UNCHANGED <<rates, held, gaps, runs, tries>>,
         todo' \in [Job -> SUBSET Day], range' \in [Job -> SUBSET Day],
         \A o \in Job : todo'[o] \subseteq range'[o]
  PROVE  /\ Onward(j) /\ DealtWith(j, d)'
         /\ \A e \in Day : <<e, "implausible">> \in problems'[j] => <<e, "implausible">> \in problems[j]
<1> DEFINE P == problems'
<1>1. /\ P \in [Job -> SUBSET (Day \X Reason)]
      /\ \A o \in Job \ {j} : P[o] = problems[o]
      /\ P[j] = problems[j] \cup {<<d, reason>>}
  BY ReportFacts
<1>2. /\ pc' \in [Job -> {"off", "connect", "targets", "existing", "fetch", "judge", "insert"}]
      /\ code' \in [Job -> {StillRunning, 0, 1, 2}]
      /\ \A o \in Job \ {j} : pc'[o] = pc[o] /\ code'[o] = code[o]
      /\ pc'[j] \in {"off", "fetch"}
      /\ pc'[j] = "off" /\ code'[j] = 0 => todo'[j] = {} /\ problems'[j] = {}
  BY NextDayFacts
<1>3. JobTypeOK'
  BY <1>1, <1>2 DEF JobTypeOK
<1>4. Onward(j)
  BY <1>1, <1>2, <1>3 DEF Onward
<1>5. DealtWith(j, d)'
  BY <1>1 DEF DealtWith
<1>6. QED
  BY <1>1, <1>4, <1>5

LEMMA ApplyOk ==
  ASSUME JobTypeOK, NEW j \in Job, NEW d \in Day, Apply(j, d), UNCHANGED <<rates, runs, tries>>,
         todo' \in [Job -> SUBSET Day], range' \in [Job -> SUBSET Day],
         \A o \in Job : todo'[o] \subseteq range'[o]
  PROVE  /\ Onward(j) /\ DealtWith(j, d)'
         /\ \A e \in Day : <<e, "implausible">> \in problems'[j] => <<e, "implausible">> \in problems[j]
<1>1. CASE Report(j, d, "missing target") /\ NextDay(j) /\ UNCHANGED <<held, gaps>>
  BY <1>1, ReportedOk DEF Reason
<1>2. CASE Report(j, d, "not positive") /\ NextDay(j) /\ UNCHANGED <<held, gaps>>
  BY <1>2, ReportedOk DEF Reason
<1>3. CASE /\ \E r \in Rate : held' = [held EXCEPT ![j] = [day |-> d, rate |-> r]]
           /\ pc' = [pc EXCEPT ![j] = "judge"]
           /\ UNCHANGED <<gaps, problems, code>>
  <2>1. PICK r \in Rate : held' = [held EXCEPT ![j] = [day |-> d, rate |-> r]]
    BY <1>3
  <2>2. [day |-> d, rate |-> r] \in [day : Day, rate : Rate]
    BY <2>1
  <2>3. [day |-> d, rate |-> r] # NothingHeld
    <3>1. d # NoRate
      BY DayAssumption, NoRateAssumption
    <3>2. QED
      BY <3>1 DEF NothingHeld
  <2>4. /\ held'[j] = [day |-> d, rate |-> r]
        /\ pc'[j] = "judge"
        /\ \A o \in Job \ {j} : held'[o] = held[o] /\ pc'[o] = pc[o]
        /\ held' \in [Job -> [day : Day, rate : Rate] \cup {NothingHeld}]
        /\ pc' \in [Job -> {"off", "connect", "targets", "existing", "fetch", "judge", "insert"}]
    BY <1>3, <2>1, <2>2 DEF JobTypeOK
  <2>5. \A o \in Job : pc'[o] \in {"judge", "insert"} => held'[o] # NothingHeld
    BY <2>3, <2>4 DEF JobTypeOK
  <2>6. JobTypeOK'
    BY <1>3, <2>4, <2>5 DEF JobTypeOK
  <2>7. Onward(j)
    BY <1>3, <2>4, <2>6 DEF Onward
  <2>8. DealtWith(j, d)'
    BY <2>4 DEF DealtWith
  <2>9. QED
    BY <1>3, <2>7, <2>8
<1>4. QED
  BY <1>1, <1>2, <1>3 DEF Apply

LEMMA FetchLatestOk ==
  ASSUME JobTypeOK, NEW j \in Job, JobPart(j), FetchLatest(j)
  PROVE  StepOk(j)
<1>1. j \in DailyJob /\ pc[j] = "fetch" /\ todo[j] = {} /\ UNCHANGED <<rates, runs, tries>>
  <2>1. j \in DailyJob /\ pc[j] = "fetch" /\ UNCHANGED <<rates, runs, tries>>
    BY DEF FetchLatest
  <2>2. todo[j] = {}
    BY <2>1 DEF JobPart
  <2>3. QED
    BY <2>1, <2>2
<1>2. ASSUME NEW d \in Day, range' = [range EXCEPT ![j] = {d}], UNCHANGED todo, Apply(j, d)
      PROVE  StepOk(j)
  <2>1. /\ range' \in [Job -> SUBSET Day] /\ range'[j] = {d}
        /\ \A o \in Job \ {j} : range'[o] = range[o]
        /\ todo' \in [Job -> SUBSET Day] /\ todo'[j] = {}
        /\ \A o \in Job : todo'[o] \subseteq range'[o]
    BY <1>1, <1>2 DEF JobTypeOK
  <2>2. /\ Onward(j) /\ DealtWith(j, d)'
        /\ \A e \in Day : <<e, "implausible">> \in problems'[j] => <<e, "implausible">> \in problems[j]
    BY <1>1, <1>2, <2>1, ApplyOk
  <2>3. JobPart(j)'
    BY <1>1, <2>1, <2>2, RunsOn DEF Onward
  <2>4. RatesGrow /\ OnlyJob(j)
    BY <1>1, <1>2, <2>1, <2>2 DEF JobTypeOK, Onward, RatesGrow, OnlyJob
  <2>5. QED
    BY <2>2, <2>3, <2>4 DEF Onward, StepOk
<1>3. CASE Exit(j, 2) /\ UNCHANGED <<range, todo, held, gaps, problems>>
  <2>1. JobTypeOK' /\ RatesGrow /\ OnlyJob(j)
    BY <1>1, <1>3 DEF JobTypeOK, Exit, RatesGrow, OnlyJob
  <2>2. pc'[j] = "off" /\ code'[j] = 2
    BY <1>3 DEF JobTypeOK, Exit
  <2>3. JobPart(j)'
    BY <1>1, <1>3, <2>2 DEF JobPart, Nearby, Stored
  <2>4. QED
    BY <2>1, <2>3 DEF StepOk
<1>4. QED
  BY <1>2, <1>3 DEF FetchLatest

LEMMA FetchNextDateOk ==
  ASSUME JobTypeOK, NEW j \in Job, JobPart(j), FetchNextDate(j)
  PROVE  StepOk(j)
<1>1. j \notin DailyJob /\ pc[j] = "fetch" /\ UNCHANGED <<rates, range, runs, tries>>
  BY JobAssumption DEF FetchNextDate
<1>2. PICK d \in todo[j] :
        /\ todo' = [todo EXCEPT ![j] = @ \ {d}]
        /\ \/ Apply(j, d)
           \/ /\ gaps' = [gaps EXCEPT ![j] = @ \cup {d}]
              /\ UNCHANGED <<problems, held>>
              /\ NextDay(j)
           \/ /\ Report(j, d, "download failed")
              /\ NextDay(j)
              /\ UNCHANGED <<held, gaps>>
  BY DEF FetchNextDate
<1>3. /\ d \in Day
      /\ todo' \in [Job -> SUBSET Day] /\ todo'[j] = todo[j] \ {d}
      /\ \A o \in Job \ {j} : todo'[o] = todo[o]
      /\ range' \in [Job -> SUBSET Day] /\ \A o \in Job : todo'[o] \subseteq range'[o]
  BY <1>1, <1>2 DEF JobTypeOK
<1>4. /\ Onward(j) /\ DealtWith(j, d)'
      /\ \A e \in Day : <<e, "implausible">> \in problems'[j] => <<e, "implausible">> \in problems[j]
  <2>1. CASE Apply(j, d)
    BY <1>1, <1>3, <2>1, ApplyOk
  <2>2. CASE Report(j, d, "download failed") /\ NextDay(j) /\ UNCHANGED <<held, gaps>>
    BY <1>1, <1>3, <2>2, ReportedOk DEF Reason
  <2>3. CASE /\ gaps' = [gaps EXCEPT ![j] = @ \cup {d}]
             /\ UNCHANGED <<problems, held>>
             /\ NextDay(j)
    <3>1. /\ pc' \in [Job -> {"off", "connect", "targets", "existing", "fetch", "judge", "insert"}]
          /\ code' \in [Job -> {StillRunning, 0, 1, 2}]
          /\ \A o \in Job \ {j} : pc'[o] = pc[o] /\ code'[o] = code[o]
          /\ pc'[j] \in {"off", "fetch"}
          /\ pc'[j] = "off" /\ code'[j] = 0 => todo'[j] = {} /\ problems'[j] = {}
      BY <2>3, NextDayFacts
    <3>2. /\ gaps' \in [Job -> SUBSET Day] /\ gaps'[j] = gaps[j] \cup {d}
          /\ \A o \in Job \ {j} : gaps'[o] = gaps[o]
      BY <1>3, <2>3 DEF JobTypeOK
    <3>3. JobTypeOK'
      BY <1>1, <1>3, <2>3, <3>1, <3>2 DEF JobTypeOK
    <3>4. Onward(j)
      BY <2>3, <3>1, <3>2, <3>3 DEF Onward
    <3>5. DealtWith(j, d)'
      BY <3>2 DEF DealtWith
    <3>6. QED
      BY <2>3, <3>4, <3>5
  <2>4. QED
    BY <1>2, <2>1, <2>2, <2>3
<1>5. \A e \in Day : DealtWith(j, e) => DealtWith(j, e)'
  BY <1>1, <1>4 DEF DealtWith, Onward
<1>6. \A e \in range'[j] \ todo'[j] : DealtWith(j, e)'
  BY <1>1, <1>3, <1>4, <1>5 DEF JobPart, JobTypeOK
<1>7. JobPart(j)'
  BY <1>1, <1>4, <1>6, RunsOn DEF Onward
<1>8. RatesGrow /\ OnlyJob(j)
  BY <1>1, <1>3, <1>4 DEF JobTypeOK, Onward, RatesGrow, OnlyJob
<1>9. QED
  BY <1>4, <1>7, <1>8 DEF Onward, StepOk

(* A rate refused as implausible was judged against a row in the window. *)
LEMMA JudgeOk ==
  ASSUME JobTypeOK, NEW j \in Job, JobPart(j), Judge(j)
  PROVE  StepOk(j)
<1> DEFINE k == held[j].day
           B == BaselineDays(rates, k, Window)
<1>1. /\ pc[j] = "judge" /\ UNCHANGED <<rates, range, gaps, runs, tries, todo>>
      /\ held[j] \in [day : Day, rate : Rate] /\ k \in Day
  BY DEF Judge, JobTypeOK
<1>2. todo' \in [Job -> SUBSET Day] /\ range' \in [Job -> SUBSET Day]
        /\ \A o \in Job : todo'[o] \subseteq range'[o]
  BY <1>1 DEF JobTypeOK
<1>3. CASE /\ Implausible(held[j].rate, Baseline(rates, k, Window))
           /\ Report(j, k, "implausible")
           /\ held' = [held EXCEPT ![j] = NothingHeld]
           /\ NextDay(j)
  <2>1. B # {}
    BY <1>3 DEF Implausible, Baseline, LatestRow
  <2>2. Nearby(k)
    <3>1. PICK e \in Stored(rates) : e < k /\ e >= k - Window
      BY <2>1 DEF BaselineDays
    <3>2. e \in Int /\ k \in Int
      BY <1>1, DayAssumption DEF Stored
    <3>3. k - Window <= e /\ e <= k
      BY <3>1, <3>2, WindowAssumption
    <3>4. QED
      BY <3>3 DEF Nearby
  <2>3. /\ problems' \in [Job -> SUBSET (Day \X Reason)]
        /\ \A o \in Job \ {j} : problems'[o] = problems[o]
        /\ problems'[j] = problems[j] \cup {<<k, "implausible">>}
    BY <1>1, <1>3, ReportFacts DEF Reason
  <2>4. /\ pc' \in [Job -> {"off", "connect", "targets", "existing", "fetch", "judge", "insert"}]
        /\ code' \in [Job -> {StillRunning, 0, 1, 2}]
        /\ \A o \in Job \ {j} : pc'[o] = pc[o] /\ code'[o] = code[o]
        /\ pc'[j] \in {"off", "fetch"}
        /\ pc'[j] = "off" /\ code'[j] = 0 => todo'[j] = {} /\ problems'[j] = {}
    BY <1>3, NextDayFacts
  <2>5. /\ held' \in [Job -> [day : Day, rate : Rate] \cup {NothingHeld}]
        /\ \A o \in Job \ {j} : held'[o] = held[o]
    BY <1>3 DEF JobTypeOK
  <2>6. JobTypeOK'
    BY <1>1, <1>2, <2>3, <2>4, <2>5 DEF JobTypeOK
  <2>7. Onward(j)
    BY <1>1, <2>3, <2>4, <2>5, <2>6 DEF Onward
  <2>8. <<k, "implausible">> \in problems'[j] /\ "implausible" \in Reason
    BY <2>3 DEF Reason
  <2>9. \A d \in range'[j] \ todo'[j] : DealtWith(j, d)'
    <3>1. ASSUME NEW d \in range'[j] \ todo'[j] PROVE DealtWith(j, d)'
      <4>1. DealtWith(j, d)
        BY <1>1 DEF JobPart
      <4>2. CASE d = k
        BY <2>8, <4>2 DEF DealtWith
      <4>3. CASE d # k
        BY <1>1, <2>7, <4>1, <4>3 DEF DealtWith, Onward
      <4>4. QED
        BY <4>2, <4>3
    <3>2. QED
      BY <3>1
  <2>10. \A d \in Day : <<d, "implausible">> \in problems'[j] \ problems[j] => Nearby(d)
    BY <2>2, <2>3
  <2>11. JobPart(j)'
    <3>1. j \in DailyJob => todo'[j] = {}
      BY <1>1 DEF JobPart
    <3>2. QED
      BY <1>1, <2>4, <2>9, <2>10, <3>1, RunsOn
  <2>12. RatesGrow /\ OnlyJob(j)
    BY <1>1, <2>7 DEF JobTypeOK, Onward, RatesGrow, OnlyJob
  <2>13. QED
    BY <2>6, <2>11, <2>12 DEF StepOk
<1>4. CASE pc' = [pc EXCEPT ![j] = "insert"] /\ UNCHANGED <<held, problems, code>>
  <2>1. JobTypeOK' /\ RatesGrow /\ OnlyJob(j)
    BY <1>1, <1>4 DEF JobTypeOK, RatesGrow, OnlyJob
  <2>2. pc'[j] = "insert"
    BY <1>4 DEF JobTypeOK
  <2>3. \A d \in range'[j] \ todo'[j] : DealtWith(j, d)'
    BY <1>1, <1>4, <2>2 DEF JobPart, DealtWith
  <2>4. JobPart(j)'
    <3>1. j \in DailyJob => todo'[j] = {}
      BY <1>1 DEF JobPart
    <3>2. QED
      BY <1>1, <1>4, <2>2, <2>3, <3>1, RunsOn
  <2>5. QED
    BY <2>1, <2>4 DEF StepOk
<1>5. QED
  BY <1>3, <1>4 DEF Judge

(* The one statement that changes the table changes a day without a row. *)
LEMMA InsertOk ==
  ASSUME JobTypeOK, NEW j \in Job, JobPart(j), Insert(j)
  PROVE  StepOk(j)
<1> DEFINE k == held[j].day
<1>1. /\ pc[j] = "insert" /\ UNCHANGED <<range, gaps, runs, tries, todo, problems>>
      /\ held[j] \in [day : Day, rate : Rate] /\ k \in Day /\ held[j].rate \in Rate
      /\ rates' = Inserted(rates, k, held[j].rate)
      /\ held' = [held EXCEPT ![j] = NothingHeld]
      /\ NextDay(j)
  BY DEF Insert, JobTypeOK
<1>2. rates' \in RateTables /\ rates'[k] # NoRate
  <2>1. rates \in RateTables
    BY DEF JobTypeOK
  <2>2. \A r \in Rate : r # NoRate
    BY RateAssumption, NoRateAssumption
  <2>3. QED
    BY <1>1, <2>1, <2>2 DEF Inserted, RateTables
<1>3. RatesGrow
  BY <1>1, <1>2 DEF Inserted, RateTables, RatesGrow, JobTypeOK
<1>4. /\ pc' \in [Job -> {"off", "connect", "targets", "existing", "fetch", "judge", "insert"}]
      /\ code' \in [Job -> {StillRunning, 0, 1, 2}]
      /\ \A o \in Job \ {j} : pc'[o] = pc[o] /\ code'[o] = code[o]
      /\ pc'[j] \in {"off", "fetch"}
      /\ pc'[j] = "off" /\ code'[j] = 0 => todo'[j] = {} /\ problems'[j] = {}
  BY <1>1, NextDayFacts
<1>5. /\ held' \in [Job -> [day : Day, rate : Rate] \cup {NothingHeld}]
      /\ \A o \in Job \ {j} : held'[o] = held[o]
  BY <1>1 DEF JobTypeOK
<1>6. JobTypeOK'
  BY <1>1, <1>2, <1>4, <1>5 DEF JobTypeOK
<1>7. OnlyJob(j)
  BY <1>1, <1>4, <1>5 DEF OnlyJob
<1>8. \A d \in range'[j] \ todo'[j] : DealtWith(j, d)'
  <2>1. ASSUME NEW d \in range'[j] \ todo'[j] PROVE DealtWith(j, d)'
    <3>1. d \in Day /\ DealtWith(j, d)
      BY <1>1 DEF JobPart, JobTypeOK
    <3>2. CASE d = k
      BY <1>2, <3>2 DEF DealtWith
    <3>3. CASE d # k
      BY <1>1, <1>3, <3>1, <3>3 DEF DealtWith, RatesGrow
    <3>4. QED
      BY <3>2, <3>3
  <2>2. QED
    BY <2>1
<1>9. \A d \in Day : <<d, "implausible">> \in problems'[j] => Nearby(d)'
  BY <1>1, <1>3, StillNearby DEF JobPart, JobTypeOK
<1>10. ASSUME pc'[j] = "off", code'[j] = 0
       PROVE  \A d \in range'[j] : rates'[d] # NoRate \/ d \in gaps'[j]
  BY <1>4, <1>8, <1>10 DEF DealtWith
<1>11. JobPart(j)'
  BY <1>1, <1>4, <1>8, <1>9, <1>10 DEF JobPart
<1>12. QED
  BY <1>3, <1>6, <1>7, <1>11 DEF StepOk

------------------------------------------------------------------------------
(* The jobs, as a whole. *)

JobsInv == JobTypeOK /\ \A j \in Job : JobPart(j)

LEMMA OneJobMoves ==
  ASSUME JobsInv, NEW j \in Job, StepOk(j)
  PROVE  JobsInv' /\ RatesGrow
<1>1. \A o \in Job \ {j} : JobPart(o)'
  BY OtherJob DEF JobsInv, StepOk
<1>2. QED
  BY <1>1 DEF JobsInv, StepOk

LEMMA JobMoves ==
  ASSUME JobsInv, NEW j \in Job, StartJob(j) \/ JobStep(j) \/ Die(j)
  PROVE  JobsInv' /\ RatesGrow
<1>1. JobTypeOK /\ JobPart(j)
  BY DEF JobsInv
<1>2. StepOk(j)
  <2>1. CASE StartJob(j)
    BY <1>1, <2>1, StartJobOk
  <2>2. CASE Connect(j)
    BY <1>1, <2>2, ConnectOk
  <2>3. CASE FetchTargets(j)
    BY <1>1, <2>3, FetchTargetsOk
  <2>4. CASE SkipExisting(j)
    BY <1>1, <2>4, SkipExistingOk
  <2>5. CASE FetchLatest(j)
    BY <1>1, <2>5, FetchLatestOk
  <2>6. CASE FetchNextDate(j)
    BY <1>1, <2>6, FetchNextDateOk
  <2>7. CASE Judge(j)
    BY <1>1, <2>7, JudgeOk
  <2>8. CASE Insert(j)
    BY <1>1, <2>8, InsertOk
  <2>9. CASE Die(j)
    BY <1>1, <2>9, DieOk
  <2>10. QED
    BY <2>1, <2>2, <2>3, <2>4, <2>5, <2>6, <2>7, <2>8, <2>9 DEF JobStep
<1>3. QED
  BY <1>2, OneJobMoves

LEMMA NobodyMoves ==
  ASSUME JobsInv, UNCHANGED <<rates, jobVars>>
  PROVE  JobsInv' /\ RatesGrow
<1>1. JobTypeOK' /\ RatesGrow
  BY DEF JobsInv, JobTypeOK, RatesGrow, jobVars
<1>2. \A j \in Job : JobPart(j)'
  BY DEF JobsInv, JobPart, DealtWith, Nearby, Stored, jobVars
<1>3. QED
  BY <1>1, <1>2 DEF JobsInv

LEMMA JobsInvStep == JobsInv /\ [Next]_vars => JobsInv' /\ RatesGrow
<1> SUFFICES ASSUME JobsInv, [Next]_vars PROVE JobsInv' /\ RatesGrow
  OBVIOUS
<1>1. ASSUME NEW j \in Job, Works(j, StartJob(j)) \/ Works(j, JobStep(j)) \/ Works(j, Die(j))
      PROVE  JobsInv' /\ RatesGrow
  BY <1>1, JobMoves DEF Works
<1>2. ASSUME NEW r \in Reader, Lookup(r) PROVE JobsInv' /\ RatesGrow
  BY <1>2, NobodyMoves DEF Lookup
<1>3. CASE Tick
  BY <1>3, NobodyMoves DEF Tick
<1>4. CASE UNCHANGED vars
  BY <1>4, NobodyMoves DEF vars
<1>5. QED
  BY <1>1, <1>2, <1>3, <1>4 DEF Next

LEMMA JobsInvariant == Spec => []JobsInv
<1>1. Init => JobsInv
  BY JobInitial DEF Init, JobsInv
<1>2. JobsInv /\ [Next]_vars => JobsInv'
  BY JobsInvStep
<1>3. QED
  BY <1>1, <1>2, PTL DEF Spec

(* Whatever the two jobs and the lookups do in whatever order, the rate first *)
(* stored for a day is never changed and never removed.                       *)
THEOREM FirstRateForever == Spec => FirstRateStands
<1>1. JobsInv /\ [Next]_vars => [\A d \in Day : rates[d] # NoRate => rates'[d] = rates[d]]_vars
  BY JobsInvStep DEF RatesGrow
<1>2. QED
  BY <1>1, JobsInvariant, PTL DEF Spec, FirstRateStands

(* A job that exits with 0 has a row, or a gap reported, for each day of its *)
(* range.                                                                    *)
THEOREM ZeroIsHonest == Spec => []ZeroMeansCovered
<1>1. JobsInv => ZeroMeansCovered
  BY DEF JobsInv, JobPart, ZeroMeansCovered
<1>2. QED
  BY <1>1, JobsInvariant, PTL

(* A day whose rate was refused carries a rate no older than the window, so *)
(* the plausibility guard cannot refuse a feed for longer than that.         *)
THEOREM RefusalsAreBounded == Spec => []RefusedIsPricedNearby
<1>1. ASSUME JobsInv PROVE RefusedIsPricedNearby
  <2>1. ASSUME NEW j \in Job, NEW d \in Day, <<d, "implausible">> \in problems[j]
        PROVE  CarriedForward(rates, d) # NoRate /\ CarriedForward(rates, d).date >= d - Window
    <3>1. Nearby(d)
      BY <1>1, <2>1 DEF JobsInv, JobPart
    <3>2. PICK e \in Stored(rates) : d - Window <= e /\ e <= d
      BY <3>1 DEF Nearby
    <3>3. rates \in RateTables
      BY <1>1 DEF JobsInv, JobTypeOK
    <3> DEFINE row == CarriedForward(rates, d)
    <3>4. row # NoRate /\ row.date \in Stored(rates) /\ e <= row.date
      BY <3>2, <3>3, CarriedFacts
    <3>5. row.date \in Int /\ e \in Int /\ d \in Int
      BY <3>2, <3>4, DayAssumption DEF Stored
    <3> HIDE DEF row
    <3>6. row.date >= d - Window
      BY <3>2, <3>4, <3>5, WindowAssumption
    <3>7. QED
      BY <3>4, <3>6 DEF row
  <2>2. QED
    BY <2>1 DEF RefusedIsPricedNearby
<1>2. QED
  BY <1>1, JobsInvariant, PTL

------------------------------------------------------------------------------
(* The cache.  What it was told was true no earlier than the lookup began. *)

(* When the rows landed. *)
Times ==
    /\ clock \in 0 .. MaxTime
    /\ landed \in [Day -> -1 .. Never]
    /\ \A d \in Day : /\ landed[d] = Never <=> rates[d] = NoRate
                      /\ landed[d] # Never => landed[d] <= clock

(* An answer was true at some moment since s. *)
TrueSince(key, answer, s) == \E t \in s .. clock : TrueAt(key, answer, t)

(* An entry was true at some moment of its lifetime. *)
EntryPart(k) ==
    \/ cache[k].expires = -1
    \/ \E s \in 0 .. clock : /\ cache[k].expires = s + Lifetime(cache[k].answer)
                             /\ TrueSince(k, cache[k].answer, s)

LookPart(r) ==
    \/ look[r].at \in {"idle", "done"}
    \/ look[r].at = "asked" /\ look[r].key \in Key /\ look[r].since \in 0 .. clock
    \/ /\ look[r].at = "told" /\ look[r].key \in Key /\ look[r].since \in 0 .. clock
       /\ look[r] = [at |-> "told", key |-> look[r].key, since |-> look[r].since,
                     answer |-> look[r].answer]
       /\ TrueSince(look[r].key, look[r].answer, look[r].since)

CacheInv ==
    /\ Times
    /\ DOMAIN cache = Key /\ \A k \in Key : EntryPart(k)
    /\ DOMAIN look = Reader /\ \A r \in Reader : LookPart(r)

LEMMA LifetimeNat == \A answer : Lifetime(answer) \in 0 .. Ttl
  BY TtlAssumption DEF Lifetime

(* What the database answers is true when it answers. *)
LEMMA TrueNow ==
  ASSUME JobTypeOK, Times, NEW key
  PROVE  TrueAt(key, Answer(rates, key), clock)
<1> DEFINE S == {d \in Day : landed[d] = clock}
           T == [d \in Day |-> IF landed[d] < clock \/ d \in S THEN rates[d] ELSE NoRate]
<1>1. rates = [d \in Day |-> rates[d]]
  BY DEF JobTypeOK, RateTables
<1>2. ASSUME NEW d \in Day PROVE T[d] = rates[d]
  <2>1. CASE landed[d] = Never
    BY <2>1 DEF Times
  <2>2. CASE landed[d] # Never
    BY <2>2, TimeAssumption DEF Times, Never
  <2>3. QED
    BY <2>1, <2>2
<1>3. T = rates
  BY <1>1, <1>2
<1>4. QED
  BY <1>3, Zenon DEF TrueAt

(* What was true at a tick stays true of that tick when more rows land. *)
LEMMA StaysTrue ==
  ASSUME Times, RatesGrow, UNCHANGED clock, Lands,
         NEW key, NEW answer, NEW t \in Int, t <= clock, TrueAt(key, answer, t)
  PROVE  TrueAt(key, answer, t)'
<1>1. PICK S \in SUBSET {d \in Day : landed[d] = t} :
        answer = Answer([d \in Day |->
                   IF landed[d] < t \/ d \in S THEN rates[d] ELSE NoRate], key)
  BY DEF TrueAt
<1>2. ASSUME NEW d \in Day
      PROVE  /\ (IF landed[d] < t \/ d \in S THEN rates[d] ELSE NoRate)
                  = (IF landed'[d] < t \/ d \in S THEN rates'[d] ELSE NoRate)
             /\ d \in S => landed'[d] = t
  <2>1. clock \in Int /\ clock < Never /\ landed[d] \in Int
    BY TimeAssumption DEF Times, Never
  <2>2. CASE rates[d] # NoRate
    BY <2>2 DEF RatesGrow, Lands
  <2>3. CASE rates[d] = NoRate
    <3>1. landed[d] = Never /\ ~ (landed[d] < t) /\ d \notin S
      BY <1>1, <2>1, <2>3 DEF Times
    <3>2. landed'[d] = Never \/ landed'[d] = clock
      BY <3>1 DEF Lands
    <3>3. ~ (landed'[d] < t) \/ rates'[d] = NoRate
      BY <2>1, <3>2 DEF Lands
    <3>4. QED
      BY <2>3, <3>1, <3>3
  <2>4. QED
    BY <2>2, <2>3
<1>3. S \in SUBSET {d \in Day : landed'[d] = t}
  BY <1>1, <1>2
<1>4. [d \in Day |-> IF landed[d] < t \/ d \in S THEN rates[d] ELSE NoRate]
        = [d \in Day |-> IF landed'[d] < t \/ d \in S THEN rates'[d] ELSE NoRate]
  BY <1>2, Zenon
<1>5. answer = Answer([d \in Day |->
                 IF landed'[d] < t \/ d \in S THEN rates'[d] ELSE NoRate], key)
  BY <1>1, <1>4
<1>6. QED
  BY <1>3, <1>5, Zenon DEF TrueAt, Answer

(* The two ways time and the table move: rows land, or the clock may tick. *)
Moves ==
    /\ Times /\ Times' /\ clock \in Nat /\ clock' \in Nat
    /\ \/ RatesGrow /\ Lands /\ UNCHANGED clock
       \/ UNCHANGED <<rates, landed>> /\ clock <= clock'

LEMMA StillTrueSince ==
  ASSUME Moves, NEW key, NEW answer, NEW s \in 0 .. clock, TrueSince(key, answer, s)
  PROVE  s \in 0 .. clock' /\ TrueSince(key, answer, s)'
<1>1. PICK t \in s .. clock : TrueAt(key, answer, t)
  BY DEF TrueSince
<1>2. t \in Int /\ t <= clock /\ clock <= clock' /\ clock' \in Nat /\ clock \in Nat
  BY DEF Moves
<1>3. t \in s .. clock' /\ s \in 0 .. clock'
  BY <1>1, <1>2
<1>4. TrueAt(key, answer, t)'
  <2>1. CASE RatesGrow /\ Lands /\ UNCHANGED clock
    BY <1>1, <1>2, <2>1, StaysTrue DEF Moves
  <2>2. CASE UNCHANGED <<rates, landed>> /\ clock <= clock'
    BY <1>1, <2>2, Zenon DEF TrueAt
  <2>3. QED
    BY <2>1, <2>2 DEF Moves
<1>5. QED
  BY <1>3, <1>4 DEF TrueSince

LEMMA EntryStays ==
  ASSUME Moves, NEW k \in Key, EntryPart(k), cache'[k] = cache[k]
  PROVE  EntryPart(k)'
<1>1. CASE cache[k].expires = -1
  BY <1>1 DEF EntryPart
<1>2. ASSUME NEW s \in 0 .. clock, cache[k].expires = s + Lifetime(cache[k].answer),
             TrueSince(k, cache[k].answer, s)
      PROVE  EntryPart(k)'
  <2> DEFINE a == cache[k].answer
  <2>1. s \in 0 .. clock' /\ TrueSince(k, a, s)'
    BY <1>2, StillTrueSince
  <2>2. cache'[k].answer = a /\ cache'[k].expires = s + Lifetime(cache'[k].answer)
    BY <1>2
  <2>3. QED
    BY <2>1, <2>2 DEF EntryPart
<1>3. QED
  BY <1>1, <1>2 DEF EntryPart

LEMMA LookStays ==
  ASSUME Moves, NEW r \in Reader, LookPart(r), look'[r] = look[r]
  PROVE  LookPart(r)'
<1>1. CASE look[r].at \in {"idle", "done"}
  BY <1>1 DEF LookPart
<1>2. CASE look[r].at = "asked" /\ look[r].key \in Key /\ look[r].since \in 0 .. clock
  <2>1. look[r].since \in 0 .. clock'
    BY <1>2 DEF Moves
  <2>2. QED
    BY <1>2, <2>1 DEF LookPart
<1>3. CASE /\ look[r].at = "told" /\ look[r].key \in Key /\ look[r].since \in 0 .. clock
           /\ look[r] = [at |-> "told", key |-> look[r].key, since |-> look[r].since,
                         answer |-> look[r].answer]
           /\ TrueSince(look[r].key, look[r].answer, look[r].since)
  <2> DEFINE k == look[r].key
             a == look[r].answer
             s == look[r].since
  <2>1. s \in 0 .. clock' /\ TrueSince(k, a, s)'
    BY <1>3, StillTrueSince
  <2>2. look'[r].key = k /\ look'[r].answer = a /\ look'[r].since = s
    OBVIOUS
  <2>3. QED
    BY <1>3, <2>1, <2>2 DEF LookPart
<1>4. QED
  BY <1>1, <1>2, <1>3 DEF LookPart

LEMMA RowsLand ==
  ASSUME JobsInv, JobsInv', Times, RatesGrow, Lands, UNCHANGED clock
  PROVE  Moves
<1>1. clock \in Nat /\ clock <= MaxTime /\ Never = MaxTime + 1 /\ MaxTime \in Nat
  BY TimeAssumption DEF Times, Never
<1>2. landed' \in [Day -> -1 .. Never]
  BY <1>1 DEF Times, Lands
<1>3. ASSUME NEW d \in Day
      PROVE  /\ landed'[d] = Never <=> rates'[d] = NoRate
             /\ landed'[d] # Never => landed'[d] <= clock'
  <2>1. CASE rates[d] # NoRate
    BY <2>1 DEF Times, RatesGrow, Lands
  <2>2. CASE rates[d] = NoRate /\ rates'[d] # NoRate
    BY <1>1, <2>2 DEF Times, Lands
  <2>3. CASE rates[d] = NoRate /\ rates'[d] = NoRate
    BY <2>3 DEF Times, Lands
  <2>4. QED
    BY <2>1, <2>2, <2>3
<1>4. Times'
  BY <1>2, <1>3 DEF Times
<1>5. QED
  BY <1>1, <1>4 DEF Moves

LEMMA ClockMoves ==
  ASSUME Times, UNCHANGED <<rates, landed>>, clock' = clock \/ (clock < MaxTime /\ clock' = clock + 1)
  PROVE  Moves
<1>1. clock \in Nat /\ clock' \in 0 .. MaxTime /\ clock <= clock'
  BY TimeAssumption DEF Times
<1>2. \A d \in Day : landed[d] # Never => landed[d] \in Int /\ landed[d] <= clock
  BY TimeAssumption DEF Times, Never
<1>3. Times'
  BY <1>1, <1>2 DEF Times, Never
<1>4. QED
  BY <1>1, <1>3 DEF Moves

(* A step that touches neither the cache nor a lookup. *)
LEMMA CacheRests ==
  ASSUME CacheInv, Moves, UNCHANGED <<cache, look>>
  PROVE  CacheInv'
<1>1. \A k \in Key : EntryPart(k)'
  BY EntryStays DEF CacheInv
<1>2. \A r \in Reader : LookPart(r)'
  BY LookStays DEF CacheInv
<1>3. QED
  BY <1>1, <1>2 DEF CacheInv, Moves

(* One lookup moves, and at most one entry. *)
LEMMA LookupMoves ==
  ASSUME CacheInv, Moves, NEW r \in Reader, NEW key \in Key,
         DOMAIN cache' = Key, \A k \in Key \ {key} : cache'[k] = cache[k],
         EntryPart(key)',
         DOMAIN look' = Reader, \A o \in Reader \ {r} : look'[o] = look[o],
         LookPart(r)'
  PROVE  CacheInv'
<1>1. \A k \in Key : EntryPart(k)'
  BY EntryStays DEF CacheInv
<1>2. \A o \in Reader : LookPart(o)'
  BY LookStays DEF CacheInv
<1>3. QED
  BY <1>1, <1>2 DEF CacheInv, Moves

(* What a lookup answers when it ends. *)
FreshEnd(r) ==
    look[r].at # "done" /\ look'[r].at = "done" =>
      LET l == look'[r]
      IN  \E t \in l.since - Lifetime(l.answer) .. clock : TrueAt(l.key, l.answer, t)

LEMMA AskOk ==
  ASSUME CacheInv, Moves, UNCHANGED clock, NEW r \in Reader, NEW key \in Key, Ask(r, key)
  PROVE  CacheInv' /\ FreshEnd(r) /\ \A o \in Reader \ {r} : look'[o] = look[o]
<1>1. clock \in Nat /\ DOMAIN cache = Key /\ DOMAIN look = Reader /\ EntryPart(key)
  BY DEF CacheInv, Moves
<1>2. CASE Fresh(cache[key])
  <2> DEFINE a == cache[key].answer
             new == [at |-> "done", key |-> key, since |-> clock, answer |-> a]
  <2>1. cache' = cache /\ look' = [look EXCEPT ![r] = new]
    BY <1>2 DEF Ask
  <2>2. DOMAIN look' = Reader /\ look'[r] = new /\ \A o \in Reader \ {r} : look'[o] = look[o]
    BY <1>1, <2>1
  <2>3. CacheInv'
    <3>1. EntryPart(key)' /\ LookPart(r)'
      BY <1>1, <2>1, <2>2, EntryStays DEF LookPart
    <3>2. QED
      BY <1>1, <2>1, <2>2, <3>1, LookupMoves
  <2>4. PICK s \in 0 .. clock : cache[key].expires = s + Lifetime(a) /\ TrueSince(key, a, s)
    BY <1>1, <1>2 DEF EntryPart, Fresh
  <2>5. PICK t \in s .. clock : TrueAt(key, a, t)
    BY <2>4 DEF TrueSince
  <2>6. t \in clock - Lifetime(a) .. clock
    <3> DEFINE life == Lifetime(a)
    <3>1. life \in Nat
      BY LifetimeNat, TtlAssumption
    <3>2. clock < s + life
      BY <1>2, <2>4 DEF Fresh
    <3> HIDE DEF life
    <3>3. t \in clock - life .. clock
      BY <1>1, <2>4, <2>5, <3>1, <3>2
    <3>4. QED
      BY <3>3 DEF life
  <2>7. FreshEnd(r)
    BY <2>2, <2>5, <2>6 DEF FreshEnd
  <2>8. QED
    BY <2>2, <2>3, <2>7
<1>3. CASE ~ Fresh(cache[key])
  <2> DEFINE new == [at |-> "asked", key |-> key, since |-> clock]
  <2>1. look' = [look EXCEPT ![r] = new] /\ cache' = [cache EXCEPT ![key] = NoEntry]
    BY <1>3 DEF Ask
  <2>2. DOMAIN look' = Reader /\ look'[r] = new /\ \A o \in Reader \ {r} : look'[o] = look[o]
    BY <1>1, <2>1
  <2>3. DOMAIN cache' = Key /\ cache'[key] = NoEntry /\ \A k \in Key \ {key} : cache'[k] = cache[k]
    BY <1>1, <2>1
  <2>4. EntryPart(key)'
    BY <2>3 DEF EntryPart, NoEntry
  <2>5. LookPart(r)'
    BY <1>1, <2>2 DEF LookPart, Moves
  <2>6. CacheInv'
    BY <2>2, <2>3, <2>4, <2>5, LookupMoves
  <2>7. FreshEnd(r)
    BY <2>2 DEF FreshEnd
  <2>8. QED
    BY <2>2, <2>6, <2>7
<1>4. QED
  BY <1>2, <1>3

LEMMA ReadOk ==
  ASSUME JobTypeOK, CacheInv, Moves, NEW r \in Reader, Read(r)
  PROVE  CacheInv' /\ FreshEnd(r) /\ \A o \in Reader \ {r} : look'[o] = look[o]
<1> DEFINE k == look[r].key
           s == look[r].since
           a == Answer(rates, k)
           new == [at |-> "told", key |-> k, since |-> s, answer |-> a]
<1>1. cache' = cache /\ look' = [look EXCEPT ![r] = new] /\ look[r].at = "asked"
  BY DEF Read
<1>2. DOMAIN look' = Reader /\ look'[r] = new /\ \A o \in Reader \ {r} : look'[o] = look[o]
  BY <1>1 DEF CacheInv
<1>3. k \in Key /\ s \in 0 .. clock /\ clock \in Nat
  BY <1>1 DEF CacheInv, LookPart, Moves
<1>4. PICK key, answer, since : key = k /\ answer = a /\ since = s
  OBVIOUS
<1>5. TrueSince(key, answer, since)
  <2>1. TrueAt(k, a, clock)
    BY TrueNow DEF Moves
  <2>2. QED
    BY <1>3, <1>4, <2>1 DEF TrueSince
<1>6. since \in 0 .. clock' /\ TrueSince(key, answer, since)'
  BY <1>3, <1>4, <1>5, StillTrueSince
<1> HIDE DEF a
<1>7. LookPart(r)'
  <2>1. look'[r].key = key /\ look'[r].answer = answer /\ look'[r].since = since
    BY <1>2, <1>4
  <2>2. TrueSince(look[r].key, look[r].answer, look[r].since)'
    BY <1>6, <2>1
  <2>3. QED
    BY <1>2, <1>3, <1>4, <1>6, <2>1, <2>2 DEF LookPart
<1>8. EntryPart(k)' /\ DOMAIN cache' = Key
  BY <1>1, <1>3, EntryStays DEF CacheInv
<1>9. CacheInv'
  BY <1>1, <1>2, <1>3, <1>7, <1>8, LookupMoves
<1>10. FreshEnd(r)
  BY <1>2 DEF FreshEnd
<1>11. QED
  BY <1>2, <1>9, <1>10

LEMMA StoreOk ==
  ASSUME CacheInv, Moves, UNCHANGED clock, NEW r \in Reader, Store(r)
  PROVE  CacheInv' /\ FreshEnd(r) /\ \A o \in Reader \ {r} : look'[o] = look[o]
<1> DEFINE k == look[r].key
           s == look[r].since
           a == look[r].answer
           new == [answer |-> a, expires |-> s + Lifetime(a)]
<1>1. look' = [look EXCEPT ![r].at = "done"] /\ cache' = [cache EXCEPT ![k] = new]
        /\ look[r].at = "told"
  BY DEF Store, StampOf
<1>2. /\ look[r] = [at |-> "told", key |-> k, since |-> s, answer |-> a]
      /\ k \in Key /\ s \in 0 .. clock /\ TrueSince(k, a, s)
      /\ DOMAIN look = Reader /\ DOMAIN cache = Key /\ clock \in Nat
  BY <1>1 DEF CacheInv, LookPart, Moves
<1>3. /\ DOMAIN look' = Reader /\ \A o \in Reader \ {r} : look'[o] = look[o]
      /\ look'[r] = [at |-> "done", key |-> k, since |-> s, answer |-> a]
  BY <1>1, <1>2
<1>4. DOMAIN cache' = Key /\ cache'[k] = new /\ \A e \in Key \ {k} : cache'[e] = cache[e]
  BY <1>1, <1>2
<1>5. PICK key, answer, since : key = k /\ answer = a /\ since = s
  OBVIOUS
<1>6. EntryPart(k)'
  <2>1. since \in 0 .. clock' /\ TrueSince(key, answer, since)'
    BY <1>2, <1>5, StillTrueSince
  <2>2. /\ cache'[key].answer = answer
        /\ cache'[key].expires = since + Lifetime(cache'[key].answer)
    BY <1>4, <1>5
  <2>3. TrueSince(key, cache[key].answer, since)'
    BY <2>1, <2>2
  <2>4. EntryPart(key)'
    BY <2>1, <2>2, <2>3 DEF EntryPart
  <2>5. QED
    BY <1>3, <1>5, <2>4
<1>7. LookPart(r)'
  BY <1>3 DEF LookPart
<1>8. CacheInv'
  BY <1>2, <1>3, <1>4, <1>6, <1>7, LookupMoves
<1>9. FreshEnd(r)
  <2>1. PICK t \in s .. clock : TrueAt(k, a, t)
    BY <1>2 DEF TrueSince
  <2>2. t \in s - Lifetime(a) .. clock
    <3> DEFINE life == Lifetime(a)
    <3>1. life \in Nat
      BY LifetimeNat, TtlAssumption
    <3> HIDE DEF life
    <3>2. t \in s - life .. clock
      BY <1>2, <2>1, <3>1
    <3>3. QED
      BY <3>2 DEF life
  <2>3. QED
    BY <1>3, <2>1, <2>2 DEF FreshEnd
<1>10. QED
  BY <1>3, <1>8, <1>9

LEMMA LeaveOk ==
  ASSUME CacheInv, Moves, NEW r \in Reader, Leave(r)
  PROVE  CacheInv' /\ FreshEnd(r) /\ \A o \in Reader \ {r} : look'[o] = look[o]
<1>1. cache' = cache /\ look' = [look EXCEPT ![r] = Idle]
  BY DEF Leave
<1>2. DOMAIN look' = Reader /\ look'[r] = Idle /\ \A o \in Reader \ {r} : look'[o] = look[o]
  BY <1>1 DEF CacheInv
<1>3. \A k \in Key : EntryPart(k)'
  BY <1>1, EntryStays DEF CacheInv
<1>4. \A o \in Reader : LookPart(o)'
  BY <1>2, LookStays DEF CacheInv, LookPart, Idle
<1>5. QED
  BY <1>1, <1>2, <1>3, <1>4 DEF CacheInv, Moves, FreshEnd, Idle

LEMMA LookupOk ==
  ASSUME JobTypeOK, CacheInv, NEW r \in Reader, Lookup(r)
  PROVE  CacheInv' /\ \A o \in Reader : FreshEnd(o)
<1>1. UNCHANGED <<rates, landed, clock>>
  BY DEF Lookup
<1>2. Moves
  BY <1>1, ClockMoves DEF CacheInv
<1>3. CacheInv' /\ FreshEnd(r) /\ \A o \in Reader \ {r} : look'[o] = look[o]
  <2>1. CASE \E key \in Key : Ask(r, key)
    BY <1>1, <1>2, <2>1, AskOk
  <2>2. CASE Read(r)
    BY <1>2, <2>2, ReadOk
  <2>3. CASE Store(r)
    BY <1>1, <1>2, <2>3, StoreOk
  <2>4. CASE Leave(r)
    BY <1>2, <2>4, LeaveOk
  <2>5. QED
    BY <2>1, <2>2, <2>3, <2>4 DEF Lookup
<1>4. \A o \in Reader : FreshEnd(o)
  BY <1>3 DEF FreshEnd
<1>5. QED
  BY <1>3, <1>4

(* A step that leaves every lookup alone ends none. *)
LEMMA NoneEnds ==
  ASSUME UNCHANGED look
  PROVE  \A r \in Reader : FreshEnd(r)
  BY DEF FreshEnd

Inv == JobsInv /\ CacheInv

LEMMA InvInitial == Init => Inv
<1> SUFFICES ASSUME Init PROVE Inv
  OBVIOUS
<1>1. JobsInv
  BY JobInitial DEF Init, JobsInv
<1>2. Times
  BY TimeAssumption DEF Init, CacheInit, Times, Never
<1>3. \A k \in Key : EntryPart(k)
  BY DEF Init, CacheInit, EntryPart, NoEntry
<1>4. \A r \in Reader : LookPart(r)
  BY DEF Init, CacheInit, LookPart, Idle
<1>5. QED
  BY <1>1, <1>2, <1>3, <1>4 DEF Init, CacheInit, Inv, CacheInv

LEMMA InvStep == Inv /\ [Next]_vars => Inv' /\ \A r \in Reader : FreshEnd(r)
<1> SUFFICES ASSUME Inv, [Next]_vars PROVE Inv' /\ \A r \in Reader : FreshEnd(r)
  OBVIOUS
<1>1. JobsInv /\ JobTypeOK /\ CacheInv /\ Times /\ JobsInv' /\ RatesGrow
  BY JobsInvStep DEF Inv, JobsInv, CacheInv
<1>2. ASSUME NEW j \in Job, Works(j, StartJob(j)) \/ Works(j, JobStep(j)) \/ Works(j, Die(j))
      PROVE  Inv' /\ \A r \in Reader : FreshEnd(r)
  <2>1. Lands /\ UNCHANGED <<clock, cache, look, scene>>
    BY <1>2 DEF Works
  <2>2. Moves
    BY <1>1, <2>1, RowsLand
  <2>3. QED
    BY <1>1, <2>1, <2>2, CacheRests, NoneEnds DEF Inv
<1>3. ASSUME NEW r \in Reader, Lookup(r) PROVE Inv' /\ \A o \in Reader : FreshEnd(o)
  BY <1>1, <1>3, LookupOk DEF Inv
<1>4. CASE Tick \/ UNCHANGED vars
  <2>1. UNCHANGED <<rates, landed, cache, look>>
          /\ (clock' = clock \/ (clock < MaxTime /\ clock' = clock + 1))
    BY <1>4 DEF Tick, vars, cacheVars
  <2>2. Moves
    BY <1>1, <2>1, ClockMoves
  <2>3. QED
    BY <1>1, <2>1, <2>2, CacheRests, NoneEnds DEF Inv
<1>5. QED
  BY <1>2, <1>3, <1>4 DEF Next

LEMMA InvInvariant == Spec => []Inv
<1>1. Inv /\ [Next]_vars => Inv'
  BY InvStep
<1>2. QED
  BY <1>1, InvInitial, PTL DEF Spec

(* No lookup answers a rate that was last true more than its lifetime before *)
(* the lookup began, however many lookups of one key overlap and whatever    *)
(* rows land between the read of one and its return.                         *)
THEOREM AnswersStayFresh == Spec => AnswersAreFresh
<1>1. Inv /\ [Next]_vars =>
        [\A r \in Reader : look[r].at # "done" /\ look'[r].at = "done" =>
           LET l == look'[r]
           IN  \E t \in l.since - Lifetime(l.answer) .. clock :
                 TrueAt(l.key, l.answer, t)]_vars
  BY InvStep DEF FreshEnd
<1>2. QED
  BY <1>1, InvInvariant, PTL DEF Spec, AnswersAreFresh

(* Every variable of the jobs, the cache and the lookups keeps its type. *)
THEOREM TypeCorrect == Spec => []TypeOK
<1>1. ASSUME Inv PROVE TypeOK
  <2>1. JobTypeOK /\ Times /\ DOMAIN cache = Key /\ DOMAIN look = Reader
    BY <1>1 DEF Inv, JobsInv, CacheInv
  <2>2. ASSUME NEW k \in Key PROVE cache[k].expires \in -1 .. MaxTime + Ttl
    <3>1. EntryPart(k)
      BY <1>1 DEF Inv, CacheInv
    <3>2. CASE cache[k].expires = -1
      BY <3>2, TimeAssumption, TtlAssumption
    <3>3. ASSUME NEW s \in 0 .. clock, cache[k].expires = s + Lifetime(cache[k].answer)
          PROVE  cache[k].expires \in -1 .. MaxTime + Ttl
      <4> DEFINE life == Lifetime(cache[k].answer)
      <4>1. life \in 0 .. Ttl
        BY LifetimeNat
      <4> HIDE DEF life
      <4>2. s + life \in -1 .. MaxTime + Ttl
        BY <2>1, <4>1, TimeAssumption, TtlAssumption DEF Times
      <4>3. QED
        BY <3>3, <4>2 DEF life
    <3>4. QED
      BY <3>1, <3>2, <3>3 DEF EntryPart
  <2>3. \A r \in Reader : look[r].at \in {"idle", "asked", "told", "done"}
    BY <1>1 DEF Inv, CacheInv, LookPart
  <2>4. CacheTypeOK
    BY <2>1, <2>2, <2>3 DEF CacheTypeOK, Times
  <2>5. QED
    BY <2>1, <2>4 DEF TypeOK
<1>2. QED
  BY <1>1, InvInvariant, PTL
=============================================================================
