------------------------------ MODULE HomeReport ------------------------------
(* Figures in the home currency: the dashboard and the monthly report.       *)
(*                                                                           *)
(* Nothing converted is stored.  A report prices each row with the rate of   *)
(* the row's own day, in SQL; a balance is summed in the account's currency  *)
(* and converted once at today's rate, in Python.  A read opens no           *)
(* transaction, so each of its statements sees the ledger, the categories    *)
(* and the rates as they are at that moment, and writes commit in between.   *)
(* Python takes today's rate from the cache of the worker, which may be older *)
(* than what SQL sees.                                                       *)
(*                                                                           *)
(* Time is a line of instants.  A calendar day lasts DayLength instants and  *)
(* starts Offset instants before its UTC day; a month lasts MonthLength      *)
(* days.  A rate is an integer, Unit of which make one.                      *)
EXTENDS RateTable, Functions

CONSTANTS
    Txn, Account,
    InDollars,      \* the accounts in the base currency; the others are in PEN
    Category,       \* the ordinary categories
    Opening,        \* the opening_balance system category
    Tag,
    Row,            \* bound: the live rows a ledger may hold
    NoRow,          \* a transaction that is deleted
    Instant, DayLength, Offset, MonthLength,
    Unit,           \* the scale of a rate
    Today,          \* the local day of the reader's clock
    FirstMonth, LastMonth,  \* the months a range report asks for
    Seeds,          \* bound: the rate tables a behaviour starts from
    MaxWrites,      \* bound: the writes that commit during one read
    Ttl, NegTtl,    \* how long the cache keeps a rate, and the lack of one
    MaxTime,        \* bound: the last tick
    Scenes,         \* bound: what goes on around a read
    Null            \* a figure that cannot be given

ASSUME ScaleAssumption ==
    DayLength \in Nat \ {0} /\ MonthLength \in Nat \ {0} /\ Unit \in Nat \ {0}
ASSUME TimeAssumption == Instant \subseteq Int /\ Offset \in Int
ASSUME RowAssumption ==
    Row \subseteq [account : Account, instant : Instant, amount : Nat \ {0},
                   inflow : BOOLEAN, category : Category \cup {Opening},
                   tags : SUBSET Tag]
ASSUME LedgerAssumption ==
    /\ IsFiniteSet(Txn) /\ NoRow \notin Row
    /\ InDollars \subseteq Account /\ Seeds \subseteq RateTables
ASSUME NullAssumption == Null \notin Int
ASSUME TtlAssumption == Ttl \in Nat \ {0} /\ NegTtl \in Nat \ {0}
\* A range report refuses months in the wrong order.
ASSUME MonthAssumption ==
    /\ FirstMonth \in Int /\ LastMonth \in Int /\ FirstMonth <= LastMonth
    /\ Today \in Int

VARIABLES
    ledger,     \* the live row of each transaction
    rates,      \* the exchange_rates table
    dropped,    \* categories with deleted_at set
    at,         \* the statement the read is at
    month,      \* the month the read is at
    listed,     \* the categories its first statement returned
    report,     \* month -> what was computed for it
    balances,   \* account -> its balance, and in home currency
    writes,     \* how many writes committed since its first statement
    torn,       \* history: months whose two queries saw different rows or rates
    kind,       \* the route
    clock,      \* time.monotonic, in ticks
    cache,      \* the entry of _RATE_CACHE for dollars as of Today
    asked,      \* the tick at which the read looked the rate up
    told,       \* the answer it got
    was,        \* history: what the table answered during each tick
    scene       \* what goes on around the read

readVars == <<at, month, listed, report, balances, kind, asked, told>>
vars == <<ledger, rates, dropped, writes, torn, readVars, clock, cache, was, scene>>

------------------------------------------------------------------------------
(* Days, months and conversion. *)

LocalDay(i) == (i + Offset) \div DayLength

StartOfDay(d) == d * DayLength - Offset

\* compute_month_bounds: midnight of the first day, and of the next month's.
MonthStart(m) == StartOfDay(m * MonthLength)

\* Mutant: the end of the month is inclusive.
InMonthOrAtItsEnd(row, m) == row.instant >= MonthStart(m) /\ row.instant <= MonthStart(m + 1)

InMonth(row, m) == row.instant >= MonthStart(m) /\ row.instant < MonthStart(m + 1)

Magnitude(n) == IF n >= 0 THEN n ELSE -n

\* Half away from zero, of a number of Units: Postgres round(numeric).
RoundSql(n) ==
    LET nearest == (2 * Magnitude(n) + Unit) \div (2 * Unit)
    IN  IF n >= 0 THEN nearest ELSE -nearest

\* Mutant: Python's round(), half to even.
RoundEven(n) ==
    LET floor == n \div Unit
        twice == 2 * (n % Unit)
    IN  IF twice > Unit \/ (twice = Unit /\ floor % 2 = 1) THEN floor + 1 ELSE floor

\* Decimal.quantize with ROUND_HALF_UP, whose "up" is away from zero: one more
\* than the truncated quotient when the remainder is half or more.
RoundPython(n) ==
    LET whole == Magnitude(n) \div Unit
        up    == IF 2 * (Magnitude(n) % Unit) >= Unit THEN whole + 1 ELSE whole
    IN  IF n >= 0 THEN up ELSE -up

\* Mutant: AT TIME ZONE is missing, the day of the rate is the UTC day.
JoinedByUtcDay(table, row) ==
    IF row.account \in InDollars
      THEN LET carried == CarriedForward(table, row.instant \div DayLength)
           IN  IF carried = NoRate THEN Null ELSE carried.rate
      ELSE Null

\* home_rate_join: a rate only for rows in dollars, by the row's local day.
JoinedRate(table, row) ==
    IF row.account \in InDollars
      THEN LET carried == CarriedForward(table, LocalDay(row.instant))
           IN  IF carried = NoRate THEN Null ELSE carried.rate
      ELSE Null

\* HOME_CENTS_EXPR: unsigned, NULL when the row cannot be converted.
HomeCents(table, row) ==
    LET rate == JoinedRate(table, row)
    IN  CASE row.account \notin InDollars -> row.amount
          [] row.account \in InDollars /\ rate # Null -> RoundSql(row.amount * rate)
          [] OTHER -> Null

Convertible(table, row) == HomeCents(table, row) # Null

Signed(row, magnitude) == IF row.inflow THEN magnitude ELSE -magnitude

SignedHomeCents(table, row) == Signed(row, HomeCents(table, row))

------------------------------------------------------------------------------
(* compute_month_flow *)

LiveTxns == {t \in Txn : ledger[t] # NoRow}

\* The rows both queries read.
Flows(m) == {t \in LiveTxns : InMonth(ledger[t], m) /\ ledger[t].category # Opening}

\* SUM ignores NULLs; the count beside it is what makes the figure null.
SumHome(T) ==
    LET rows == {t \in T : Convertible(rates, ledger[t])}
    IN  SumFunction([t \in rows |-> SignedHomeCents(rates, ledger[t])])

Unconverted(T) == Cardinality({t \in T : ~Convertible(rates, ledger[t])})

\* Mutant: a group gives the sum of what could be converted.
PartialFigure(T) == [spent |-> SumHome(T), unconverted |-> Unconverted(T)]

Figure(T) ==
    [spent       |-> IF Unconverted(T) > 0 THEN Null ELSE SumHome(T),
     unconverted |-> Unconverted(T)]

\* GROUP BY category_id, hashtag_ids.
GroupOf(t) == <<ledger[t].category, ledger[t].tags>>

Breakdown(m) ==
    [g \in {GroupOf(t) : t \in Flows(m)} |-> Figure({t \in Flows(m) : GroupOf(t) = g})]

AddUp(groups, keys) ==
    LET unconverted == SumFunction([g \in keys |-> groups[g].unconverted])
    IN  [spent |-> IF unconverted > 0 THEN Null
                   ELSE SumFunction([g \in keys |-> groups[g].spent]),
         unconverted |-> unconverted]

\* The Python rollup: a category's figure is added up from its groups.
CategoryRows(groups) ==
    [c \in listed |-> AddUp(groups, {g \in DOMAIN groups : g[1] = c})]

Totals(m) ==
    LET T    == Flows(m)
        rows == {t \in T : Convertible(rates, ledger[t])}
        in   == {t \in rows : SignedHomeCents(rates, ledger[t]) > 0}
        out  == {t \in rows : SignedHomeCents(rates, ledger[t]) < 0}
        inflow  == SumHome(in)
        outflow == -SumHome(out)
    IN  IF Unconverted(T) > 0
          THEN [inflow |-> Null, outflow |-> Null, net |-> Null,
                unconverted |-> Unconverted(T)]
          ELSE [inflow |-> inflow, outflow |-> outflow, net |-> inflow - outflow,
                unconverted |-> 0]

------------------------------------------------------------------------------
(* fetch_balances and fetch_home_balances *)

Balance(a) ==
    LET rows == {t \in LiveTxns : ledger[t].account = a}
    IN  SumFunction([t \in rows |-> Signed(ledger[t], ledger[t].amount)])

ToHomeCents(cents, rate) == RoundPython(cents * rate)

HomeBalance(a, cents, answer) ==
    CASE a \notin InDollars -> cents
      [] a \in InDollars /\ answer # NoRate -> ToHomeCents(cents, answer.rate)
      [] OTHER -> Null

------------------------------------------------------------------------------
(* get_rate, as RateCache has it, for the one lookup a read makes *)

\* What the table answers now: the row that prices Today, or NoRate.
TodaysRate == CarriedForward(rates, Today)

\* Mutant: the lack of a rate is kept as long as a rate.
OneLifetime(answer) == Ttl

Lifetime(answer) == IF answer = NoRate THEN NegTtl ELSE Ttl

NoEntry == [answer |-> NoRate, expires |-> 0]
Entry(answer, since) == [answer |-> answer, expires |-> since + Lifetime(answer)]

Fresh == clock < cache.expires

------------------------------------------------------------------------------
(* The statements of a read *)

Nothing == <<>>

Init ==
    /\ ledger \in [Txn -> Row \cup {NoRow}]
    /\ rates \in Seeds
    /\ dropped \in SUBSET Category
    /\ at = "idle"
    /\ month = FirstMonth
    /\ listed = {}
    /\ report = Nothing
    /\ balances = Nothing
    /\ writes = 0
    /\ torn = {}
    /\ kind = "none"
    /\ clock = 0
    /\ cache = NoEntry
    /\ asked = 0
    /\ told = NoRate
    /\ was = [t \in {0} |-> {TodaysRate}]
    /\ scene \in Scenes

Tables == <<ledger, rates, dropped, writes, torn>>
Around == <<clock, was, scene>>

\* The dashboard reads the balances and the current month; a range report
\* reads month after month.  A range report is started in the scene of writes
\* only: it looks nothing up.
Begin(route) ==
    /\ at = "idle"
    /\ route = "range" => scene = "writes"
    /\ kind' = route
    /\ IF route = "dashboard" THEN at' = "balances" /\ month' = LastMonth
                              ELSE at' = "categories" /\ month' = FirstMonth
    /\ UNCHANGED <<listed, report, balances, asked, told, cache, Tables, Around>>

ReadBalances ==
    /\ at = "balances"
    /\ at' = "convert"
    /\ balances' = [a \in Account |-> [cents |-> Balance(a), home |-> Null]]
    /\ UNCHANGED <<month, listed, report, kind, asked, told, cache, Tables, Around>>

\* The rate has been looked up: every balance in dollars is converted at it.
Converted(answer) ==
    /\ at' = "categories"
    /\ told' = answer
    /\ balances' = [a \in Account |->
                      [cents |-> balances[a].cents,
                       home  |-> HomeBalance(a, balances[a].cents, answer)]]

\* A fresh entry answers without a statement; an expired one is dropped.
ConvertBalances ==
    /\ at = "convert"
    /\ asked' = clock
    /\ IF Fresh THEN /\ Converted(cache.answer)
                     /\ UNCHANGED cache
                ELSE /\ at' = "await"
                     /\ cache' = NoEntry
                     /\ UNCHANGED <<told, balances>>
    /\ UNCHANGED <<month, listed, report, kind, Tables, Around>>

\* The database answers, with the table as it is by now.
RateArrives ==
    /\ at = "await"
    /\ Converted(TodaysRate)
    /\ cache' = Entry(TodaysRate, asked)
    /\ UNCHANGED <<month, listed, report, kind, asked, Tables, Around>>

\* Every category that is not deleted, the opening row excepted.
ReadCategories ==
    /\ at = "categories"
    /\ at' = "breakdown"
    /\ listed' = Category \ dropped
    /\ UNCHANGED <<month, report, balances, kind, asked, told, cache, Tables, Around>>

ReadBreakdown ==
    /\ at = "breakdown"
    /\ at' = "totals"
    /\ LET groups == Breakdown(month)
       IN  report' = [m \in DOMAIN report \cup {month} |->
                        IF m = month
                          THEN [groups |-> groups, categories |-> CategoryRows(groups)]
                          ELSE report[m]]
    /\ UNCHANGED <<month, listed, balances, kind, asked, told, cache, Tables, Around>>

ReadTotals ==
    /\ at = "totals"
    /\ report' = [report EXCEPT ![month] =
                    [groups |-> @.groups, categories |-> @.categories, totals |-> Totals(month)]]
    /\ IF month < LastMonth
         THEN at' = "categories" /\ month' = month + 1
         ELSE at' = "done" /\ UNCHANGED month
    /\ UNCHANGED <<listed, balances, kind, asked, told, cache, Tables, Around>>

------------------------------------------------------------------------------
(* What others do around it *)

\* A commit between the statements of a read, which one of its months may see
\* half of.
CommitsAmid ==
    /\ at \notin {"idle", "done"}
    /\ writes < MaxWrites
    /\ writes' = writes + 1
    /\ torn' = IF at = "totals" /\ <<ledger, rates>>' # <<ledger, rates>>
                 THEN torn \cup {month} ELSE torn

Write ==
    /\ scene = "writes"
    /\ \/ \E t \in Txn, row \in Row \cup {NoRow} :
            /\ ledger' = [ledger EXCEPT ![t] = row]
            /\ UNCHANGED dropped
       \/ \E c \in Category \ dropped :
            /\ dropped' = dropped \cup {c}
            /\ UNCHANGED ledger
    /\ UNCHANGED rates
    /\ CommitsAmid
    /\ UNCHANGED <<readVars, cache, Around>>

\* A job stores the rate of a day.
LandRate ==
    /\ \E d \in Day, r \in Rate : rates[d] = NoRate /\ rates' = [rates EXCEPT ![d] = r]
    /\ UNCHANGED <<ledger, dropped>>
    /\ \/ at = "idle" /\ scene = "time" /\ UNCHANGED <<writes, torn>>
       \/ CommitsAmid
    /\ was' = [was EXCEPT ![clock] = @ \cup {TodaysRate'}]
    /\ UNCHANGED <<readVars, cache, clock, scene>>

\* The balances are still to be converted.
Unpriced == at \in {"idle", "balances", "convert", "await"}

\* Another request of the worker stores what it was told between asking, at
\* tick since, and now.  Lookups that overlap store in any order.
LookUpElsewhere ==
    /\ scene = "time" /\ Unpriced
    /\ \E since \in 0 .. clock : \E t \in since .. clock : \E answer \in was[t] :
         cache' = Entry(answer, since)
    /\ UNCHANGED <<readVars, Tables, Around>>

Tick ==
    /\ scene = "time" /\ Unpriced
    /\ clock < MaxTime
    /\ clock' = clock + 1
    /\ was' = [t \in 0 .. clock + 1 |-> IF t <= clock THEN was[t] ELSE {TodaysRate}]
    /\ UNCHANGED <<readVars, cache, Tables, scene>>

Next ==
    \/ \E route \in {"dashboard", "range"} : Begin(route)
    \/ ReadBalances
    \/ ConvertBalances
    \/ RateArrives
    \/ ReadCategories
    \/ ReadBreakdown
    \/ ReadTotals
    \/ Write
    \/ LandRate
    \/ LookUpElsewhere
    \/ Tick

Spec == Init /\ [][Next]_vars

------------------------------------------------------------------------------
(* Properties *)

\* The read is over and nothing committed during it.
Quiet == at = "done" /\ writes = 0

Complete(m) == m \in DOMAIN report /\ "totals" \in DOMAIN report[m]

\* The net figure of a month is what its groups add up to, those of deleted
\* categories included, and both queries agree on how many rows have no rate:
\* the net is null exactly when some group is.  Only a commit between the two
\* queries of the month itself can make them disagree.
NetIsWhatGroupsAddUpTo ==
    \A m \in FirstMonth .. LastMonth : Complete(m) /\ m \notin torn =>
        LET groups == report[m].groups
            all    == AddUp(groups, DOMAIN groups)
        IN  /\ report[m].totals.net = all.spent
            /\ report[m].totals.unconverted = all.unconverted
            /\ all.spent = Null <=> \E g \in DOMAIN groups : groups[g].spent = Null

\* A range report counts every row of its days in one month, from one local
\* midnight to the next: its nets add up to its rows, each converted by itself,
\* and one of them is null when a row has no rate.  The rate of a row in dollars
\* is that of the last stored day that had begun, on the reader's calendar, at
\* the row's instant; it has none when no stored day had.
EachRowIsInOneMonth ==
    Quiet /\ kind = "range" =>
        LET T == {t \in LiveTxns :
                    /\ LocalDay(ledger[t].instant) >= FirstMonth * MonthLength
                    /\ LocalDay(ledger[t].instant) < (LastMonth + 1) * MonthLength
                    /\ ledger[t].category # Opening}
            begun(t) == {d \in Stored(rates) : StartOfDay(d) <= ledger[t].instant}
            nets == {m \in DOMAIN report : report[m].totals.net # Null}
        IN  /\ IF Unconverted(T) = 0
                 THEN /\ nets = FirstMonth .. LastMonth
                      /\ SumFunction([m \in nets |-> report[m].totals.net]) = SumHome(T)
                 ELSE nets # FirstMonth .. LastMonth
            /\ \A t \in {x \in T : ledger[x].account \in InDollars} :
                 /\ Convertible(rates, ledger[t]) <=> begun(t) # {}
                 /\ \A d \in LatestOf(begun(t)) :
                      HomeCents(rates, ledger[t]) = RoundSql(ledger[t].amount * rates[d])

\* All balances of a dashboard are converted at one answer, which the table gave
\* less than a lifetime before the worker looked: a balance is null although
\* today has a rate for a minute at most, and at a superseded rate for an hour.
\* Balances and reports round alike: converting an account's balance once is off
\* the sum of its rows converted one by one by no more than the halves that
\* rounding each may lose, not at all for a single row, when SQL prices all of
\* them at that answer.  The opening balance is among the rows.
BalanceIsWithinRounding ==
    at = "done" /\ kind = "dashboard" =>
        /\ \E t \in DOMAIN was :
              /\ t > asked - (IF told = NoRate THEN NegTtl ELSE Ttl)
              /\ told \in was[t]
        /\ \A a \in InDollars :
            LET T == {t \in LiveTxns : ledger[t].account = a}
                difference == balances[a].home - SumHome(T)
            IN  /\ balances[a].home = Null <=> told = NoRate
                /\ writes = 0 /\ told # NoRate
                     /\ (\A t \in T : JoinedRate(rates, ledger[t]) = told.rate)
                     => IF Cardinality(T) <= 1
                          THEN difference = 0
                          ELSE 2 * Magnitude(difference) <= Cardinality(T) + 1
=============================================================================
