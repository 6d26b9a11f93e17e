----------------------------- MODULE DailyPrices -----------------------------
(***************************************************************************)
(* The daily history of one product at one store: observations that arrive *)
(* late, are confirmed and expire, and the runs that weigh a day's and     *)
(* write the day's row - the scheduled one, which takes the day before the *)
(* moment it starts, and one an operator asks for.                         *)
(***************************************************************************)
EXTENDS Integers, FiniteSets, FiniteSetsExt

CONSTANTS
    DayLength,      \* moments in a day
    LastDay,        \* bound on the days
    Reporting,      \* who observes what: source, contributor, status, currency and price
    HalfLife,       \* RECENCY_HALF_LIFE_DAYS, in moments
    Kept,           \* PRICE_OBSERVATION_RETENTION_DAYS, in moments
    MaxSightings,   \* bound on observations
    MaxMishaps      \* bound on deaths and on what an operator asks for

Calendar == 1 .. LastDay
DayStart(d) == (d - 1) * DayLength + 1
DayEnd(d) == d * DayLength + 1      \* the start of the next day
Moments == 1 .. DayEnd(LastDay) - 1
UtcDay(t) == (t - 1) \div DayLength + 1

ASSUME DailyAssumption ==
    /\ {DayLength, LastDay, HalfLife} \subseteq Nat \ {0}
    /\ Reporting \subseteq [source : {"EXTERNAL_API", "PURCHASE_CONFIRMED",
                                      "USER_WITH_EVIDENCE", "USER_REPORTED"},
                            by : STRING, status : {"ACCEPTED", "FLAGGED", "REJECTED"},
                            currency : Nat \ {0}, price : Nat \ {0}]
    /\ {Kept, MaxSightings, MaxMishaps} \subseteq Nat

VARIABLES
    moment,         \* the clock
    sightings,      \* price_observations of the product at the store
    history,        \* for each day, its row in daily_price_history
    tick,           \* the scheduled job, and the day of its last tick
    aggregator,     \* runs of AggregateDailyPricesUseCase
    doubtful,       \* days changed, overlapped or cut short since a run first read them
    mishaps         \* deaths and operator's runs left

dailyVars == <<moment, sightings, history, tick, aggregator, doubtful, mishaps>>

Runs == {"scheduled", "operator"}

NoPoint == [count |-> 0]

Off == [pc |-> "off", day |-> 1, todo |-> {}, computed |-> NoPoint, previous |-> NoPoint]

DailyTypeOK ==
    /\ moment \in Moments
    /\ \A o \in sightings : {o.at, o.received} \subseteq Moments /\ o.confirmed \in Moments \cup {0}
    /\ Cardinality(sightings) <= MaxSightings
    /\ \A d \in Calendar : history[d].count \in 0 .. MaxSightings
    /\ tick \in [state : {"none", "waiting", "active"}, day : 0 .. LastDay]
    /\ \A r \in Runs : /\ aggregator[r].pc \in {"off", "list", "window", "previous", "upsert"}
                       /\ aggregator[r].day \in Calendar
    /\ doubtful \subseteq Calendar
    /\ mishaps \in 0 .. MaxMishaps

DailyInit ==
    /\ moment = 1
    /\ sightings = {}
    /\ history = [d \in Calendar |-> NoPoint]
    /\ tick = [state |-> "none", day |-> 1]
    /\ aggregator = [r \in Runs |-> Off]
    /\ doubtful = Calendar
    /\ mishaps = MaxMishaps

-----------------------------------------------------------------------------
(***************************************************************************)
(* Weighing (price-weighting.ts, observation-selection.ts), in units of    *)
(* 1/2000: source and penalty in tenths, recency in twentieths.            *)
(***************************************************************************)
SourceWeight(source) ==
    CASE source \in {"EXTERNAL_API", "PURCHASE_CONFIRMED"} -> 10
      [] source = "USER_WITH_EVIDENCE" -> 8
      [] source = "USER_REPORTED" -> 5

Earlier(t, u) == IF t < u THEN t ELSE u
Later(t, u) == IF t > u THEN t ELSE u

\* The latest moment, no later than asOf, at which its price was known to hold.
LastSeenAt(o, asOf) ==
    IF o.confirmed <= o.at THEN o.at ELSE Later(o.at, Earlier(o.confirmed, asOf))

\* Half of it goes every half-life, down to MIN_RECENCY_WEIGHT.
RecencyWeight(seen, asOf) ==
    Later(1, 20 \div 2 ^ (Later(0, asOf - seen) \div HalfLife))

WeightOf(o, asOf) ==
    SourceWeight(o.source) * RecencyWeight(LastSeenAt(o, asOf), asOf)
        * (IF o.status = "FLAGGED" THEN 3 ELSE 10)

\* Within CORROBORATION_TOLERANCE, a fifth.
WithinTolerance(a, b) == 5 * Later(a - b, b - a) <= Later(a, b)

\* Two other contributors independently saw much the same price.
IsCorroborated(o, accepted) ==
    Cardinality({a.by : a \in {c \in accepted :
        c.by # o.by /\ WithinTolerance(o.price, c.price)}}) >= 2

Usable(S) ==
    LET accepted == {o \in S : o.status = "ACCEPTED"} IN
    accepted \cup {o \in S : o.status = "FLAGGED" /\ IsCorroborated(o, accepted)}

WeightedPrice(S, asOf) ==
    LET total == MapThenSumSet(LAMBDA o : WeightOf(o, asOf), S)
        sum == MapThenSumSet(LAMBDA o : o.price * WeightOf(o, asOf), S)
        prices == {o.price : o \in S} IN
    [price |-> (2 * sum + total) \div (2 * total), min |-> Min(prices), max |-> Max(prices),
     weight |-> total, count |-> Cardinality(S)]

\* ANOMALY_RATIO, three halves either way.
IsAbruptChange(previous, current) ==
    /\ previous.count > 0
    /\ \/ 2 * current.price >= 3 * previous.price
       \/ 2 * previous.price >= 3 * current.price

\* Made during the day, or made before it and confirmed into it.
HeldDuring(o, d) ==
    /\ o.at < DayEnd(d)
    /\ o.at >= DayStart(d) \/ o.confirmed >= DayStart(d)

Held(d) == {o \in sightings : HeldDuring(o, d)}
Targets(d) == {o.currency : o \in Held(d)}

\* The day's observations as of now.
AsOfNow(d) == moment

\* The day's observations as of its end, whenever they are weighed.
AsOf(d) == DayEnd(d)

\* What one currency of the day yields.
Computed(d, currency, asOf) ==
    LET usable == Usable({o \in Held(d) : o.currency = currency}) IN
    IF usable = {} THEN NoPoint ELSE WeightedPrice(usable, asOf)

\* The row before it in the data, not the calendar.
PreviousRow(d) ==
    LET before == {e \in 1 .. d - 1 : history[e].count > 0} IN
    IF before = {} THEN NoPoint ELSE history[Max(before)]

Row(computed, currency, previous) ==
    [currency |-> currency, price |-> computed.price, min |-> computed.min,
     max |-> computed.max, weight |-> computed.weight, count |-> computed.count,
     anomalous |-> IsAbruptChange(previous, computed)]

Aggregators(d) == {r \in Runs : aggregator[r].pc # "off" /\ aggregator[r].day = d}

-----------------------------------------------------------------------------
(***************************************************************************)
(* Observations.                                                           *)
(***************************************************************************)
NextMoment ==
    /\ moment + 1 \in Moments
    /\ moment' = moment + 1
    /\ UNCHANGED <<sightings, history, tick, aggregator, doubtful, mishaps>>

Aggregating == UNCHANGED <<moment, history, tick, aggregator, mishaps>>

\* Reported now, seen now or before.
Observe(who, at) ==
    /\ Cardinality(sightings) < MaxSightings
    /\ sightings' = sightings \cup
         {[source |-> who.source, by |-> who.by, status |-> who.status, currency |-> who.currency,
           price |-> who.price, at |-> at, received |-> moment, confirmed |-> 0]}
    /\ doubtful' = doubtful \cup {UtcDay(at)}
    /\ Aggregating

\* The days from an observation to a moment.
Span(o, t) == UtcDay(o.at) .. UtcDay(t)

\* A feed sees its newest price again (confirmMany).
ConfirmSighting(o) ==
    /\ o.source = "EXTERNAL_API" /\ o.status = "ACCEPTED"
    /\ \A p \in sightings : p.by = o.by => p.at <= o.at
    /\ o.at < moment /\ o.confirmed < moment
    /\ sightings' = (sightings \ {o}) \cup {[o EXCEPT !.confirmed = moment]}
    /\ doubtful' = doubtful \cup Span(o, moment)
    /\ Aggregating

\* Retention: neither received nor confirmed since the cutoff.
PruneSighting(o) ==
    /\ o.received < moment - Kept /\ o.confirmed < moment - Kept
    /\ sightings' = sightings \ {o}
    /\ doubtful' = doubtful \cup Span(o, Later(o.at, o.confirmed))
    /\ Aggregating

-----------------------------------------------------------------------------
(***************************************************************************)
(* AggregateDailyPricesUseCase.                                            *)
(***************************************************************************)
Resume(r, pc) == aggregator' = [aggregator EXCEPT ![r].pc = pc]
Still == UNCHANGED <<moment, sightings>>

\* The scheduler adds a job a day.
AddTick ==
    /\ tick.day < UtcDay(moment) /\ tick.state = "none"
    /\ tick' = [state |-> "waiting", day |-> UtcDay(moment)]
    /\ Still /\ UNCHANGED <<history, aggregator, doubtful, mishaps>>

StartRun(r, d) ==
    /\ aggregator[r].pc = "off"
    /\ aggregator' = [aggregator EXCEPT ![r] = [Off EXCEPT !.pc = "list", !.day = d]]

\* The day before the one the worker takes the job in, not the job's own.
TakeTick ==
    /\ tick.state = "waiting" /\ UtcDay(moment) > 1
    /\ tick' = [tick EXCEPT !.state = "active"]
    /\ StartRun("scheduled", UtcDay(moment) - 1)
    /\ Still /\ UNCHANGED <<history, doubtful, mishaps>>

Reaggregate(d) ==
    /\ mishaps > 0 /\ mishaps' = mishaps - 1
    /\ d < UtcDay(moment)
    /\ StartRun("operator", d)
    /\ Still /\ UNCHANGED <<history, tick, doubtful>>

Ended(r) == tick' = IF r = "scheduled" THEN [tick EXCEPT !.state = "none"] ELSE tick

\* listAggregationTargets, in order of currency.
ListTargets(r) ==
    /\ aggregator[r].pc = "list"
    /\ LET d == aggregator[r].day IN
       /\ IF Targets(d) = {}
          THEN aggregator' = [aggregator EXCEPT ![r] = Off] /\ Ended(r)
          ELSE /\ aggregator' = [aggregator EXCEPT ![r].pc = "window", ![r].todo = Targets(d)]
               /\ UNCHANGED tick
       /\ doubtful' = IF Aggregators(d) = {r} THEN doubtful \ {d} ELSE doubtful \cup {d}
    /\ Still /\ UNCHANGED <<history, mishaps>>

Currency(r) == Min(aggregator[r].todo)

\* One currency of the list is done: the next, or the end of the run.
NextTarget(r) ==
    LET left == aggregator[r].todo \ {Currency(r)} IN
    IF left = {}
    THEN aggregator' = [aggregator EXCEPT ![r] = Off] /\ Ended(r)
    ELSE aggregator' = [aggregator EXCEPT ![r].pc = "window", ![r].todo = left] /\ UNCHANGED tick

\* findInWindow; a day whose every observation is quarantined gets no row.
ReadDay(r) ==
    /\ aggregator[r].pc = "window"
    /\ LET d == aggregator[r].day
           computed == Computed(d, Currency(r), AsOf(d)) IN
       IF computed.count = 0 THEN NextTarget(r)
       ELSE /\ aggregator' = [aggregator EXCEPT ![r].pc = "previous", ![r].computed = computed]
            /\ UNCHANGED tick
    /\ Still /\ UNCHANGED <<history, doubtful, mishaps>>

FindPreviousDay(r) ==
    /\ aggregator[r].pc = "previous"
    /\ aggregator' = [aggregator EXCEPT ![r].pc = "upsert",
                                        ![r].previous = PreviousRow(aggregator[r].day)]
    /\ Still /\ UNCHANGED <<history, tick, doubtful, mishaps>>

UpsertDay(r) ==
    /\ aggregator[r].pc = "upsert"
    /\ history' = [history EXCEPT ![aggregator[r].day] =
                     Row(aggregator[r].computed, Currency(r), aggregator[r].previous)]
    /\ NextTarget(r)
    /\ doubtful' = doubtful \cup (aggregator[r].day + 1 .. LastDay)
    /\ Still /\ UNCHANGED mishaps

\* The worker dies: its job is lost, or recovered as stalled and run afresh.
AggregatorDies(r) ==
    /\ mishaps > 0 /\ mishaps' = mishaps - 1
    /\ aggregator[r].pc # "off"
    /\ aggregator' = [aggregator EXCEPT ![r] = Off]
    /\ IF r = "scheduled"
       THEN \E state \in {"none", "waiting"} : tick' = [tick EXCEPT !.state = state]
       ELSE UNCHANGED tick
    /\ doubtful' = doubtful \cup {aggregator[r].day}
    /\ Still /\ UNCHANGED history

-----------------------------------------------------------------------------
AggregatorStep(r) == ListTargets(r) \/ ReadDay(r) \/ FindPreviousDay(r) \/ UpsertDay(r)

DailyNext ==
    \/ NextMoment \/ AddTick \/ TakeTick
    \/ \E who \in Reporting, at \in 1 .. moment : Observe(who, at)
    \/ \E o \in sightings : ConfirmSighting(o) \/ PruneSighting(o)
    \/ \E d \in Calendar : Reaggregate(d)
    \/ \E r \in Runs : AggregatorStep(r) \/ AggregatorDies(r)

DailySpec == DailyInit /\ [][DailyNext]_dailyVars

-----------------------------------------------------------------------------
(***************************************************************************)
(* Properties.                                                             *)
(***************************************************************************)
\* "re-running a day is safe and is expected": once a run of a day is over, its
\* row is what the day's observations yield now, weighed as of the day's end (in
\* the last of their currencies: a day has one row) and set against the row before it -
\* though they were late, more were confirmed or expired before it, an earlier
\* run died or left another row, and whenever the run took place - unless
\* something of the day changed, a second run overlapped or one died since the
\* run first read it.
DayIsTrue ==
    \A d \in Calendar \ doubtful :
        LET yields == {c \in Targets(d) : Computed(d, c, DayEnd(d)).count > 0} IN
        Aggregators(d) = {} /\ yields # {} =>
            history[d] = Row(Computed(d, Max(yields), DayEnd(d)), Max(yields), PreviousRow(d))
=============================================================================
