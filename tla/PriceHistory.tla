----------------------------- MODULE PriceHistory -----------------------------
(***************************************************************************)
(* The price history of a product as it is shown: the daily rows of its    *)
(* stores in a range, told in one currency, one point a day, and the trend *)
(* they summarize to.                                                      *)
(***************************************************************************)
EXTENDS Integers, FiniteSets, FiniteSetsExt, Sums

CONSTANTS
    Outlets,        \* stores
    Monies,         \* currencies
    RangeDays,      \* days of the range asked for
    MaxPoints,      \* MAX_POINTS
    Today,
    Unnamed         \* no store, no currency named

ASSUME HistoryAssumption == IsFiniteSet(Outlets) /\ Monies # {} /\ Today \in Int

VARIABLES
    recorded,       \* daily_price_history: a row for some of the days and stores
    asks,           \* PriceHistoryQueryDto
    shown           \* what is answered

historyVars == <<recorded, asks, shown>>

\* Nothing is recorded of a day without observations, and what is averages them.
DailyPricePoint ==
    {r \in [currency : Monies, average : Nat, min : Nat, max : Nat, count : Nat \ {0}, anomalous : BOOLEAN] :
        r.min <= r.average /\ r.average <= r.max}
PriceHistoryQueryDto == [store : Outlets \cup {Unnamed}, currency : Monies \cup {Unnamed}]

NotShown == [ready |-> FALSE]
NoTrend == [direction |-> "none"]

HistoryInit ==
    /\ \E cells \in SUBSET ((0 .. Today) \X Outlets) : recorded \in [cells -> DailyPricePoint]
    /\ asks \in PriceHistoryQueryDto
    /\ shown = NotShown

-----------------------------------------------------------------------------
(***************************************************************************)
(* price-history.ts.  A point is a record with its day; numbers are        *)
(* rounded half up.                                                        *)
(***************************************************************************)
Rounded(n, d) == (2 * n + d) \div (2 * d)
Observed(cells) == Sum([c \in cells |-> recorded[c].count])
In(cells, currency) == {c \in cells : recorded[c].currency = currency}

\* The requested one, otherwise one of those with most observations behind them.
HistoryCurrency(cells, requested) ==
    IF requested # Unnamed THEN {requested}
    ELSE {m \in {recorded[c].currency : c \in cells} :
            \A n \in Monies : Observed(In(cells, n)) <= Observed(In(cells, m))}

\* A store counts in proportion to its observations; one odd store taints the day.
MergeDay(cells, day) ==
    [day |-> day,
     average |-> Rounded(Sum([c \in cells |-> recorded[c].average * recorded[c].count]), Observed(cells)),
     min |-> Min({recorded[c].min : c \in cells}),
     max |-> Max({recorded[c].max : c \in cells}),
     count |-> Observed(cells),
     anomalous |-> \E c \in cells : recorded[c].anomalous]

MergeByDate(cells) == {MergeDay({c \in cells : c[1] = d}, d) : d \in {c[1] : c \in cells}}

\* In tenths of a percent, STABLE_BAND_PERCENT being one percent.
Change(first, last) ==
    IF first = 0 THEN 0
    ELSE IF last >= first THEN Rounded((last - first) * 1000, first)
    ELSE -Rounded((first - last) * 1000, first)

TrendOf(points) ==
    LET on(d) == CHOOSE p \in points : p.day = d
        days == {p.day : p \in points}
        change == Change(on(Min(days)).average, on(Max(days)).average) IN
    [average |-> Rounded(Sum([p \in points |-> p.average]), Cardinality(points)),
     lowest |-> Min({p.min : p \in points}), highest |-> Max({p.max : p \in points}),
     change |-> change,
     direction |-> IF change > -10 /\ change < 10 THEN "stable"
                   ELSE IF change > 0 THEN "up" ELSE "down"]

CalmPoints(points) == {p \in points : ~p.anomalous}
SummarizeTrend(points) == IF CalmPoints(points) = {} THEN NoTrend ELSE TrendOf(CalmPoints(points))

-----------------------------------------------------------------------------
(***************************************************************************)
(* GetPriceHistoryUseCase.  With a store named a day has one row, and the  *)
(* merge of one row is the row.                                            *)
(***************************************************************************)
InRange ==
    {c \in DOMAIN recorded : /\ c[1] >= Today - RangeDays /\ c[1] <= Today
                             /\ asks.store \in {Unnamed, c[2]}}

\* The oldest, as many as MAX_POINTS: of too many rows the latest are not read.
FindRange ==
    {rows \in SUBSET InRange :
        /\ Cardinality(rows) = Min({MaxPoints, Cardinality(InRange)})
        /\ \A c \in rows, d \in InRange \ rows : c[1] <= d[1]}

GetPriceHistory ==
    /\ ~shown.ready
    /\ \/ InRange = {} /\ shown' = [ready |-> TRUE, points |-> {}, trend |-> NoTrend]
       \/ \E rows \in FindRange : \E currency \in HistoryCurrency(rows, asks.currency) :
            LET points == MergeByDate(In(rows, currency)) IN
            shown' = [ready |-> TRUE, points |-> points, trend |-> SummarizeTrend(points)]
    /\ UNCHANGED <<recorded, asks>>

HistorySpec == HistoryInit /\ [][GetPriceHistory]_historyVars

-----------------------------------------------------------------------------
(***************************************************************************)
(* Properties.                                                             *)
(***************************************************************************)
\* What a shopper reads of a history is about one currency and the days and
\* stores asked for, as far as they are read, each day's average within what
\* was paid that day and the trend's within what was paid in the range; a day
\* something odd happened in at any store shows, and no number of the trend
\* leans on it.
HistoryIsTrue ==
    shown.ready /\ shown.points # {} =>
        \E rows \in FindRange : \E currency \in HistoryCurrency(rows, asks.currency) :
            LET told == In(rows, currency)
                odd == {c[1] : c \in {c \in told : recorded[c].anomalous}}
                calm == {c \in told : c[1] \notin odd}
                trend == shown.trend IN
            /\ {p.day : p \in shown.points} = {c[1] : c \in told}
            /\ Sum([p \in shown.points |-> p.count]) = Observed(told)
            /\ \A p \in shown.points : p.min <= p.average /\ p.average <= p.max
            /\ calm = {} <=> trend = NoTrend
            /\ calm # {} =>
                 /\ trend.lowest = Min({recorded[c].min : c \in calm})
                 /\ trend.highest = Max({recorded[c].max : c \in calm})
                 /\ trend.lowest <= trend.average /\ trend.average <= trend.highest
                 /\ trend = SummarizeTrend(MergeByDate(calm))
=============================================================================
