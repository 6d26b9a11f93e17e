------------------------------ MODULE PlanSearch ------------------------------
(***************************************************************************)
(* The search of an optimization: the stores worth considering, the plan   *)
(* each combination of them yields, the trip it would replace, the         *)
(* shopper's limits, and the three recommendations.                        *)
(*                                                                         *)
(* Stores lie on a street that passes home, their numbers order them as    *)
(* their ids do, and distances are whole kilometres.                       *)
(***************************************************************************)
EXTENDS Integers, FiniteSets, Sequences, Sums

CONSTANTS
    Shops,          \* stores within the radius
    Goods,          \* products on the list
    Wanted,         \* how many of each
    UnitPrices,     \* what a store may charge, Unsold included
    Streets,        \* where the stores may lie, home at 0
    ShopLimits,     \* maxStores
    KmLimits,       \* maxAdditionalDistanceKm
    MinuteLimits,   \* maxAdditionalMinutes
    SavingLimits,   \* minSavingsCentsPerExtraStore
    Exclusions,     \* the stores of excludedSupermarketIds
    MaxCandidates,  \* MAX_CANDIDATE_STORES
    HardShopLimit   \* MAX_STORES_HARD_LIMIT

Unsold == 0         \* no price in the list's currency

ASSUME SearchAssumption ==
    /\ Shops \subseteq Nat \ {0} /\ IsFiniteSet(Shops)
    /\ IsFiniteSet(Goods) /\ Goods # {}
    /\ Wanted \in Nat \ {0}
    /\ UnitPrices \subseteq Nat
    /\ Streets \subseteq [Shops -> Int \ {0}]
    /\ MaxCandidates \in Nat \ {0} /\ HardShopLimit \in Nat \ {0}
    /\ ShopLimits \subseteq 1 .. HardShopLimit
    /\ KmLimits \cup MinuteLimits \cup SavingLimits \subseteq Nat
    /\ Exclusions \subseteq SUBSET Shops

VARIABLES
    question,   \* what a request asks of the worker that has read the prices
    result      \* what the search answers

searchVars == <<question, result>>

Modes == {"cheapest", "bestBalance", "simplest"}

Question ==
    [price : [Shops -> [Goods -> UnitPrices]], street : Streets,
     maxStores : ShopLimits, maxKm : KmLimits, maxMinutes : MinuteLimits,
     minSavings : SavingLimits, excluded : Exclusions]

NoResult == [done |-> FALSE]

-----------------------------------------------------------------------------
(***************************************************************************)
(* plan.ts and travel.ts.                                                  *)
(***************************************************************************)
Abs(n) == IF n < 0 THEN -n ELSE n
AtLeast(n, m) == IF n > m THEN n ELSE m
Away(q, from, s) == Abs(q.street[s] - from)

\* Lexicographic order of what a comparison looks at, one after the other.
Before(a, b) ==
    \E i \in DOMAIN a \cap DOMAIN b : (\A j \in 1 .. i - 1 : a[j] = b[j]) /\ a[i] < b[i]

First(S, Key(_)) == CHOOSE s \in S : \A t \in S : ~Before(Key(t), Key(s))

\* A drive goes on to the nearest stop left, the lower id of two as near.
DriveOn(q, stops, drive) ==
    LET left == stops \ {drive.order[i] : i \in DOMAIN drive.order}
        next == First(left, LAMBDA s : <<Away(q, drive.at, s), s>>) IN
    [order |-> Append(drive.order, next), at |-> q.street[next],
     km |-> drive.km + Away(q, drive.at, next)]

\* Nearest-first from home, then back: the stops in order and the distance.
Route(q, stops) ==
    LET drive[n \in 0 .. Cardinality(stops)] ==
          IF n = 0 THEN [order |-> <<>>, at |-> 0, km |-> 0]
          ELSE DriveOn(q, stops, drive[n - 1])
        done == drive[Cardinality(stops)] IN
    [order |-> done.order, km |-> done.km + Abs(done.at)]

\* 25 km/h between the stops, 12 minutes at each.
Minutes(km, stops) == (km * 24 + 5) \div 10 + 12 * stops

\* What a plan covers counted in units, as the quantities are.
PlanCountingUnits(q, buys) ==
    LET bought == {g \in Goods : buys[g] # 0}
        stores == {buys[g] : g \in bought}
        route == Route(q, stores) IN
    [stores |-> stores, covered |-> Wanted * Cardinality(bought),
     total |-> Sum([g \in bought |-> Wanted * q.price[buys[g]][g]]),
     order |-> route.order, km |-> route.km,
     minutes |-> IF stores = {} THEN 0 ELSE Minutes(route.km, Cardinality(stores))]

Plan(q, buys) ==
    LET bought == {g \in Goods : buys[g] # 0}
        stores == {buys[g] : g \in bought}
        route == Route(q, stores) IN
    [stores |-> stores, covered |-> Cardinality(bought),
     total |-> Sum([g \in bought |-> Wanted * q.price[buys[g]][g]]),
     order |-> route.order, km |-> route.km,
     minutes |-> IF stores = {} THEN 0 ELSE Minutes(route.km, Cardinality(stores))]

\* Each product goes to the cheapest store of the combination, ties to the
\* nearer one and then to the lower id; a store that gets nothing is dropped.
BuildPlan(q, combination) ==
    LET sellers(g) == {s \in combination : q.price[s][g] # Unsold} IN
    Plan(q, [g \in Goods |->
               IF sellers(g) = {} THEN 0
               ELSE First(sellers(g), LAMBDA s : <<q.price[s][g], Away(q, 0, s), s>>)])

\* The plan against the trip it would replace.
RelativeTo(plan, baseline) ==
    [stores |-> plan.stores, covered |-> plan.covered, total |-> plan.total,
     order |-> plan.order, km |-> plan.km, minutes |-> plan.minutes,
     extraKm |-> AtLeast(0, plan.km - baseline.km),
     extraMinutes |-> AtLeast(0, plan.minutes - baseline.minutes),
     savings |-> baseline.total - plan.total]

-----------------------------------------------------------------------------
(***************************************************************************)
(* constraints.ts and scoring.ts.                                          *)
(***************************************************************************)
Violations(q, plan) ==
    LET stores == Cardinality(plan.stores) IN
    (IF stores > q.maxStores THEN {"TOO_MANY_STORES"} ELSE {})
    \cup (IF plan.extraKm > q.maxKm THEN {"TOO_FAR"} ELSE {})
    \cup (IF plan.extraMinutes > q.maxMinutes THEN {"TOO_LONG"} ELSE {})
    \cup (IF plan.stores \cap q.excluded # {} THEN {"EXCLUDED_SUPERMARKET"} ELSE {})
    \cup (IF stores > 1 /\ plan.savings < (stores - 1) * q.minSavings
          THEN {"EXTRA_STORE_NOT_WORTH_IT"} ELSE {})

Satisfies(q, plan) == Violations(q, plan) = {}

EffectiveCost(plan) ==
    plan.total + 150 * plan.extraKm + 20 * plan.extraMinutes
        + 300 * AtLeast(0, Cardinality(plan.stores) - 1)

\* What a mode prefers among plans that cover as much.
Measure(mode, plan) ==
    CASE mode = "cheapest" -> <<plan.total>>
      [] mode = "bestBalance" -> <<EffectiveCost(plan)>>
      [] mode = "simplest" -> <<Cardinality(plan.stores), plan.extraKm>>

\* A mode that weighs the price before what the plan leaves unbought.
RankByPrice(mode, plan) == Measure(mode, plan) \o <<-plan.covered>>

\* Coverage comes first in every mode.
Rank(mode, plan) == <<-plan.covered>> \o Measure(mode, plan)

\* comparePlans, up to plans of one route.
ComparedAs(mode, plan) ==
    Rank(mode, plan) \o <<Cardinality(plan.stores), plan.total, plan.km>> \o plan.order

Best(mode, plans) == First(plans, LAMBDA plan : ComparedAs(mode, plan))

-----------------------------------------------------------------------------
(***************************************************************************)
(* optimizer.ts.                                                           *)
(***************************************************************************)
Sold(q, s) == {g \in Goods : q.price[s][g] # Unsold}
Basket(q, s) == Sum([g \in Goods |-> Wanted * q.price[s][g]])

SelectCandidates(q) ==
    LET worth == {s \in Shops \ q.excluded : Sold(q, s) # {}}
        key(s) == <<-Cardinality(Sold(q, s)), Basket(q, s), Away(q, 0, s), s>> IN
    {s \in worth : Cardinality({t \in worth : Before(key(t), key(s))}) < MaxCandidates}

\* One store more than the shopper accepts, to show what that would save.
Combinations(q) ==
    LET stores == SelectCandidates(q)
        most == IF q.maxStores < HardShopLimit THEN q.maxStores + 1 ELSE HardShopLimit IN
    {c \in SUBSET stores : c # {} /\ Cardinality(c) <= most}

\* The trip made without any of this: one store, near, with most of the list.
Baseline(plans) ==
    First({p \in plans : Cardinality(p.stores) = 1},
          LAMBDA p : <<-p.covered, p.km, p.total>> \o p.order)

\* Plans in order of price, at most so many.
CheapestOf(n, plans) ==
    {p \in plans : Cardinality({other \in plans :
        Before(ComparedAs("cheapest", other), ComparedAs("cheapest", p))}) < n}

Optimize(q) ==
    LET built == {BuildPlan(q, c) : c \in Combinations(q)}
        plans == {RelativeTo(p, Baseline(built)) : p \in built}
        valid == {p \in plans : Satisfies(q, p)}
        cheapest == Best("cheapest", valid)
        tempting == {p \in plans \ valid :
                       p.total < cheapest.total /\ p.covered >= cheapest.covered} IN
    IF built = {} THEN [done |-> TRUE, found |-> FALSE, unavailable |-> Goods]
    ELSE [done |-> TRUE, found |-> TRUE,
          baseline |-> Baseline(built),
          plan |-> [m \in Modes |-> Best(m, valid)],
          rejected |-> CheapestOf(3, tempting),
          unavailable |-> {g \in Goods : \A s \in SelectCandidates(q) : g \notin Sold(q, s)}]

SearchInit == question \in Question /\ result = NoResult

Search ==
    /\ ~result.done
    /\ result' = Optimize(question)
    /\ UNCHANGED question

SearchSpec == SearchInit /\ [][Search]_searchVars

-----------------------------------------------------------------------------
(***************************************************************************)
(* Properties.                                                             *)
(***************************************************************************)
SearchTypeOK ==
    /\ question \in Question
    /\ result.done => result.unavailable \subseteq Goods
    /\ result.done /\ result.found =>
         \A m \in Modes : result.plan[m].stores \subseteq Shops /\ result.plan[m].covered \in 1 .. Cardinality(Goods)

\* Every way of buying: each product at any candidate store that sells it, and
\* nothing left unbought that a store on the way sells.
Shopping ==
    {buys \in [Goods -> SelectCandidates(question) \cup {0}] :
        \A g \in Goods :
            IF buys[g] = 0
            THEN \A h \in Goods : buys[h] # 0 => question.price[buys[h]][g] = Unsold
            ELSE question.price[buys[g]][g] # Unsold}

Ways == {RelativeTo(Plan(question, buys), result.baseline) : buys \in Shopping}

\* Leaving stops out does not lengthen the drive, as it may where going to the
\* nearest stop first is not the shortest way round.
NoStopShortens(way) ==
    \A stops \in SUBSET way.stores : Route(question, stops).km <= way.km

\* However the products are shared out among the stores, no way of buying them
\* within the shopper's limits covers more than a recommendation, or as much at
\* a better price, cost or effort: combining cheapest stores, dropping those
\* left empty and looking one store past the limit miss none.
NothingBetter ==
    result.done /\ result.found =>
        \A way \in Ways, mode \in Modes :
            /\ way.covered > 0 /\ Satisfies(question, way)
            /\ Before(<<-way.covered>> \o Measure(mode, way),
                      <<-result.plan[mode].covered>> \o Measure(mode, result.plan[mode]))
            => ~NoStopShortens(way)
=============================================================================
