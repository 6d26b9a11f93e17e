------------------------------- MODULE Community -------------------------------
(***************************************************************************)
(* What shoppers say of what shoppers added: confirmations, flags and      *)
(* accepted prices of the products of one shop, the standing recomputed    *)
(* from them, the shop that goes public with enough of them, and the team  *)
(* that verifies, hides, restores and merges.  Every request runs beside   *)
(* the others, and its reads and writes are separate steps.                *)
(***************************************************************************)
EXTENDS Integers, FiniteSets

CONSTANTS
    Products,
    Shop,
    Shoppers,
    Creator,        \* the shopper who added the products and the shop
    Newcomers,      \* shoppers with no trust yet; the others have it all
    Callers,        \* requests and event handlers under way
    Nobody,         \* no product, no shopper
    Needed,         \* PRODUCTS_NEEDED
    HideThreshold,
    DailyFlagLimit,
    SignalCap,
    MaxRequests,    \* bound on requests
    MaxDeaths       \* bound on executions that die

ASSUME CommunityAssumption ==
    /\ Shop \notin Products /\ Nobody \notin Products \cup Shoppers
    /\ IsFiniteSet(Products) /\ IsFiniteSet(Shoppers)
    /\ Creator \in Shoppers /\ Newcomers \subseteq Shoppers
    /\ {Needed, HideThreshold, DailyFlagLimit, SignalCap} \subseteq Nat \ {0}
    /\ {MaxRequests, MaxDeaths} \subseteq Nat

Entries == Products \cup {Shop}
Statuses == {"ACTIVE", "UNDER_REVIEW", "HIDDEN", "MERGED"}

VARIABLES
    entry,          \* moderationStatus, origin and mergedIntoId of each entry
    standing,       \* weight, confirmationCount and flagCount of each product
    branch,         \* publishedAt and pricedProductCount, flagCount of the shop
    vouched,        \* product_confirmations
    flagged,        \* content_flags
    priced,         \* store_price_contributors at the shop
    caller,         \* requests, event handlers
    merges,         \* how often each product was merged into another
    muddled,        \* products of which two recounts overlapped or one was cut off
    delayed,        \* the shop was pulled or hidden, or a count of it was cut off
    requests, deaths

communityVars == <<entry, standing, branch, vouched, flagged, priced, caller,
                   merges, muddled, delayed, requests, deaths>>

Free == [pc |-> "idle", op |-> "none", target |-> Nobody, seen |-> {}, counts |-> <<>>,
         public |-> FALSE]

CommunityTypeOK ==
    /\ entry \in [Entries -> [status : Statuses, verified : BOOLEAN, into : Products \cup {Nobody}]]
    /\ standing \in [Products -> [weight : Nat, confirmations : Nat, flags : Nat]]
    /\ branch \in [public : BOOLEAN, counted : 0 .. Cardinality(Products), flags : Nat]
    /\ vouched \subseteq Products \X (Shoppers \ {Creator})
    /\ flagged \subseteq Entries \X (Shoppers \ {Creator})
    /\ priced \subseteq Products \X Shoppers
    /\ \A c \in Callers :
         /\ caller[c].pc \in {"idle", "flaggers", "shop flags", "read", "save", "hide",
                              "shop", "counts", "progress"}
         /\ caller[c].target \in Entries \cup {Nobody}
    /\ merges \in [Products -> Nat]
    /\ muddled \subseteq Products /\ delayed \in BOOLEAN
    /\ requests \in 0 .. MaxRequests /\ deaths \in 0 .. MaxDeaths

CommunityInit ==
    /\ entry = [e \in Entries |-> [status |-> "ACTIVE", verified |-> FALSE, into |-> Nobody]]
    /\ standing = [p \in Products |-> [weight |-> 0, confirmations |-> 0, flags |-> 0]]
    /\ branch = [public |-> FALSE, counted |-> 0, flags |-> 0]
    /\ vouched = {} /\ flagged = {} /\ priced = {}
    /\ caller = [c \in Callers |-> Free]
    /\ merges = [p \in Products |-> 0]
    /\ muddled = {} /\ delayed = FALSE
    /\ requests = MaxRequests /\ deaths = MaxDeaths

said == <<vouched, flagged, priced>>
records == <<entry, standing, branch>>
ghosts == <<merges, muddled, delayed>>

Lesser(a, b) == IF a < b THEN a ELSE b

\* A weight that flags take below nothing.
RankingWeightUnbounded(verified, confirming, pricing, flagging) ==
    (IF verified THEN 150 ELSE 0) + 3 * Lesser(confirming, SignalCap)
        + 2 * Lesser(pricing, SignalCap) - 5 * flagging

\* A product touched today does not slide.
RankingWeight(verified, confirming, pricing, flagging) ==
    LET raw == (IF verified THEN 150 ELSE 0) + 3 * Lesser(confirming, SignalCap)
               + 2 * Lesser(pricing, SignalCap) - 5 * flagging IN
    IF raw < 0 THEN 0 ELSE raw

Flaggers(e) == {u \in Shoppers : <<e, u>> \in flagged}

\* What productSignals counts: the creator's own word adds nothing.
Recount(p) ==
    LET confirming == Cardinality({u \in Shoppers \ {Creator} : <<p, u>> \in vouched})
        pricing == Cardinality({u \in Shoppers \ {Creator} : <<p, u>> \in priced}) IN
    [weight |-> RankingWeight(entry[p].verified, confirming, pricing, Cardinality(Flaggers(p))),
     confirmations |-> confirming, flags |-> Cardinality(Flaggers(p))]

PricedProducts == {p \in Products : \E u \in Shoppers : <<p, u>> \in priced}

\* Together, the trusted among them take an entry out of search.
ShouldHide(flaggers) == Cardinality(flaggers \ Newcomers) >= HideThreshold

Asked(c, op, target, pc) ==
    /\ requests > 0 /\ requests' = requests - 1
    /\ caller[c].pc = "idle"
    /\ caller' = [caller EXCEPT ![c] = [Free EXCEPT !.pc = pc, !.op = op, !.target = target]]
    /\ UNCHANGED deaths

Goes(c, pc) == caller' = [caller EXCEPT ![c].pc = pc] /\ UNCHANGED <<requests, deaths>>
Returns(c) == caller' = [caller EXCEPT ![c] = Free] /\ UNCHANGED <<requests, deaths>>

-----------------------------------------------------------------------------
(***************************************************************************)
(* Requests of shoppers.                                                   *)
(***************************************************************************)
\* FlagContentUseCase up to its row; who flagged already changes nothing.
Flag(c, u, e) ==
    /\ u # Creator /\ <<e, u>> \notin flagged
    /\ Cardinality({x \in Entries : <<x, u>> \in flagged}) < DailyFlagLimit
    /\ flagged' = flagged \cup {<<e, u>>}
    /\ Asked(c, "flag", e, "flaggers")
    /\ UNCHANGED <<records, vouched, priced, ghosts>>

ReadFlaggers(c) ==
    /\ caller[c].pc = "flaggers"
    /\ LET e == caller[c].target IN
         caller' = [caller EXCEPT ![c].pc = IF e = Shop THEN "shop flags" ELSE "read",
                                  ![c].seen = Flaggers(e)]
    /\ UNCHANGED <<records, said, ghosts, requests, deaths>>

SetStoreFlagCount(c) ==
    /\ caller[c].pc = "shop flags"
    /\ branch' = [branch EXCEPT !.flags = Cardinality(caller[c].seen)]
    /\ Goes(c, "hide")
    /\ UNCHANGED <<entry, standing, said, ghosts>>

\* Enough trusted people agree: whatever the entry's status, it is pulled.
PullByFlags(c) ==
    /\ caller[c].pc = "hide"
    /\ IF ShouldHide(caller[c].seen)
       THEN /\ entry' = [entry EXCEPT ![caller[c].target].status = "UNDER_REVIEW"]
            /\ delayed' = (delayed \/ caller[c].target = Shop)
       ELSE UNCHANGED <<entry, delayed>>
    /\ Returns(c)
    /\ UNCHANGED <<standing, branch, said, merges, muddled>>

Confirm(c, u, p) ==
    /\ u # Creator /\ <<p, u>> \notin vouched
    /\ vouched' = vouched \cup {<<p, u>>}
    /\ Asked(c, "confirm", p, "read")
    /\ UNCHANGED <<records, flagged, priced, ghosts>>

\* A confirmation taken back without a recount.
WithdrawQuietly(c, u, p) ==
    /\ <<p, u>> \in vouched
    /\ vouched' = vouched \ {<<p, u>>}
    /\ Asked(c, "confirm", p, "idle")
    /\ UNCHANGED <<records, flagged, priced, ghosts>>

Withdraw(c, u, p) ==
    /\ <<p, u>> \in vouched
    /\ vouched' = vouched \ {<<p, u>>}
    /\ Asked(c, "confirm", p, "read")
    /\ UNCHANGED <<records, flagged, priced, ghosts>>

-----------------------------------------------------------------------------
(***************************************************************************)
(* ProductStanding.refresh, and PriceAcceptedListener.                     *)
(***************************************************************************)
Recounting(c, p) == caller[c].pc = "save" /\ caller[c].target = p

ReadSignals(c) ==
    /\ caller[c].pc = "read"
    /\ LET p == caller[c].target IN
         /\ caller' = [caller EXCEPT ![c].pc = "save", ![c].counts = Recount(p)]
         /\ muddled' = IF \E d \in Callers : Recounting(d, p) THEN muddled \cup {p} ELSE muddled
    /\ UNCHANGED <<records, said, merges, delayed, requests, deaths>>

\* A recount that changes nothing is where a price ends: the shop is not counted.
SaveOnlyWhatChanged(c) ==
    /\ caller[c].pc = "save"
    /\ standing' = [standing EXCEPT ![caller[c].target] = caller[c].counts]
    /\ CASE caller[c].op = "flag" -> Goes(c, "hide")
         [] caller[c].op = "price" /\ caller[c].counts # standing[caller[c].target] -> Goes(c, "shop")
         [] OTHER -> Returns(c)
    /\ UNCHANGED <<entry, branch, said, ghosts>>

SaveProductStanding(c) ==
    /\ caller[c].pc = "save"
    /\ standing' = [standing EXCEPT ![caller[c].target] = caller[c].counts]
    /\ CASE caller[c].op = "flag" -> Goes(c, "hide")
         [] caller[c].op = "price" -> Goes(c, "shop")
         [] OTHER -> Returns(c)
    /\ UNCHANGED <<entry, branch, said, ghosts>>

\* An accepted price of a person: the same one here again is not counted.
RecordContribution(c, u, p) ==
    /\ <<p, u>> \notin priced
    /\ priced' = priced \cup {<<p, u>>}
    /\ Asked(c, "price", p, "read")
    /\ UNCHANGED <<records, vouched, flagged, ghosts>>

\* storeStanding: whether the shop may go public at all.
ReadShop(c) ==
    /\ caller[c].pc = "shop"
    /\ caller' = [caller EXCEPT ![c].pc = "counts",
                                ![c].public = ~branch.public /\ entry[Shop].status = "ACTIVE"]
    /\ UNCHANGED <<records, said, ghosts, requests, deaths>>

CountStore(c) ==
    /\ caller[c].pc = "counts"
    /\ caller' = [caller EXCEPT ![c].pc = "progress", ![c].seen = PricedProducts,
                                ![c].public = @ /\ Cardinality(PricedProducts) >= Needed]
    /\ UNCHANGED <<records, said, ghosts, requests, deaths>>

SaveStoreProgress(c) ==
    /\ caller[c].pc = "progress"
    /\ branch' = [branch EXCEPT !.counted = Cardinality(caller[c].seen),
                            !.public = @ \/ caller[c].public]
    /\ Returns(c)
    /\ UNCHANGED <<entry, standing, said, ghosts>>

-----------------------------------------------------------------------------
(***************************************************************************)
(* The team: ModerateUseCase.                                              *)
(***************************************************************************)
Moderate(c, e, action) ==
    /\ entry' = [entry EXCEPT ![e].status = IF action = "hide" THEN "HIDDEN" ELSE "ACTIVE",
                              ![e].verified = @ \/ action = "verify"]
    /\ branch' = [branch EXCEPT !.public = @ \/ (e = Shop /\ action = "verify")]
    /\ delayed' = (delayed \/ (e = Shop /\ action = "hide"))
    /\ Asked(c, "moderate", e, IF e = Shop THEN "idle" ELSE "read")
    /\ UNCHANGED <<standing, said, merges, muddled>>

\* The rows of one product under the other's name: one word per person.
Moved(rows, from, into) ==
    {IF row[1] = from THEN <<into, row[2]>> ELSE row : row \in rows}

\* One transaction; the rest of the merge is the recount and the event.
Merge(c, from, into) ==
    /\ from # into
    /\ entry[from].status # "MERGED"
    /\ entry[into].status = "ACTIVE" /\ entry[into].into = Nobody
    /\ entry' = [entry EXCEPT ![from].status = "MERGED", ![from].into = into]
    /\ vouched' = Moved(vouched, from, into)
    /\ flagged' = Moved(flagged, from, into)
    /\ priced' = Moved(priced, from, into)
    /\ merges' = [merges EXCEPT ![from] = @ + 1]
    /\ Asked(c, "merge", into, "read")
    /\ UNCHANGED <<standing, branch, muddled, delayed>>

-----------------------------------------------------------------------------
\* An execution is cut off: an event handler's failure is logged and forgotten.
CallerDies(c) ==
    /\ deaths > 0 /\ deaths' = deaths - 1
    /\ caller[c].pc # "idle"
    /\ caller' = [caller EXCEPT ![c] = Free]
    /\ muddled' = muddled \cup (Products \cap {caller[c].target})
    /\ delayed' = (delayed \/ caller[c].op = "price")
    /\ UNCHANGED <<records, said, merges, requests>>

CallerStep(c) ==
    \/ ReadFlaggers(c) \/ SetStoreFlagCount(c) \/ PullByFlags(c)
    \/ ReadSignals(c) \/ SaveProductStanding(c)
    \/ ReadShop(c) \/ CountStore(c) \/ SaveStoreProgress(c)

CommunityNext ==
    \E c \in Callers :
        \/ CallerStep(c) \/ CallerDies(c)
        \/ \E u \in Shoppers, e \in Entries : Flag(c, u, e)
        \/ \E u \in Shoppers, p \in Products :
             Confirm(c, u, p) \/ Withdraw(c, u, p) \/ RecordContribution(c, u, p)
        \/ \E e \in Entries, action \in {"verify", "hide", "restore"} : Moderate(c, e, action)
        \/ \E from, into \in Products : Merge(c, from, into)

CommunitySpec == CommunityInit /\ [][CommunityNext]_communityVars

-----------------------------------------------------------------------------
(***************************************************************************)
(* Properties.                                                             *)
(***************************************************************************)
\* Once every request is through, a product stands where what people said of
\* it puts it, whatever was confirmed, taken back, flagged, priced, verified
\* or merged in between, unless two recounts overlapped or one was cut off.
StandingIsTrue ==
    \A p \in Products \ muddled :
        \/ merges[p] > 0
        \/ \E c \in Callers : caller[c].target = p /\ caller[c].pc \in {"flaggers", "read", "save"}
        \/ standing[p] = Recount(p)

\* "A shop a shopper added goes public the moment its tenth product is
\* priced": of handlers counting beside one another, one sees them all, unless
\* the shop was pulled or hidden or a handler was cut off.
TenthPricePublishes ==
    \/ delayed \/ branch.public
    \/ \E c \in Callers : caller[c].op = "price"
    \/ Cardinality(PricedProducts) < Needed
=============================================================================
