--------------------------------- MODULE Shops ---------------------------------
(***************************************************************************)
(* The chains and their branches along a street: shops added by shoppers   *)
(* and by the team, beside one another, and the chains they name.  A       *)
(* request that is cut off is one that takes no further step.              *)
(***************************************************************************)
EXTENDS Integers, FiniteSets

CONSTANTS
    Branches,       \* shops; those that are no request's were there before
    Openings,       \* requests, each with the id its shop gets
    Founders,       \* shoppers who add shops
    Curators,       \* moderators and admins, as the creator of what they add
    Chains,         \* names of chains
    Spots,          \* points of the street
    SameStore,      \* SAME_STORE_METRES
    CarefulStores,  \* dailyCreationLimit for a shop, of who is not trusted
    StoreLimit,     \* and of who is
    MaxVerdicts     \* bound on what moderators and flags do to shops

ASSUME ShopsAssumption ==
    /\ Openings \subseteq Branches /\ IsFiniteSet(Branches)
    /\ Curators \notin Founders
    /\ Spots \subseteq Int /\ SameStore \in Nat
    /\ CarefulStores \in Nat \ {0} /\ StoreLimit \in Nat /\ CarefulStores <= StoreLimit
    /\ MaxVerdicts \in Nat

VARIABLES
    store,          \* for each shop, its row in store_locations
    chains,         \* chains with a row in supermarkets
    opening,        \* requests that add a shop or a chain
    tolerated,      \* pairs of shops that may be one
    hurried,        \* shoppers who added several shops at once
    verdicts        \* moderation left

shopVars == <<store, chains, opening, tolerated, hurried, verdicts>>

StoreRow == [by : Founders \cup {Curators}, chain : Chains, spot : Spots,
             status : {"ACTIVE", "UNDER_REVIEW", "HIDDEN"}]
NoStore == [status |-> "NONE"]
Closed == [pc |-> "new"]
Finished == [pc |-> "done"]

ShopsTypeOK ==
    /\ \A b \in Branches : store[b] \in StoreRow \cup {NoStore}
    /\ chains \subseteq Chains
    /\ \A o \in Openings : opening[o].pc \in {"new", "limit", "chain", "list", "twin", "row", "slug", "found", "done"}
    /\ tolerated \subseteq Branches \X Branches
    /\ hurried \subseteq Founders
    /\ verdicts \in 0 .. MaxVerdicts

ShopsInit ==
    /\ \E made \in [Branches \ Openings -> [by : Founders \cup {Curators}, chain : Chains,
                                            spot : Spots, status : {"ACTIVE"}]] :
         /\ store = [b \in Branches |-> IF b \in Openings THEN NoStore ELSE made[b]]
         /\ chains = {made[b].chain : b \in Branches \ Openings}
    /\ \A u \in Founders : Cardinality({b \in Branches \ Openings : store[b].by = u}) <= StoreLimit
    /\ opening = [o \in Openings |-> Closed]
    /\ tolerated = (Branches \ Openings) \X (Branches \ Openings)
    /\ hurried = {}
    /\ verdicts = MaxVerdicts

CreateStoreRequest == [by : Founders \cup {Curators}, chain : Chains, byName : BOOLEAN, spot : Spots]

Opened == {b \in Branches : store[b].status # "NONE"}
\* What storesWithin finds: hidden shops are not there, those under review are.
Standing(b) == store[b].status \in {"ACTIVE", "UNDER_REVIEW"}

OpenedBy(u) == {b \in Opened : store[b].by = u}
\* Removed shops cost trust; whether too much of it depends on the account.
StoreLimits(u) == IF \A b \in OpenedBy(u) : store[b].status = "ACTIVE"
                  THEN {StoreLimit} ELSE {CarefulStores, StoreLimit}

Metres(x, y) == IF x > y THEN x - y ELSE y - x
InBox(x, y) == Metres(x, y) <= 2 * SameStore
LooksLikeSameStore(a, b) == a.chain = b.chain /\ Metres(a.spot, b.spot) <= SameStore

Comes(o, pc) == opening' = [opening EXCEPT ![o].pc = pc]
Sent(o) == opening' = [opening EXCEPT ![o] = Finished]
Looks == UNCHANGED <<store, chains, tolerated, verdicts>>

-----------------------------------------------------------------------------
(***************************************************************************)
(* CreateStoreUseCase.createStore.                                         *)
(***************************************************************************)
\* Only a shopper may name a chain that is not listed.
AskForShop(o, body) ==
    /\ opening[o].pc = "new"
    /\ body.byName => body.by # Curators
    /\ opening' = [opening EXCEPT ![o] =
         [pc |-> IF body.by = Curators THEN "chain" ELSE "limit", by |-> body.by,
          chain |-> body.chain, byName |-> body.byName, spot |-> body.spot, missed |-> {}]]
    /\ UNCHANGED hurried /\ Looks

Hurrying(o) == {p \in Openings \ {o} : /\ opening[p].pc \in {"chain", "list", "twin", "row"}
                                       /\ opening[p].by = opening[o].by}

CheckShopAllowance(o) ==
    /\ opening[o].pc = "limit"
    /\ LET u == opening[o].by IN
         /\ \E limit \in StoreLimits(u) :
              IF Cardinality(OpenedBy(u)) >= limit THEN Sent(o) ELSE Comes(o, "chain")
         /\ hurried' = IF Hurrying(o) # {} THEN hurried \cup {u} ELSE hurried
    /\ Looks

\* chainFor: the team's shops are not compared with the others.
ReadChain(o) ==
    /\ opening[o].pc = "chain"
    /\ LET a == opening[o] IN
       IF a.chain \in chains THEN Comes(o, IF a.by = Curators THEN "row" ELSE "twin")
       ELSE IF a.byName THEN Comes(o, "list") ELSE Sent(o)
    /\ UNCHANGED hurried /\ Looks

\* The slug is unique: of two who name the same new chain, one is refused.
CreateChain(o) ==
    /\ opening[o].pc = "list"
    /\ chains' = chains \cup {opening[o].chain}
    /\ IF opening[o].chain \in chains THEN Sent(o) ELSE Comes(o, "twin")
    /\ UNCHANGED <<store, tolerated, hurried, verdicts>>

\* A shop of another shopper that is not public yet is not compared.
CheckShopTwinBlind(o) ==
    /\ opening[o].pc = "twin"
    /\ LET a == opening[o] IN
       IF \E b \in Opened : /\ Standing(b) /\ InBox(a.spot, store[b].spot)
                            /\ store[b].by \in {a.by, Curators}
                            /\ LooksLikeSameStore(a, store[b])
       THEN Sent(o) ELSE Comes(o, "row")
    /\ UNCHANGED hurried /\ Looks

CheckShopTwin(o) ==
    /\ opening[o].pc = "twin"
    /\ LET a == opening[o] IN
       IF \E b \in Opened : /\ Standing(b) /\ InBox(a.spot, store[b].spot)
                            /\ LooksLikeSameStore(a, store[b])
       THEN Sent(o) ELSE Comes(o, "row")
    /\ UNCHANGED hurried /\ Looks

\* Whoever has looked for twins already does not see this shop.
CreateStore(o) ==
    /\ opening[o].pc = "row"
    /\ LET a == opening[o] IN
         /\ store' = [store EXCEPT ![o] = [by |-> a.by, chain |-> a.chain, spot |-> a.spot,
                                           status |-> "ACTIVE"]]
         /\ tolerated' = tolerated \cup ({o} \X IF a.by = Curators THEN Opened ELSE a.missed)
    /\ opening' = [p \in Openings |->
         IF p = o THEN Finished
         ELSE IF opening[p].pc = "row" THEN [opening[p] EXCEPT !.missed = @ \cup {o}]
         ELSE opening[p]]
    /\ UNCHANGED <<chains, hurried, verdicts>>

-----------------------------------------------------------------------------
(***************************************************************************)
(* createSupermarket, by the team, and what becomes of a shop.             *)
(***************************************************************************)
AskForChain(o, chain) ==
    /\ opening[o].pc = "new"
    /\ opening' = [opening EXCEPT ![o] = [pc |-> "slug", chain |-> chain]]
    /\ UNCHANGED hurried /\ Looks

FindSlug(o) ==
    /\ opening[o].pc = "slug"
    /\ IF opening[o].chain \in chains THEN Sent(o) ELSE Comes(o, "found")
    /\ UNCHANGED hurried /\ Looks

CreateSupermarket(o) ==
    /\ opening[o].pc = "found"
    /\ chains' = chains \cup {opening[o].chain}
    /\ Sent(o)
    /\ UNCHANGED <<store, tolerated, hurried, verdicts>>

\* Hidden, put back, or pulled by flags.
JudgeShop(b, status) ==
    /\ verdicts > 0 /\ verdicts' = verdicts - 1
    /\ b \in Opened /\ store[b].status # status
    /\ store' = [store EXCEPT ![b].status = status]
    /\ tolerated' = tolerated \cup ({b} \X Branches)
    /\ UNCHANGED <<chains, opening, hurried>>

-----------------------------------------------------------------------------
OpeningStep(o) ==
    \/ CheckShopAllowance(o) \/ ReadChain(o) \/ CreateChain(o) \/ CheckShopTwin(o)
    \/ CreateStore(o) \/ FindSlug(o) \/ CreateSupermarket(o)

ShopsNext ==
    \/ \E o \in Openings :
         \/ OpeningStep(o)
         \/ \E body \in CreateStoreRequest : AskForShop(o, body)
         \/ \E chain \in Chains : AskForChain(o, chain)
    \/ \E b \in Branches, status \in {"ACTIVE", "UNDER_REVIEW", "HIDDEN"} : JudgeShop(b, status)

ShopsSpec == ShopsInit /\ [][ShopsNext]_shopVars

-----------------------------------------------------------------------------
(***************************************************************************)
(* Properties.                                                             *)
(***************************************************************************)
\* Two shops of one chain within a few metres of each other: one was added
\* while the other was on its way, by the team, or was hidden and put back.
ShopTwinsWereRaced ==
    \A a, b \in Opened :
        a # b /\ Standing(a) /\ Standing(b) /\ LooksLikeSameStore(store[a], store[b])
        => tolerated \cap {<<a, b>>, <<b, a>>} # {}

\* Nobody adds more shops in a day than they may, one after the other.
ShopLimitWasRaced ==
    \A u \in Founders \ hurried : Cardinality(OpenedBy(u)) <= StoreLimit
=============================================================================
