------------------------------ MODULE MCCatalog ------------------------------
(***************************************************************************)
(* The shared catalog and what is read from it: additions and corrections  *)
(* of products and shops, the community that vouches for them, the shops   *)
(* around a point, the history of a price, a list and the totals of a      *)
(* trip; accounts and their settings, the tree of categories, the facts of *)
(* a barcode and a supermarket's feed.  The modules share no state; focus  *)
(* says which of them moves.                                               *)
(***************************************************************************)
EXTENDS Community, Catalog, Shops, ShoppingList, MCNearbyStores, PriceHistory, Totals,
        Accounts, Settings, CategoryTree, ProductFacts, SourceFeed

CONSTANTS q1, q2, x, y, p1, p2,     \* two of whatever a module has two of
          ana, old, c1, b1

VARIABLE focus

catalogParts == <<communityVars, catalogVars, shopVars, listVars, nearbyVars, historyVars, totalsVars>>
otherParts == <<accountVars, settingsVars, treeVars, factsVars, feedVars>>
parts == <<catalogParts, otherParts>>

Symmetry == Permutations({q1, q2}) \cup Permutations({x, y}) \cup Permutations({p1, p2})

\* Rows of a history: the first store saw more than the second.
RowsOf(o) ==
    {r \in [currency : Monies, average : IF o = s1 THEN {10, 25} ELSE {25}, min : {9, 24}, max : {11, 26},
            count : {IF o = s1 THEN 3 ELSE 1}, anomalous : BOOLEAN] :
        r.min = r.average - 1 /\ r.max = r.average + 1}

\* A day that is in the range, one that is today and one that is too long ago,
\* of which any row will do.
Histories ==
    /\ \E near, far \in SUBSET {1, 2}, long \in SUBSET {0} :
       \E f \in [near -> RowsOf(s1)], g \in [far -> RowsOf(s2)] :
         recorded = [c \in (near \X {s1}) \cup (far \X {s2}) \cup (long \X {s1}) |->
                        IF c \in near \X {s1} THEN f[c[1]]
                        ELSE IF c \in far \X {s2} THEN g[c[1]]
                        ELSE CHOOSE r \in RowsOf(s2) : ~r.anomalous]
    /\ asks \in [store : {Unnamed, s1}, currency : {Unnamed, 1}]
    /\ shown = NotShown

\* Contents of the taxonomy file: one that is refused, and one in which b1
\* takes over the products of two categories, and c1 is offered again under it.
Dairy == [slug |-> c1, parent |-> b1, replaces |-> {}]
Files == {<<Dairy>>, <<[slug |-> b1, parent |-> Top, replaces |-> {c1, old}], Dairy>>}

\* An item that is whole, and one that lacks a name and quotes a blank price.
Milk == [id |-> s1, name |-> c1, store |-> b1, currency |-> Absent,
         price |-> [kind |-> "NUMBER", thousandths |-> 12500]]
SomeItems == {Milk, [Milk EXCEPT !.name = Absent, !.price = [kind |-> "BLANK", thousandths |-> 0]]}

\* A feed that lacks something lacks it on its first page; where a page leads
\* matters if it has items.
Feeds ==
    /\ FeedInit
    /\ \A p \in Pages \ {FirstPage} :
         feed[p].items = {Milk} \/ feed[p] = [items |-> {}, next |-> NoNext]
    /\ reading.of = "prices" \/ feed[FirstPage].next = NoNext

\* Lists of halves that are not free: the trip may come to ask nothing for them,
\* and to take other quantities.
Lists == TotalsInit /\ \A i \in Lines : planned[i].quantity = 500 /\ planned[i].expected # 0

\* Trees that b1 and c1 may be in at first; old is never there.
Trees ==
    /\ TreeInit
    /\ category[old] = NoCategory /\ category[c1].state = "ACTIVE"
    /\ category[b1].state # "RETIRED" /\ filed = [g \in Goods |-> c1]

\* What is not looked at starts in one state only.
Init ==
    /\ focus \in {"community", "products", "shops", "lists", "nearby", "history", "totals",
                  "accounts", "settings", "tree", "facts", "feed"}
    /\ CommunityInit
    /\ CatalogInit /\ product[old] = Row([by |-> ana, brand |-> NoBrand, size |-> 1])
    /\ focus = "products" \/ carrier[c1] = Nowhere
    /\ ShopsInit /\ (focus = "shops" \/ store[old] = [by |-> Curators, chain |-> x, spot |-> 1, status |-> "ACTIVE"])
    /\ ListInit /\ (focus = "lists" \/ Items(list) = {})
    /\ IF focus = "nearby" THEN NearbyScenes
       ELSE place = NoFalls /\ fall = NoFalls /\ retired = {} /\ visit = NoPage /\ page = NoPage
    /\ IF focus = "history" THEN Histories
       ELSE recorded = [c \in {} |-> 0] /\ asks = NotShown /\ shown = NotShown
    /\ IF focus = "totals" THEN Lists
       ELSE planned = NoTrip /\ charged = NoTrip /\ bought = NoTrip /\ told = 0
    /\ AccountsInit /\ user[old].email = x
    /\ \A s \in Tickets : session[s].of = old
    /\ SettingsInit
    /\ IF focus = "tree" THEN Trees
       ELSE category = NoTrip /\ filed = NoTrip /\ sync = NoTrip /\ clerk = NoTrip /\ walk = NoTrip
            /\ meddled = FALSE /\ deploys = 0
    /\ FactsInit
    /\ IF focus = "feed" THEN Feeds ELSE feed = NoTrip /\ reading = NoTrip /\ published = 0

CatalogMoves ==
    \/ /\ focus = "community" /\ CommunityNext
       /\ UNCHANGED <<catalogVars, shopVars, nearbyVars, historyVars, totalsVars, listVars>>
    \/ /\ focus = "products" /\ CatalogNext
       /\ UNCHANGED <<communityVars, shopVars, nearbyVars, historyVars, totalsVars, listVars>>
    \/ /\ focus = "shops" /\ ShopsNext
       /\ UNCHANGED <<communityVars, catalogVars, nearbyVars, historyVars, totalsVars, listVars>>
    \/ /\ focus = "lists" /\ ListNext
       /\ UNCHANGED <<communityVars, catalogVars, shopVars, nearbyVars, historyVars, totalsVars>>
    \/ /\ focus = "nearby" /\ NearbyNext
       /\ UNCHANGED <<communityVars, catalogVars, shopVars, historyVars, totalsVars, listVars>>
    \/ /\ focus = "history" /\ GetPriceHistory
       /\ UNCHANGED <<communityVars, catalogVars, shopVars, nearbyVars, totalsVars, listVars>>
    \/ /\ focus = "totals" /\ TotalsNext
       /\ UNCHANGED <<communityVars, catalogVars, shopVars, nearbyVars, historyVars, listVars>>

OthersMove ==
    \/ /\ focus = "accounts" /\ AccountsNext
       /\ UNCHANGED <<settingsVars, treeVars, factsVars, feedVars>>
    \/ /\ focus = "settings" /\ SettingsNext
       /\ UNCHANGED <<accountVars, treeVars, factsVars, feedVars>>
    \/ /\ focus = "tree" /\ TreeNext
       /\ UNCHANGED <<accountVars, settingsVars, factsVars, feedVars>>
    \/ /\ focus = "facts" /\ FactsNext
       /\ UNCHANGED <<accountVars, settingsVars, treeVars, feedVars>>
    \/ /\ focus = "feed" /\ FeedNext
       /\ UNCHANGED <<accountVars, settingsVars, treeVars, factsVars>>

Next ==
    \/ CatalogMoves /\ UNCHANGED <<otherParts, focus>>
    \/ OthersMove /\ UNCHANGED <<catalogParts, focus>>

Spec == Init /\ [][Next]_<<parts, focus>>

\* The state of each part has its types.
TypeOK ==
    /\ focus = "community" => CommunityTypeOK
    /\ focus = "products" => CatalogTypeOK
    /\ focus = "shops" => ShopsTypeOK
    /\ focus = "lists" => ListTypeOK
    /\ focus = "accounts" => AccountsTypeOK
    /\ focus = "settings" => SettingsTypeOK
    /\ focus = "tree" => TreeTypeOK
    /\ focus = "facts" => FactsTypeOK
    /\ focus = "feed" => FeedTypeOK

\* Products and shops that look alike, more additions in a day than are allowed,
\* a token exchanged twice, a code used twice, half a place and stamps that do
\* not tell come of requests that overlap, and of nothing else.  No more turns
\* than the limit are taken of a source in a minute, and what is kept of a
\* scanned code is the last answer unless two asked at once or Redis failed.
OnlyRacesGetPast ==
    /\ focus = "products" => ProductTwinsWereRaced /\ ProductLimitWasRaced
    /\ focus = "shops" => ShopTwinsWereRaced /\ ShopLimitWasRaced
    /\ focus = "accounts" =>
         SessionsRestOnThePassword /\ TokensAreExchangedOnce /\ CodesAreLimited
    /\ focus = "settings" => PlaceIsWhole /\ StampsTellConsent
    /\ focus = "facts" => RateIsKept /\ LastAnswerIsKept

\* What is read and summed is so, at every moment.
AnswersAreTrue ==
    /\ focus = "nearby" => NearbyIsTrue
    /\ focus = "history" => HistoryIsTrue
    /\ focus = "totals" => FiguresAddUp
    /\ focus = "tree" => TreeHasNoCycles /\ FileIsApplied /\ SubtreeIsWhole
    /\ focus = "feed" => FeedIsRead
=============================================================================
