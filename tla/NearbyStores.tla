----------------------------- MODULE NearbyStores -----------------------------
(***************************************************************************)
(* What a shopper asks about the shops around a point: which there are,    *)
(* nearest first, which of them are open now, and what fell in price there.*)
(*                                                                         *)
(* Shops lie on a plane around the point.  A coordinate is an arc, the     *)
(* same length north and east; the box and the distance measure it apart.  *)
(***************************************************************************)
EXTENDS Integers, FiniteSets, FiniteSetsExt, Sequences

CONSTANTS
    Places,             \* shops
    Offers,             \* products
    OverFetch,          \* rows read for each shop asked for
    NearbyCandidates,   \* NEARBY_CANDIDATES
    DropCandidates,     \* DROP_CANDIDATES
    DropWindow,         \* PRICE_DROP_WINDOW_DAYS, in minutes
    MinDropPercent,     \* MIN_DROP_PERCENT
    MinutesPerDay,
    DaysPerWeek

BoxArc == 11132         \* KM_PER_DEGREE_LATITUDE
SphereArc == 11119      \* EARTH_RADIUS_KM over a radian

Malformed == -1         \* no wall clock shows it
OpeningHours == [day : 0 .. DaysPerWeek - 1,
                 opens : {Malformed} \cup 0 .. MinutesPerDay - 1,
                 closes : {Malformed} \cup 0 .. MinutesPerDay - 1]

StoreLocation ==
    [spot : Int \X Int, chain : {"near", "far"}, mine : BOOLEAN, published : BOOLEAN, active : BOOLEAN,
     status : {"ACTIVE", "UNDER_REVIEW", "HIDDEN"}, hours : SUBSET OpeningHours, zone : Int]

\* A fall keeps the price it fell from, and its percentage of that is rounded down.
PriceDrop == [percent : Nat, at : Int]

NearbyStoresQueryDto == [asks : {"stores"}, radius : Nat \ {0}, limit : Nat \ {0},
                         chain : {"any", "near", "far"}, now : Int]
NearbyPriceDropsQueryDto == [asks : {"falls"}, radius : Nat \ {0}, limit : Nat \ {0}, now : Int]

ASSUME NearbyAssumption ==
    /\ {OverFetch, NearbyCandidates, DropCandidates, MinutesPerDay, DaysPerWeek} \subseteq Nat \ {0}
    /\ {DropWindow, MinDropPercent} \subseteq Nat
    /\ IsFiniteSet(Places) /\ IsFiniteSet(Offers)

VARIABLES
    place,      \* for each shop, its row in store_locations and its hours
    fall,       \* price_drops: of products at shops
    retired,    \* products that are not active
    visit,      \* what is asked
    page        \* what is answered

nearbyVars == <<place, fall, retired, visit, page>>

NoPage == [ready |-> FALSE]

NearbyInit ==
    /\ place \in [Places -> StoreLocation]
    /\ \E there \in SUBSET (Offers \X Places) : fall \in [there -> PriceDrop]
    /\ retired \in SUBSET Offers
    /\ visit \in NearbyStoresQueryDto \cup NearbyPriceDropsQueryDto
    /\ page = NoPage

-----------------------------------------------------------------------------
(***************************************************************************)
(* opening-hours.ts.                                                       *)
(***************************************************************************)
WallClock(at, zone) ==
    LET minute == (at + zone) % (DaysPerWeek * MinutesPerDay) IN
    [day |-> minute \div MinutesPerDay, minutes |-> minute % MinutesPerDay]

\* The small hours looked up under their own weekday.
OpenInOneDay(i, clock) ==
    /\ i.opens # Malformed /\ i.closes # Malformed /\ i.day = clock.day
    /\ IF i.closes > i.opens THEN clock.minutes >= i.opens /\ clock.minutes < i.closes
       ELSE clock.minutes >= i.opens \/ clock.minutes < i.closes

\* An interval that does not end after its start runs past midnight.
OpenIn(i, clock) ==
    /\ i.opens # Malformed /\ i.closes # Malformed
    /\ IF i.closes > i.opens
       THEN i.day = clock.day /\ clock.minutes >= i.opens /\ clock.minutes < i.closes
       ELSE \/ i.day = clock.day /\ clock.minutes >= i.opens
            \/ i.day = (clock.day + DaysPerWeek - 1) % DaysPerWeek /\ clock.minutes < i.closes

IsOpenAt(hours, at, zone) == \E i \in hours : OpenIn(i, WallClock(at, zone))

-----------------------------------------------------------------------------
(***************************************************************************)
(* geo.ts and findWithinBox.                                               *)
(***************************************************************************)
Abs(n) == IF n < 0 THEN -n ELSE n
Squared(spot) == spot[1] * spot[1] + spot[2] * spot[2]
\* Of two places, how far each is: one arc is as long as another.
Far(p) == Squared(place[p].spot)

InsideBox(spot, radius) == \A i \in {1, 2} : Abs(spot[i]) * BoxArc <= radius
WithinRadius(spot, radius) == Squared(spot) * SphereArc * SphereArc <= radius * radius

IsPublic(row) == row.published /\ row.status = "ACTIVE"

\* Shown to everyone, or the viewer's own and not hidden.
VisibleTo(row, viewer) ==
    /\ row.active
    /\ IsPublic(row) \/ (viewer /\ row.mine /\ row.status \in {"ACTIVE", "UNDER_REVIEW"})

InBoxOf(v, viewer) ==
    {p \in Places : VisibleTo(place[p], viewer) /\ InsideBox(place[p].spot, v.radius)}

\* Any n rows of the box: the query names no order.
FindWithinBox(v, viewer, n) ==
    LET rows == InBoxOf(v, viewer) IN
    IF Cardinality(rows) <= n THEN {rows} ELSE kSubset(n, rows)

\* The sets in every order that puts what is Before the other first.
Sorted(S, Before(_, _)) ==
    {seq \in [1 .. Cardinality(S) -> S] :
        \A i, j \in DOMAIN seq : i < j => seq[i] # seq[j] /\ ~Before(seq[j], seq[i])}

Slice(seq, limit) == SubSeq(seq, 1, Min({limit, Len(seq)}))

-----------------------------------------------------------------------------
(***************************************************************************)
(* FindNearbyStoresUseCase.                                                *)
(***************************************************************************)
OfChain(p, v) == v.chain \in {"any", place[p].chain}
Kept(rows, v) == {p \in rows : OfChain(p, v) /\ WithinRadius(place[p].spot, v.radius)}
NearerPlace(p, q) == Far(p) < Far(q)

FindNearby ==
    /\ visit.asks = "stores" /\ ~page.ready
    /\ \E rows \in FindWithinBox(visit, TRUE, visit.limit * OverFetch) :
       \E seq \in Sorted(Kept(rows, visit), NearerPlace) :
         page' = [ready |-> TRUE,
                  places |-> Slice(seq, visit.limit),
                  open |-> {p \in rows : IsOpenAt(place[p].hours, visit.now, place[p].zone)}]
    /\ UNCHANGED <<place, fall, retired, visit>>

-----------------------------------------------------------------------------
(***************************************************************************)
(* FindNearbyPriceDropsUseCase.                                            *)
(***************************************************************************)
NewerFall(f, g) == fall[f].at > fall[g].at

\* Newest first, as many as DROP_CANDIDATES.
FindRecentAtStores(stores, now) ==
    LET recent == {f \in DOMAIN fall : f[2] \in stores /\ fall[f].at >= now - DropWindow} IN
    {Slice(seq, DropCandidates) : seq \in Sorted(recent, NewerFall)}

\* Of a product, the first to be read of its biggest falls.
BiggestFalls(read) ==
    {read[i] : i \in {i \in DOMAIN read :
        /\ fall[read[i]].percent >= MinDropPercent
        /\ \A j \in DOMAIN read : read[j][1] = read[i][1] =>
             \/ fall[read[j]].percent < fall[read[i]].percent
             \/ fall[read[j]].percent = fall[read[i]].percent /\ i <= j}}

BiggerFall(f, g) ==
    \/ fall[f].percent > fall[g].percent
    \/ fall[f].percent = fall[g].percent /\ NewerFall(f, g)

FindNearbyPriceDrops ==
    /\ visit.asks = "falls" /\ ~page.ready
    /\ \E rows \in FindWithinBox(visit, FALSE, NearbyCandidates) :
       \E read \in FindRecentAtStores({p \in rows : WithinRadius(place[p].spot, visit.radius)}, visit.now) :
       \E seq \in Sorted({f \in BiggestFalls(read) : f[1] \notin retired}, BiggerFall) :
         page' = [ready |-> TRUE, falls |-> Slice(seq, visit.limit)]
    /\ UNCHANGED <<place, fall, retired, visit>>

NearbyNext == FindNearby \/ FindNearbyPriceDrops

NearbySpec == NearbyInit /\ [][NearbyNext]_nearbyVars

-----------------------------------------------------------------------------
(***************************************************************************)
(* Properties.                                                             *)
(***************************************************************************)
\* An interval is so many minutes of the week from its start, midnight and the
\* end of the week included.
InsideInterval(i, at, zone) ==
    LET since == (at + zone - (i.day * MinutesPerDay + i.opens)) % (DaysPerWeek * MinutesPerDay) IN
    since < i.closes - i.opens + (IF i.closes > i.opens THEN 0 ELSE MinutesPerDay)

OpenWhenTheClockSays ==
    \A i \in DOMAIN page.places :
        LET row == place[page.places[i]] IN
        page.places[i] \in page.open <=>
            \E h \in row.hours : /\ Malformed \notin {h.opens, h.closes}
                                 /\ InsideInterval(h, visit.now, row.zone)

\* The box is measured by a longer arc than the distance, so it ends a little
\* before the circle does: a shop in the last five hundredth may be missed.
InReach(viewer, radius) ==
    {p \in Places : VisibleTo(place[p], viewer) /\ WithinRadius(place[p].spot, radius)}
Surely(radius) == radius - radius \div 500

\* Nothing the visitor may not see, nothing too far, and unless the database
\* holds more than is read, none nearer is left out.
NearestFirst ==
    LET eligible == {p \in InReach(TRUE, visit.radius) : OfChain(p, visit)}
        shown == {page.places[i] : i \in DOMAIN page.places} IN
    /\ shown \subseteq eligible
    /\ \A i, j \in DOMAIN page.places :
         i < j => page.places[i] # page.places[j] /\ Far(page.places[i]) <= Far(page.places[j])
    /\ Cardinality(InBoxOf(visit, TRUE)) <= visit.limit * OverFetch =>
         \A p \in (eligible \cap InReach(TRUE, Surely(visit.radius))) \ shown :
             Len(page.places) = visit.limit /\ \A q \in shown : Far(q) <= Far(p)

FallenLately(radius) ==
    {f \in DOMAIN fall : f[2] \in InReach(FALSE, radius) /\ fall[f].at >= visit.now - DropWindow}
BargainsWithin(radius) ==
    {f \in FallenLately(radius) : fall[f].percent >= MinDropPercent /\ f[1] \notin retired}

\* One fall for each product, and unless the database holds more than is read,
\* the biggest at a public shop in reach, whatever else fell less or earlier.
BiggestFirst ==
    LET shown == {page.falls[i] : i \in DOMAIN page.falls} IN
    /\ shown \subseteq BargainsWithin(visit.radius)
    /\ Cardinality({f[1] : f \in shown}) = Len(page.falls)
    /\ (/\ Cardinality(InBoxOf(visit, FALSE)) <= NearbyCandidates
        /\ Cardinality(FallenLately(visit.radius)) <= DropCandidates) =>
         \A f \in BargainsWithin(Surely(visit.radius)) \ shown :
            \/ \E g \in shown : g[1] = f[1] /\ fall[g].percent >= fall[f].percent
            \/ /\ Len(page.falls) = visit.limit
               /\ \A g \in shown : fall[g].percent >= fall[f].percent

\* What is answered of the shops around is so: visible, in reach, in order and
\* complete as far as the rows read go, open by the clock of the place, and of
\* each product its biggest fall.
NearbyIsTrue ==
    page.ready =>
        /\ visit.asks = "stores" => NearestFirst /\ OpenWhenTheClockSays
        /\ visit.asks = "falls" => BiggestFirst
=============================================================================
