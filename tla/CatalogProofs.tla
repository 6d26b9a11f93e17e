----------------------------- MODULE CatalogProofs -----------------------------
(***************************************************************************)
(* Proofs about the shared catalog: the products shoppers and the team add *)
(* (Catalog), the shops (Shops), what is said of them (Community), the     *)
(* lists trips start from (ShoppingList), what is answered of the shops    *)
(* around a point (NearbyStores), the totals of a trip (Totals) and the    *)
(* history of a price (PriceHistory), with the sums the last two rest on;  *)
(* and, with what AccountProofs shows of the parts beside the catalog,     *)
(* about all of them together.  The modules share no state; each has a     *)
(* part of its own here.                                                   *)
(***************************************************************************)
EXTENDS MCCatalog, AccountProofs

-----------------------------------------------------------------------------
(***************************************************************************)
(* Catalog: types, and what a request knows.                               *)
(***************************************************************************)
AddingAt == {"brand", "codes", "twin", "list", "row"}
SavingAt == {"find", "save"}

AdditionType ==
    [pc : AddingAt \cup SavingAt \cup {"new", "limit", "done"}, id : Ids \cup {Nowhere},
     by : Adders \cup {Team}, brand : Brands \cup {NoBrand}, size : Sizes \cup {0},
     codes : SUBSET Codes, code : Codes \cup {Nowhere}, novel : BOOLEAN, missed : SUBSET Ids]

\* A request on its way has its product's id; once it has read whether its
\* brand is listed, a brand that was is, and one that was not is a brand.
KnownIn(a, brands) ==
    /\ a.pc \notin {"new", "done"} => a.id \in Ids
    /\ a.pc = "save" => a.code \in Codes
    /\ a.pc = "limit" => a.by # Team
    /\ a.pc \in {"codes", "twin"} =>
         IF a.novel THEN a.brand # NoBrand ELSE a.brand \in brands \cup {NoBrand}
    /\ a.pc = "list" => a.brand # NoBrand
    /\ a.pc = "row" => a.brand \in brands \cup {NoBrand}

AdditionsTyped ==
    /\ addition \in [Additions -> AdditionType]
    /\ \A r \in Additions : KnownIn(addition[r], listed)

ProductsTyped ==
    /\ product \in [Ids -> ProductRow] /\ carrier \in [Codes -> Ids \cup {Nowhere}]
    /\ \A i \in Ids : There(i) => product[i].brand \in listed \cup {NoBrand}

ShelvesTyped ==
    /\ listed \subseteq Brands /\ excused \subseteq Ids \X Ids /\ crowded \subseteq Adders
    /\ corrections \in 0 .. MaxCorrections

(***************************************************************************)
(* Look-alikes: a request past its look for twins has missed every product *)
(* shown since that looks like its own, unless that product is excused from*)
(* looking like others, or the brand the request means to list is listed by*)
(* now, which refuses it.                                                  *)
(***************************************************************************)
Beside(a, i) ==
    \/ i \in a.missed
    \/ \A j \in Ids : <<i, j>> \in excused
    \/ a.pc = "list" /\ a.brand \in listed

Sees(a) ==
    \A i \in Ids : Shown(i) /\ LooksLikeSameProduct(a, product[i]) => Beside(a, i)

TwinsKnown ==
    \A r \in Additions : addition[r].pc \in {"list", "row"} /\ addition[r].by # Team => Sees(addition[r])

(***************************************************************************)
(* The limit: whoever is not crowded has one addition past the count at    *)
(* most, and room for it.                                                  *)
(***************************************************************************)
Adding(u) == {r \in Additions : addition[r].by = u /\ addition[r].pc \in AddingAt}

RoomIsLeft ==
    \A u \in Adders \ crowded :
        /\ Cardinality(AddedBy(u)) <= ProductLimit
        /\ \A r, q \in Adding(u) : r = q
        /\ Adding(u) # {} => Cardinality(AddedBy(u)) < ProductLimit

CatalogTyped == AdditionsTyped /\ ProductsTyped /\ ShelvesTyped
CatalogHolds == CatalogTyped /\ TwinsKnown /\ ProductTwinsWereRaced /\ RoomIsLeft

AdditionSet(r, a) == addition' = [addition EXCEPT ![r] = a]

-----------------------------------------------------------------------------
(***************************************************************************)
(* What each step makes of the request that takes it.                      *)
(***************************************************************************)
LEMMA AdditionGoesOn ==
  ASSUME NEW b \in AdditionType, NEW pc \in AddingAt \cup SavingAt \cup {"limit"}
  PROVE  LET a == [b EXCEPT !.pc = pc] IN
         /\ a \in AdditionType /\ a.pc = pc /\ a.id = b.id /\ a.by = b.by /\ a.brand = b.brand
         /\ a.size = b.size /\ a.codes = b.codes /\ a.code = b.code /\ a.novel = b.novel
         /\ a.missed = b.missed
  BY DEF AdditionType

LEMMA Unanswered ==
  /\ Unasked \in AdditionType /\ Unasked.pc = "new" /\ Unasked.by = Team
  /\ Answered \in AdditionType /\ Answered.pc = "done" /\ Answered.by = Team
  <1>1. Unasked \in AdditionType /\ Unasked.pc = "new" /\ Unasked.by = Team
    BY DEF Unasked, AdditionType
  <1>2. PICK a : a = Unasked
    OBVIOUS
  <1>3. PICK b : b = [a EXCEPT !.pc = "done"]
    OBVIOUS
  <1>4. b \in AdditionType /\ b.pc = "done" /\ b.by = Team
    BY <1>1, <1>2, <1>3 DEF AdditionType
  <1>5. b = Answered
    BY <1>2, <1>3 DEF Answered
  <1>6. QED
    BY <1>1, <1>4, <1>5

\* A request that goes on to another step, with nothing else of it changed.
LEMMA AdditionTo ==
  ASSUME AdditionsTyped, NEW r \in Additions, NEW pc \in AddingAt \cup SavingAt \cup {"limit"}, To(r, pc)
  PROVE  \E a \in AdditionType :
           /\ AdditionSet(r, a) /\ a.pc = pc /\ a.id = addition[r].id /\ a.by = addition[r].by
           /\ a.brand = addition[r].brand /\ a.size = addition[r].size
           /\ a.novel = addition[r].novel /\ a.missed = addition[r].missed
  <1>1. PICK b \in AdditionType : b = addition[r]
    BY DEF AdditionsTyped
  <1>2. PICK a : a = [b EXCEPT !.pc = pc]
    OBVIOUS
  <1>3. AdditionSet(r, a)
    BY <1>1, <1>2 DEF To, AdditionSet, AdditionsTyped
  <1>4. /\ a \in AdditionType /\ a.pc = pc /\ a.id = b.id /\ a.by = b.by /\ a.brand = b.brand
        /\ a.size = b.size /\ a.codes = b.codes /\ a.code = b.code /\ a.novel = b.novel
        /\ a.missed = b.missed
    BY <1>2, AdditionGoesOn
  <1>5. QED
    BY <1>1, <1>3, <1>4

\* One request moves; the others stay as they are.
LEMMA AdditionMoves ==
  ASSUME AdditionsTyped, NEW r \in Additions, NEW a \in AdditionType, AdditionSet(r, a),
         listed \subseteq listed', KnownIn(a, listed')
  PROVE  /\ AdditionsTyped' /\ addition'[r] = a
         /\ \A q \in Additions \ {r} : addition'[q] = addition[q]
  <1>1. /\ addition' \in [Additions -> AdditionType] /\ addition'[r] = a
        /\ \A q \in Additions \ {r} : addition'[q] = addition[q]
    BY DEF AdditionsTyped, AdditionSet
  <1>2. ASSUME NEW q \in Additions PROVE KnownIn(addition'[q], listed')
    <2>1. CASE q = r
      BY <1>1, <2>1
    <2>2. CASE q # r
      BY <1>1, <2>2 DEF AdditionsTyped, KnownIn
    <2>3. QED
      BY <2>1, <2>2
  <1>3. QED
    BY <1>1, <1>2 DEF AdditionsTyped

\* Nothing new is known of the products: who has looked knows what it knew.
LEMMA TwinsKept ==
  ASSUME AdditionsTyped, TwinsKnown, NEW r \in Additions, NEW a \in AdditionType, AdditionSet(r, a),
         UNCHANGED <<product, excused>>, listed \subseteq listed',
         a.pc \in {"list", "row"} /\ a.by # Team => Sees(a)'
  PROVE  TwinsKnown'
  <1>1. addition'[r] = a /\ \A q \in Additions \ {r} : addition'[q] = addition[q]
    BY DEF AdditionsTyped, AdditionSet
  <1>2. SUFFICES ASSUME NEW q \in Additions, q # r,
                        addition[q].pc \in {"list", "row"}, addition[q].by # Team
                 PROVE  Sees(addition[q])'
    <2>1. ASSUME NEW q \in Additions, q # r, addition'[q].pc \in {"list", "row"}, addition'[q].by # Team
          PROVE  Sees(addition[q])'
      BY <1>1, <1>2, <2>1
    <2>2. ASSUME addition'[r].pc \in {"list", "row"}, addition'[r].by # Team
          PROVE  Sees(addition[r])'
      BY <1>1, <2>2 DEF Sees, Beside
    <2>3. QED
      BY <2>1, <2>2 DEF TwinsKnown
  <1>3. Sees(addition[q])
    BY <1>2 DEF TwinsKnown
  <1>4. QED
    BY <1>1, <1>2, <1>3 DEF Sees, Beside, Shown

\* Nothing is added, and nobody passes the count: there is room as there was.
LEMMA RoomKept ==
  ASSUME AdditionsTyped, RoomIsLeft, NEW r \in Additions, NEW a \in AdditionType, AdditionSet(r, a),
         UNCHANGED product, crowded \subseteq crowded',
         \/ a.by = Team \/ a.pc \notin AddingAt
         \/ a.by = addition[r].by /\ addition[r].pc \in AddingAt
  PROVE  RoomIsLeft'
  <1>1. addition'[r] = a /\ \A q \in Additions \ {r} : addition'[q] = addition[q]
    BY DEF AdditionsTyped, AdditionSet
  <1>2. ASSUME NEW u \in Adders PROVE Adding(u)' \subseteq Adding(u)
    BY <1>1, CatalogAssumption DEF Adding
  <1>3. ASSUME NEW u \in Adders PROVE AddedBy(u)' = AddedBy(u)
    BY DEF AddedBy, Rows, There
  <1>4. QED
    BY <1>2, <1>3 DEF RoomIsLeft

-----------------------------------------------------------------------------
(***************************************************************************)
(* A step of a request that touches neither the products nor what is       *)
(* excused keeps what holds of the catalog.                                *)
(***************************************************************************)
LEMMA RequestStep ==
  ASSUME CatalogHolds, NEW r \in Additions, NEW a \in AdditionType, AdditionSet(r, a),
         UNCHANGED <<product, excused, corrections>>, crowded \subseteq crowded', crowded' \subseteq Adders,
         listed \subseteq listed', listed' \subseteq Brands, carrier' \in [Codes -> Ids \cup {Nowhere}],
         KnownIn(a, listed'),
         a.pc \in {"list", "row"} /\ a.by # Team => Sees(a)'
  PROVE  /\ CatalogTyped' /\ TwinsKnown' /\ ProductTwinsWereRaced'
         /\ (a.by = Team \/ a.pc \notin AddingAt
               \/ (a.by = addition[r].by /\ addition[r].pc \in AddingAt)) => RoomIsLeft'
  <1>1. AdditionsTyped'
    BY AdditionMoves DEF CatalogHolds, CatalogTyped
  <1>2. ProductsTyped' /\ ShelvesTyped'
    BY DEF CatalogHolds, CatalogTyped, ProductsTyped, ShelvesTyped, There
  <1>3. TwinsKnown'
    BY TwinsKept DEF CatalogHolds, CatalogTyped
  <1>4. ProductTwinsWereRaced'
    BY DEF CatalogHolds, ProductTwinsWereRaced, Shown
  <1>5. (a.by = Team \/ a.pc \notin AddingAt
          \/ (a.by = addition[r].by /\ addition[r].pc \in AddingAt)) => RoomIsLeft'
    BY RoomKept DEF CatalogHolds, CatalogTyped
  <1>6. QED
    BY <1>1, <1>2, <1>3, <1>4, <1>5 DEF CatalogTyped

LEMMA RefusalHolds ==
  ASSUME CatalogHolds, NEW r \in Additions, Refuse(r),
         UNCHANGED <<product, excused, corrections>>, crowded \subseteq crowded', crowded' \subseteq Adders,
         listed \subseteq listed', listed' \subseteq Brands, carrier' \in [Codes -> Ids \cup {Nowhere}]
  PROVE  CatalogHolds'
  <1>1. PICK a \in AdditionType : a = Answered
    BY Unanswered
  <1>2. AdditionSet(r, a) /\ a.pc = "done" /\ a.by = Team
    BY <1>1, Unanswered DEF Refuse, AdditionSet
  <1>3. KnownIn(a, listed')
    BY <1>2 DEF KnownIn
  <1>4. CatalogTyped' /\ TwinsKnown' /\ ProductTwinsWereRaced' /\ RoomIsLeft'
    BY <1>2, <1>3, RequestStep
  <1>5. QED
    BY <1>4 DEF CatalogHolds

\* Nothing but the request is touched.
LEMMA ReadingOnly ==
  ASSUME CatalogHolds, Reads
  PROVE  /\ UNCHANGED <<product, excused, corrections>>
         /\ listed \subseteq listed' /\ listed' \subseteq Brands
         /\ carrier' \in [Codes -> Ids \cup {Nowhere}]
  BY DEF Reads, CatalogHolds, CatalogTyped, ProductsTyped, ShelvesTyped

LEMMA AddedFinite ==
  ASSUME NEW u
  PROVE  IsFiniteSet(AddedBy(u)) /\ Cardinality(AddedBy(u)) \in Nat
  BY CatalogAssumption, FS_Subset, FS_CardinalityType DEF AddedBy, Rows

LEMMA AskToAddHolds ==
  ASSUME CatalogHolds, NEW r \in Additions, NEW body \in CreateProductRequest, AskToAdd(r, body)
  PROVE  CatalogHolds'
  <1>1. crowded \subseteq crowded' /\ crowded' \subseteq Adders
    BY DEF AskToAdd, CatalogHolds, CatalogTyped, ShelvesTyped
  <1>2. CASE There(body.id)
    <2>1. Refuse(r) /\ Reads
      BY <1>2 DEF AskToAdd, Refuse
    <2>2. QED
      BY <1>1, <2>1, RefusalHolds, ReadingOnly
  <1>3. CASE ~There(body.id)
    <2>1. PICK a : a = [Unasked EXCEPT !.pc = IF body.by = Team THEN "brand" ELSE "limit",
                              !.id = body.id, !.by = body.by, !.brand = body.brand,
                              !.size = body.size, !.codes = body.codes]
      OBVIOUS
    <2>2. /\ body.id \in Ids /\ body.by \in Adders \cup {Team} /\ body.brand \in Brands \cup {NoBrand}
          /\ body.size \in Sizes /\ body.codes \in SUBSET Codes
      BY DEF CreateProductRequest
    <2>3. a = [pc |-> IF body.by = Team THEN "brand" ELSE "limit", id |-> body.id, by |-> body.by,
               brand |-> body.brand, size |-> body.size, codes |-> body.codes, code |-> Nowhere,
               novel |-> FALSE, missed |-> {}]
      BY <2>1 DEF Unasked
    <2>4. /\ a \in AdditionType /\ a.id \in Ids /\ a.by = body.by
          /\ a.pc = IF body.by = Team THEN "brand" ELSE "limit"
      BY <2>2, <2>3 DEF AdditionType, AddingAt, SavingAt
    <2>5. AdditionSet(r, a) /\ Reads
      BY <1>3, <2>1 DEF AskToAdd, AdditionSet
    <2>6. KnownIn(a, listed')
      BY <2>4 DEF KnownIn
    <2>7. a.by = Team \/ a.pc \notin AddingAt
      BY <2>4 DEF AddingAt
    <2>8. CatalogTyped' /\ TwinsKnown' /\ ProductTwinsWereRaced' /\ RoomIsLeft'
      BY <1>1, <2>4, <2>5, <2>6, <2>7, RequestStep, ReadingOnly
    <2>9. QED
      BY <2>8 DEF CatalogHolds
  <1>4. QED
    BY <1>2, <1>3

LEMMA AskForCodeHolds ==
  ASSUME CatalogHolds, NEW r \in Additions, NEW body \in AddBarcodeRequest, AskForCode(r, body)
  PROVE  CatalogHolds'
  <1>1. crowded \subseteq crowded' /\ crowded' \subseteq Adders
    BY DEF AskForCode, CatalogHolds, CatalogTyped, ShelvesTyped
  <1>2. PICK a : a = [Unasked EXCEPT !.pc = "find", !.id = body.id, !.codes = {body.code}]
    OBVIOUS
  <1>3. body.id \in Ids /\ body.code \in Codes
    BY DEF AddBarcodeRequest
  <1>4. a = [pc |-> "find", id |-> body.id, by |-> Team, brand |-> NoBrand, size |-> 0,
             codes |-> {body.code}, code |-> Nowhere, novel |-> FALSE, missed |-> {}]
    BY <1>2 DEF Unasked
  <1>5. a \in AdditionType /\ a.id \in Ids /\ a.by = Team /\ a.pc = "find"
    BY <1>3, <1>4 DEF AdditionType, SavingAt
  <1>6. AdditionSet(r, a) /\ Reads
    BY <1>2 DEF AskForCode, AdditionSet
  <1>7. KnownIn(a, listed')
    BY <1>5 DEF KnownIn
  <1>8. CatalogTyped' /\ TwinsKnown' /\ ProductTwinsWereRaced' /\ RoomIsLeft'
    BY <1>1, <1>5, <1>6, <1>7, RequestStep, ReadingOnly
  <1>9. QED
    BY <1>8 DEF CatalogHolds

LEMMA CheckAllowanceHolds ==
  ASSUME CatalogHolds, NEW r \in Additions, CheckAllowance(r)
  PROVE  CatalogHolds'
  <1>1. addition[r].pc = "limit" /\ Reads
    BY DEF CheckAllowance
  <1>2. addition[r] \in AdditionType /\ KnownIn(addition[r], listed)
    BY DEF CatalogHolds, CatalogTyped, AdditionsTyped
  <1>3. PICK u : u = addition[r].by
    OBVIOUS
  <1>4. /\ \E limit \in DailyLimits(u) :
             IF Cardinality(AddedBy(u)) >= limit THEN Refuse(r) ELSE To(r, "brand")
        /\ crowded' = IF Others(r) # {} THEN crowded \cup {u} ELSE crowded
    BY <1>3 DEF CheckAllowance
  <1>5. crowded \subseteq crowded'
    BY <1>4
  <1>6. u \in Adders /\ crowded' \subseteq Adders
    BY <1>1, <1>2, <1>3, <1>4 DEF KnownIn, AdditionType, CatalogHolds, CatalogTyped, ShelvesTyped
  <1>7. CASE Refuse(r)
    BY <1>1, <1>5, <1>6, <1>7, RefusalHolds, ReadingOnly
  <1>8. ASSUME NEW limit \in DailyLimits(u), ~(Cardinality(AddedBy(u)) >= limit), To(r, "brand")
        PROVE  CatalogHolds'
    <2>1. PICK a \in AdditionType :
            /\ AdditionSet(r, a) /\ a.pc = "brand" /\ a.id = addition[r].id /\ a.by = addition[r].by
      BY <1>8, AdditionTo DEF CatalogHolds, CatalogTyped, AddingAt
    <2>2. KnownIn(a, listed')
      BY <1>1, <1>2, <2>1 DEF KnownIn
    <2>3. CatalogTyped' /\ TwinsKnown' /\ ProductTwinsWereRaced'
      BY <1>1, <1>5, <1>6, <2>1, <2>2, RequestStep, ReadingOnly
    <2>4. \A q \in Additions \ {r} : addition'[q] = addition[q]
      BY <1>1, <2>1, <2>2, AdditionMoves, ReadingOnly DEF CatalogHolds, CatalogTyped
    <2>5. addition'[r] = a
      BY <2>1 DEF AdditionSet, CatalogHolds, CatalogTyped, AdditionsTyped
    <2>6. \A v \in Adders : AddedBy(v)' = AddedBy(v)
      BY <1>1 DEF Reads, AddedBy, Rows, There
    <2>7. ASSUME NEW v \in Adders \ crowded', v # u
          PROVE  Adding(v)' = Adding(v)
      BY <1>3, <2>1, <2>4, <2>5, <2>7 DEF Adding
    <2>8. ASSUME u \notin crowded'
          PROVE  Adding(u)' \subseteq {r} /\ Cardinality(AddedBy(u)) < ProductLimit
      <3>1. Others(r) = {}
        BY <1>4, <2>8
      <3>2. \A q \in Additions \ {r} : ~(addition[q].by = u /\ addition[q].pc \in AddingAt)
        BY <1>3, <3>1 DEF Others, AddingAt
      <3>3. Adding(u)' \subseteq {r}
        BY <2>4, <3>2 DEF Adding
      <3>4. limit \in Nat /\ limit <= ProductLimit /\ ProductLimit \in Nat
        BY <1>8, CatalogAssumption DEF DailyLimits
      <3>5. Cardinality(AddedBy(u)) \in Nat
        BY AddedFinite
      <3>6. QED
        BY <1>8, <3>3, <3>4, <3>5
    <2>9. ASSUME NEW v \in Adders \ crowded'
          PROVE  /\ Cardinality(AddedBy(v)') <= ProductLimit
                 /\ \A k, q \in Adding(v)' : k = q
                 /\ Adding(v)' # {} => Cardinality(AddedBy(v)') < ProductLimit
      <3>1. CASE v = u
        <4>1. Cardinality(AddedBy(u)) \in Nat /\ ProductLimit \in Nat
          BY AddedFinite, CatalogAssumption
        <4>2. QED
          BY <2>6, <2>8, <2>9, <3>1, <4>1
      <3>2. CASE v # u
        BY <1>5, <2>6, <2>7, <2>9, <3>2 DEF CatalogHolds, RoomIsLeft
      <3>3. QED
        BY <3>1, <3>2
    <2>10. RoomIsLeft'
      BY <2>9 DEF RoomIsLeft
    <2>11. QED
      BY <2>3, <2>10 DEF CatalogHolds
  <1>9. QED
    BY <1>4, <1>7, <1>8

LEMMA ReadBrandHolds ==
  ASSUME CatalogHolds, NEW r \in Additions, ReadBrand(r)
  PROVE  CatalogHolds'
  <1>1. addition[r].pc = "brand" /\ Reads /\ crowded \subseteq crowded' /\ crowded' \subseteq Adders
    BY DEF ReadBrand, CatalogHolds, CatalogTyped, ShelvesTyped
  <1>2. addition[r] \in AdditionType /\ KnownIn(addition[r], listed)
    BY DEF CatalogHolds, CatalogTyped, AdditionsTyped
  <1>3. PICK b \in AdditionType : b = addition[r]
    BY <1>2
  <1>4. PICK new \in BOOLEAN : new = (b.brand \notin listed \cup {NoBrand})
    OBVIOUS
  <1>5. PICK h : h = [b EXCEPT !.pc = "codes"]
    OBVIOUS
  <1>6. PICK a : a = [h EXCEPT !.novel = new]
    OBVIOUS
  <1>7. h \in AdditionType /\ h.pc = "codes" /\ h.id = b.id /\ h.by = b.by /\ h.brand = b.brand
    BY <1>5, AdditionGoesOn DEF AddingAt
  <1>8. a \in AdditionType /\ a.pc = "codes" /\ a.id = b.id /\ a.by = b.by /\ a.brand = b.brand /\ a.novel = new
    BY <1>6, <1>7 DEF AdditionType
  <1>9. AdditionSet(r, a)
    BY <1>2, <1>3, <1>4, <1>5, <1>6 DEF ReadBrand, AdditionSet, CatalogHolds, CatalogTyped, AdditionsTyped
  <1>10. listed' = listed
    BY <1>1 DEF Reads
  <1>11. KnownIn(a, listed')
    BY <1>1, <1>2, <1>3, <1>4, <1>8, <1>10 DEF KnownIn
  <1>12. CatalogTyped' /\ TwinsKnown' /\ ProductTwinsWereRaced' /\ RoomIsLeft'
    BY <1>1, <1>3, <1>8, <1>9, <1>11, RequestStep, ReadingOnly DEF AddingAt
  <1>13. QED
    BY <1>12 DEF CatalogHolds

LEMMA CheckCodesHolds ==
  ASSUME CatalogHolds, NEW r \in Additions, CheckCodes(r)
  PROVE  CatalogHolds'
  <1>1. addition[r].pc = "codes" /\ Reads /\ crowded \subseteq crowded' /\ crowded' \subseteq Adders
    BY DEF CheckCodes, CatalogHolds, CatalogTyped, ShelvesTyped
  <1>2. KnownIn(addition[r], listed)
    BY DEF CatalogHolds, CatalogTyped, AdditionsTyped
  <1>3. CASE Refuse(r)
    BY <1>1, <1>3, RefusalHolds, ReadingOnly
  <1>4. CASE To(r, "twin")
    <2>1. PICK a \in AdditionType :
            /\ AdditionSet(r, a) /\ a.pc = "twin" /\ a.id = addition[r].id /\ a.by = addition[r].by
            /\ a.brand = addition[r].brand /\ a.novel = addition[r].novel
      BY <1>4, AdditionTo DEF CatalogHolds, CatalogTyped, AddingAt
    <2>2. listed' = listed
      BY <1>1 DEF Reads
    <2>3. KnownIn(a, listed')
      BY <1>1, <1>2, <2>1, <2>2 DEF KnownIn
    <2>4. CatalogTyped' /\ TwinsKnown' /\ ProductTwinsWereRaced' /\ RoomIsLeft'
      BY <1>1, <2>1, <2>3, RequestStep, ReadingOnly DEF AddingAt
    <2>5. QED
      BY <2>4 DEF CatalogHolds
  <1>5. QED
    BY <1>3, <1>4 DEF CheckCodes

\* Past the look for twins nothing shown looks like the product, or its brand
\* was not listed when the request read the brands.
LEMMA CheckTwinHolds ==
  ASSUME CatalogHolds, NEW r \in Additions, CheckTwin(r)
  PROVE  CatalogHolds'
  <1>1. addition[r].pc = "twin" /\ Reads /\ crowded \subseteq crowded' /\ crowded' \subseteq Adders
    BY DEF CheckTwin, CatalogHolds, CatalogTyped, ShelvesTyped
  <1>2. PICK b \in AdditionType : b = addition[r] /\ KnownIn(b, listed) /\ b.pc = "twin"
    BY <1>1 DEF CatalogHolds, CatalogTyped, AdditionsTyped
  <1>3. CASE Refuse(r)
    BY <1>1, <1>3, RefusalHolds, ReadingOnly
  <1>4. ASSUME NEW pc \in {"list", "row"}, To(r, pc), pc = IF b.novel THEN "list" ELSE "row",
               ~b.novel /\ b.by # Team => \A i \in Ids : ~(Shown(i) /\ LooksLikeSameProduct(b, product[i]))
        PROVE  CatalogHolds'
    <2>1. PICK a \in AdditionType :
            /\ AdditionSet(r, a) /\ a.pc = pc /\ a.id = b.id /\ a.by = b.by
            /\ a.brand = b.brand /\ a.size = b.size /\ a.novel = b.novel /\ a.missed = b.missed
      BY <1>2, <1>4, AdditionTo DEF CatalogHolds, CatalogTyped, AddingAt
    <2>2. UNCHANGED <<listed, product, excused>>
      BY <1>1 DEF Reads
    <2>3. KnownIn(a, listed')
      BY <1>2, <1>4, <2>1, <2>2 DEF KnownIn
    <2>4. ASSUME a.by # Team, NEW i \in Ids, Shown(i), LooksLikeSameProduct(a, product[i])
          PROVE  Beside(a, i)
      <3>1. LooksLikeSameProduct(b, product[i]) /\ product[i].brand = a.brand
        BY <2>1, <2>4 DEF LooksLikeSameProduct
      <3>2. b.novel /\ a.pc = "list" /\ a.brand # NoBrand
        BY <1>2, <1>4, <2>1, <2>4, <3>1 DEF KnownIn
      <3>3. product[i].brand \in listed \cup {NoBrand}
        BY <2>4 DEF CatalogHolds, CatalogTyped, ProductsTyped, There, Shown
      <3>4. QED
        BY <3>1, <3>2, <3>3 DEF Beside
    <2>5. a.by # Team => Sees(a)'
      BY <2>2, <2>4 DEF Sees, Beside, Shown
    <2>6. CatalogTyped' /\ TwinsKnown' /\ ProductTwinsWereRaced' /\ RoomIsLeft'
      BY <1>1, <1>2, <2>1, <2>3, <2>5, RequestStep, ReadingOnly DEF AddingAt
    <2>7. QED
      BY <2>6 DEF CatalogHolds
  <1>5. CASE b.novel
    BY <1>2, <1>3, <1>4, <1>5 DEF CheckTwin
  <1>6. CASE ~b.novel
    BY <1>2, <1>3, <1>4, <1>6 DEF CheckTwin
  <1>7. QED
    BY <1>5, <1>6

LEMMA ListBrandHolds ==
  ASSUME CatalogHolds, NEW r \in Additions, ListBrand(r)
  PROVE  CatalogHolds'
  <1>1. PICK b \in AdditionType : b = addition[r] /\ KnownIn(b, listed) /\ b.pc = "list"
    BY DEF ListBrand, CatalogHolds, CatalogTyped, AdditionsTyped
  <1>2. /\ crowded \subseteq crowded' /\ crowded' \subseteq Adders
        /\ UNCHANGED <<product, excused, corrections>> /\ listed' = listed \cup {b.brand}
        /\ carrier' \in [Codes -> Ids \cup {Nowhere}]
    BY <1>1 DEF ListBrand, CatalogHolds, CatalogTyped, ProductsTyped, ShelvesTyped
  <1>3. listed \subseteq listed' /\ listed' \subseteq Brands
    BY <1>1, <1>2 DEF KnownIn, AdditionType, CatalogHolds, CatalogTyped, ShelvesTyped
  <1>4. CASE Refuse(r)
    BY <1>2, <1>3, <1>4, RefusalHolds
  <1>5. CASE To(r, "row") /\ b.brand \notin listed
    <2>1. PICK a \in AdditionType :
            /\ AdditionSet(r, a) /\ a.pc = "row" /\ a.id = b.id /\ a.by = b.by
            /\ a.brand = b.brand /\ a.size = b.size /\ a.novel = b.novel /\ a.missed = b.missed
      BY <1>1, <1>5, AdditionTo DEF CatalogHolds, CatalogTyped, AddingAt
    <2>2. KnownIn(a, listed')
      BY <1>1, <1>2, <2>1 DEF KnownIn
    <2>3. ASSUME a.by # Team, NEW i \in Ids, Shown(i), LooksLikeSameProduct(a, product[i])
          PROVE  i \in a.missed \/ \A j \in Ids : <<i, j>> \in excused
      <3>1. LooksLikeSameProduct(b, product[i])
        BY <2>1, <2>3 DEF LooksLikeSameProduct
      <3>2. Beside(b, i)
        BY <1>1, <2>1, <2>3, <3>1 DEF CatalogHolds, TwinsKnown, Sees
      <3>3. QED
        BY <1>5, <2>1, <3>2 DEF Beside
    <2>4. a.by # Team => Sees(a)'
      BY <1>2, <2>3 DEF Sees, Beside, Shown
    <2>5. CatalogTyped' /\ TwinsKnown' /\ ProductTwinsWereRaced' /\ RoomIsLeft'
      BY <1>1, <1>2, <1>3, <2>1, <2>2, <2>4, RequestStep DEF AddingAt
    <2>6. QED
      BY <2>5 DEF CatalogHolds
  <1>6. QED
    BY <1>1, <1>4, <1>5 DEF ListBrand

LEMMA FindCodeHolds ==
  ASSUME CatalogHolds, NEW r \in Additions, NEW c \in Codes, FindCode(r, c)
  PROVE  CatalogHolds'
  <1>1. PICK b \in AdditionType : b = addition[r] /\ KnownIn(b, listed) /\ b.pc = "find"
    BY DEF FindCode, CatalogHolds, CatalogTyped, AdditionsTyped
  <1>2. Reads /\ crowded \subseteq crowded' /\ crowded' \subseteq Adders
    BY DEF FindCode, CatalogHolds, CatalogTyped, ShelvesTyped
  <1>3. CASE Refuse(r)
    BY <1>2, <1>3, RefusalHolds, ReadingOnly
  <1>4. CASE ~Refuse(r)
    <2>1. PICK h : h = [b EXCEPT !.pc = "save"]
      OBVIOUS
    <2>2. PICK a : a = [h EXCEPT !.code = c]
      OBVIOUS
    <2>3. h \in AdditionType /\ h.pc = "save" /\ h.id = b.id
      BY <2>1, AdditionGoesOn DEF SavingAt
    <2>4. a \in AdditionType /\ a.pc = "save" /\ a.id = b.id /\ a.code = c
      BY <2>2, <2>3 DEF AdditionType
    <2>5. AdditionSet(r, a)
      BY <1>1, <1>4, <2>1, <2>2 DEF FindCode, AdditionSet, CatalogHolds, CatalogTyped, AdditionsTyped
    <2>6. KnownIn(a, listed')
      BY <1>1, <2>4 DEF KnownIn
    <2>7. CatalogTyped' /\ TwinsKnown' /\ ProductTwinsWereRaced' /\ RoomIsLeft'
      BY <1>2, <2>4, <2>5, <2>6, RequestStep, ReadingOnly DEF AddingAt
    <2>8. QED
      BY <2>7 DEF CatalogHolds
  <1>5. QED
    BY <1>3, <1>4

LEMMA SaveCodeHolds ==
  ASSUME CatalogHolds, NEW r \in Additions, SaveCode(r)
  PROVE  CatalogHolds'
  <1>1. PICK b \in AdditionType : b = addition[r] /\ KnownIn(b, listed) /\ b.pc = "save"
    BY DEF SaveCode, CatalogHolds, CatalogTyped, AdditionsTyped
  <1>2. b.id \in Ids /\ b.code \in Codes
    BY <1>1 DEF KnownIn
  <1>3. /\ crowded \subseteq crowded' /\ crowded' \subseteq Adders
        /\ UNCHANGED <<product, excused, corrections>>
        /\ listed \subseteq listed' /\ listed' \subseteq Brands
    BY DEF SaveCode, CatalogHolds, CatalogTyped, ShelvesTyped
  <1>4. carrier' \in [Codes -> Ids \cup {Nowhere}]
    BY <1>1, <1>2 DEF SaveCode, CatalogHolds, CatalogTyped, ProductsTyped
  <1>5. CASE Refuse(r)
    BY <1>3, <1>4, <1>5, RefusalHolds
  <1>6. CASE ~Refuse(r)
    <2>1. PICK h : h = [b EXCEPT !.pc = "find"]
      OBVIOUS
    <2>2. PICK g : g = [h EXCEPT !.code = Nowhere]
      OBVIOUS
    <2>3. PICK a : a = [g EXCEPT !.codes = g.codes \ {b.code}]
      OBVIOUS
    <2>4. h \in AdditionType /\ h.pc = "find" /\ h.id = b.id /\ h.codes = b.codes
      BY <2>1, AdditionGoesOn DEF SavingAt
    <2>5. g \in AdditionType /\ g.pc = "find" /\ g.id = b.id /\ g.codes = b.codes
      BY <2>2, <2>4 DEF AdditionType
    <2>6. a \in AdditionType /\ a.pc = "find" /\ a.id = b.id
      BY <2>3, <2>5 DEF AdditionType
    <2>7. AdditionSet(r, a)
      <3>1. a = [b EXCEPT !.pc = "find", !.code = Nowhere, !.codes = @ \ {b.code}]
        BY <2>1, <2>2, <2>3, <2>4, <2>5 DEF AdditionType
      <3>2. addition' = [addition EXCEPT ![r].pc = "find", ![r].code = Nowhere,
                                         ![r].codes = @ \ {b.code}]
        BY <1>1, <1>6 DEF SaveCode
      <3>3. QED
        BY <1>1, <3>1, <3>2 DEF AdditionSet, CatalogHolds, CatalogTyped, AdditionsTyped
    <2>8. KnownIn(a, listed')
      BY <1>2, <2>6 DEF KnownIn
    <2>9. CatalogTyped' /\ TwinsKnown' /\ ProductTwinsWereRaced' /\ RoomIsLeft'
      BY <1>3, <1>4, <2>6, <2>7, <2>8, RequestStep DEF AddingAt
    <2>10. QED
      BY <2>9 DEF CatalogHolds
  <1>7. QED
    BY <1>5, <1>6

-----------------------------------------------------------------------------
(***************************************************************************)
(* The row.                                                                *)
(***************************************************************************)
LEMMA CreateRowHolds ==
  ASSUME CatalogHolds, NEW r \in Additions, CreateRow(r)
  PROVE  CatalogHolds'
  <1>1. PICK b \in AdditionType : b = addition[r] /\ KnownIn(b, listed) /\ b.pc = "row"
    BY DEF CreateRow, CatalogHolds, CatalogTyped, AdditionsTyped
  <1>2. b.id \in Ids /\ b.brand \in listed \cup {NoBrand} /\ UNCHANGED <<carrier, listed, crowded, corrections>>
    BY <1>1 DEF CreateRow, KnownIn
  <1>3. CASE There(b.id)
    <2>1. Refuse(r) /\ UNCHANGED <<product, excused>>
      BY <1>1, <1>3 DEF CreateRow
    <2>2. QED
      BY <1>2, <2>1, RefusalHolds DEF CatalogHolds, CatalogTyped, ProductsTyped, ShelvesTyped
  <1>4. CASE ~There(b.id)
    <2> DEFINE Past == {q \in Additions \ {r} : addition[q].pc \in {"list", "row"}}
    <2>1. PICK m : m = IF b.by = Team THEN Rows ELSE b.missed
      OBVIOUS
    <2>2. PICK f : f = [Unasked EXCEPT !.pc = "find", !.id = b.id, !.codes = b.codes]
      OBVIOUS
    <2>3. PICK k : k = IF b.codes = {} THEN Answered ELSE f
      OBVIOUS
    <2>4. /\ product' = [product EXCEPT ![b.id] = Row(b)]
          /\ excused' = excused \cup ({b.id} \X m)
          /\ addition' = [q \in Additions |->
                 IF q \in Past THEN [addition[q] EXCEPT !.missed = @ \cup {b.id}]
                 ELSE IF q # r THEN addition[q] ELSE k]
      BY <1>1, <1>4, <2>1, <2>2, <2>3 DEF CreateRow
    <2>5. k \in AdditionType /\ k.pc \in {"find", "done"} /\ k.by = Team /\ (k.pc = "find" => k.id \in Ids)
      <3>1. f = [pc |-> "find", id |-> b.id, by |-> Team, brand |-> NoBrand, size |-> 0,
                 codes |-> b.codes, code |-> Nowhere, novel |-> FALSE, missed |-> {}]
        BY <2>2 DEF Unasked
      <3>2. f \in AdditionType /\ f.pc = "find" /\ f.id \in Ids /\ f.by = Team
        BY <1>2, <3>1 DEF AdditionType, SavingAt
      <3>3. QED
        BY <2>3, <3>2, Unanswered
    <2>6. addition'[r] = k
      BY <2>4
    <2>7. ASSUME NEW q \in Additions \ {r}
          PROVE  /\ addition'[q] \in AdditionType
                 /\ addition'[q].pc = addition[q].pc /\ addition'[q].id = addition[q].id
                 /\ addition'[q].by = addition[q].by /\ addition'[q].brand = addition[q].brand
                 /\ addition'[q].size = addition[q].size /\ addition'[q].code = addition[q].code
                 /\ addition'[q].novel = addition[q].novel /\ addition[q].missed \subseteq addition'[q].missed
                 /\ addition[q].pc \in {"list", "row"} => b.id \in addition'[q].missed
      <3>1. addition[q] \in AdditionType
        BY DEF CatalogHolds, CatalogTyped, AdditionsTyped
      <3>2. CASE q \in Past
        <4>1. addition'[q] = [addition[q] EXCEPT !.missed = @ \cup {b.id}]
          BY <2>4, <3>2
        <4>2. QED
          BY <1>2, <3>1, <4>1 DEF AdditionType
      <3>3. CASE q \notin Past
        BY <2>4, <3>1, <3>3
      <3>4. QED
        BY <3>2, <3>3
    <2>8. PICK new \in ProductRow : /\ new = Row(b) /\ new.by = b.by /\ new.brand = b.brand
                                   /\ new.size = b.size /\ new.status = "ACTIVE"
      <3>1. b.by \in Adders \cup {Team} /\ b.brand \in Brands \cup {NoBrand} /\ b.size \in Sizes \cup {0}
        BY DEF AdditionType
      <3>2. Row(b) \in ProductRow
        BY <3>1 DEF Row, ProductRow
      <3>3. QED
        BY <3>2 DEF Row
    <2>9. /\ product' \in [Ids -> ProductRow] /\ product'[b.id] = new
          /\ \A i \in Ids \ {b.id} : product'[i] = product[i]
      BY <1>2, <2>4, <2>8 DEF CatalogHolds, CatalogTyped, ProductsTyped
    <2>10. m \subseteq Ids
      BY <2>1 DEF AdditionType, Rows
    <2>11. AdditionsTyped'
      <3>1. addition' \in [Additions -> AdditionType]
        BY <2>4, <2>5, <2>6, <2>7
      <3>2. ASSUME NEW q \in Additions PROVE KnownIn(addition'[q], listed')
        <4>1. CASE q = r
          BY <2>5, <2>6, <4>1 DEF KnownIn
        <4>2. CASE q # r
          <5>1. KnownIn(addition[q], listed) /\ listed' = listed
            BY <1>2 DEF CatalogHolds, CatalogTyped, AdditionsTyped
          <5>2. QED
            BY <2>7, <4>2, <5>1 DEF KnownIn
        <4>3. QED
          BY <4>1, <4>2
      <3>3. QED
        BY <3>1, <3>2 DEF AdditionsTyped
    <2>12. ProductsTyped' /\ ShelvesTyped'
      <3>1. ASSUME NEW i \in Ids, There(i)' PROVE product'[i].brand \in listed' \cup {NoBrand}
        <4>1. CASE i = b.id
          BY <1>2, <2>8, <2>9, <4>1
        <4>2. CASE i # b.id
          BY <1>2, <2>9, <3>1, <4>2 DEF There, CatalogHolds, CatalogTyped, ProductsTyped
        <4>3. QED
          BY <4>1, <4>2
      <3>2. excused' \subseteq Ids \X Ids
        BY <1>2, <2>4, <2>10 DEF CatalogHolds, CatalogTyped, ShelvesTyped
      <3>3. QED
        BY <1>2, <2>9, <3>1, <3>2 DEF CatalogHolds, CatalogTyped, ProductsTyped, ShelvesTyped
    <2>13. TwinsKnown'
      <3>1. SUFFICES ASSUME NEW q \in Additions, addition'[q].pc \in {"list", "row"},
                            addition'[q].by # Team, NEW i \in Ids, Shown(i)',
                            LooksLikeSameProduct(addition[q], product[i])'
                     PROVE  Beside(addition[q], i)'
        BY DEF TwinsKnown, Sees
      <3>2. q # r
        BY <2>5, <2>6, <3>1
      <3>3. CASE i = b.id
        BY <2>7, <3>1, <3>2, <3>3 DEF Beside
      <3>4. CASE i # b.id
        <4>1. Shown(i) /\ LooksLikeSameProduct(addition[q], product[i])
          BY <2>7, <2>9, <3>1, <3>2, <3>4 DEF Shown, LooksLikeSameProduct
        <4>2. Beside(addition[q], i)
          BY <2>7, <3>1, <3>2, <4>1 DEF CatalogHolds, TwinsKnown, Sees
        <4>3. QED
          BY <1>2, <2>4, <2>7, <3>2, <4>2 DEF Beside
      <3>5. QED
        BY <3>3, <3>4
    <2>14. ProductTwinsWereRaced'
      <3>1. ASSUME NEW i \in Ids, i # b.id, Shown(i), LooksLikeSameProduct(b, product[i])
            PROVE  <<b.id, i>> \in excused' \/ <<i, b.id>> \in excused'
        <4>1. CASE b.by = Team
          <5>1. i \in m
            BY <2>1, <3>1, <4>1 DEF Rows, There, Shown
          <5>2. QED
            BY <2>4, <5>1
        <4>2. CASE b.by # Team
          <5>1. Beside(b, i)
            BY <1>1, <3>1, <4>2 DEF CatalogHolds, TwinsKnown, Sees
          <5>2. QED
            BY <1>1, <1>2, <2>1, <2>4, <4>2, <5>1 DEF Beside
        <4>3. QED
          BY <4>1, <4>2
      <3>2. SUFFICES ASSUME NEW p \in Ids, NEW q \in Ids, p # q, Shown(p)', Shown(q)',
                            LooksLikeSameProduct(product[p], product[q])'
                     PROVE  <<p, q>> \in excused' \/ <<q, p>> \in excused'
        BY DEF ProductTwinsWereRaced
      <3>3. CASE p = b.id
        <4>1. Shown(q) /\ LooksLikeSameProduct(b, product[q])
          BY <2>8, <2>9, <3>2, <3>3 DEF Shown, LooksLikeSameProduct
        <4>2. QED
          BY <3>1, <3>2, <3>3, <4>1
      <3>4. CASE q = b.id
        <4>1. Shown(p) /\ LooksLikeSameProduct(b, product[p])
          BY <2>8, <2>9, <3>2, <3>4 DEF Shown, LooksLikeSameProduct
        <4>2. QED
          BY <3>1, <3>2, <3>4, <4>1
      <3>5. CASE p # b.id /\ q # b.id
        <4>1. Shown(p) /\ Shown(q) /\ LooksLikeSameProduct(product[p], product[q])
          BY <2>9, <3>2, <3>5 DEF Shown
        <4>2. <<p, q>> \in excused \/ <<q, p>> \in excused
          BY <3>2, <4>1 DEF CatalogHolds, ProductTwinsWereRaced
        <4>3. QED
          BY <2>4, <4>2
      <3>6. QED
        BY <3>3, <3>4, <3>5
    <2>15. RoomIsLeft'
      <3>1. ASSUME NEW u \in Adders \ crowded', u # b.by
            PROVE  AddedBy(u)' = AddedBy(u) /\ Adding(u)' \subseteq Adding(u)
        <4>1. AddedBy(u)' = AddedBy(u)
          BY <1>4, <2>8, <2>9, <3>1 DEF AddedBy, Rows, There
        <4>2. Adding(u)' \subseteq Adding(u)
          BY <2>5, <2>6, <2>7 DEF Adding, AddingAt
        <4>3. QED
          BY <4>1, <4>2
      <3>2. ASSUME NEW u \in Adders \ crowded', u = b.by
            PROVE  Adding(u)' = {} /\ Cardinality(AddedBy(u)') <= ProductLimit
        <4>1. r \in Adding(u) /\ u \notin crowded
          BY <1>1, <1>2, <3>2 DEF Adding, AddingAt
        <4>2. Adding(u) \subseteq {r} /\ Cardinality(AddedBy(u)) < ProductLimit
          BY <4>1 DEF CatalogHolds, RoomIsLeft
        <4>3. Adding(u)' = {}
          BY <2>5, <2>6, <2>7, <4>2, CatalogAssumption DEF Adding, AddingAt
        <4>4. AddedBy(u)' = AddedBy(u) \cup {b.id} /\ b.id \notin AddedBy(u)
          BY <1>2, <1>4, <2>8, <2>9, <3>2 DEF AddedBy, Rows, There
        <4>5. Cardinality(AddedBy(u)') = Cardinality(AddedBy(u)) + 1
          BY <4>4, AddedFinite, FS_AddElement
        <4>6. Cardinality(AddedBy(u)) \in Nat /\ ProductLimit \in Nat
          BY AddedFinite, CatalogAssumption
        <4>7. QED
          BY <4>2, <4>3, <4>5, <4>6
      <3>3. ASSUME NEW u \in Adders \ crowded'
            PROVE  /\ Cardinality(AddedBy(u)') <= ProductLimit
                   /\ \A p, q \in Adding(u)' : p = q
                   /\ Adding(u)' # {} => Cardinality(AddedBy(u)') < ProductLimit
        <4>1. CASE u = b.by
          BY <3>2, <3>3, <4>1
        <4>2. CASE u # b.by
          BY <1>2, <3>1, <3>3, <4>2 DEF CatalogHolds, RoomIsLeft
        <4>3. QED
          BY <4>1, <4>2
      <3>4. QED
        BY <3>3 DEF RoomIsLeft
    <2>16. QED
      BY <2>11, <2>12, <2>13, <2>14, <2>15 DEF CatalogHolds, CatalogTyped
  <1>5. QED
    BY <1>3, <1>4

-----------------------------------------------------------------------------
(***************************************************************************)
(* The team.                                                               *)
(***************************************************************************)
LEMMA ProductChanges ==
  ASSUME CatalogHolds, NEW i \in Ids, NEW p \in ProductRow, There(i), p.by = product[i].by,
         p.status # "NONE", p.brand \in listed \cup {NoBrand}, product' = [product EXCEPT ![i] = p],
         carrier' \in [Codes -> Ids \cup {Nowhere}], corrections' \in 0 .. MaxCorrections,
         UNCHANGED <<listed, addition, crowded>>,
         \/ UNCHANGED excused /\ p.status = "MERGED"
         \/ excused' = excused \cup ({i} \X Ids)
  PROVE  CatalogHolds'
  <1>1. /\ product' \in [Ids -> ProductRow] /\ product'[i] = p
        /\ \A k \in Ids \ {i} : product'[k] = product[k]
    BY DEF CatalogHolds, CatalogTyped, ProductsTyped
  <1>2. AdditionsTyped'
    BY DEF CatalogHolds, CatalogTyped, AdditionsTyped, KnownIn
  <1>3. ProductsTyped' /\ ShelvesTyped'
    <2>1. ASSUME NEW k \in Ids, There(k)' PROVE product'[k].brand \in listed' \cup {NoBrand}
      BY <1>1, <2>1 DEF There, CatalogHolds, CatalogTyped, ProductsTyped
    <2>2. QED
      BY <1>1, <2>1 DEF CatalogHolds, CatalogTyped, ProductsTyped, ShelvesTyped
  <1>4. excused \subseteq excused'
    OBVIOUS
  <1>5. Shown(i)' => \A k \in Ids : <<i, k>> \in excused'
    BY <1>1 DEF Shown
  <1>6. TwinsKnown'
    <2>1. SUFFICES ASSUME NEW q \in Additions, addition[q].pc \in {"list", "row"},
                          addition[q].by # Team, NEW k \in Ids, Shown(k)',
                          LooksLikeSameProduct(addition[q], product'[k])
                   PROVE  \/ k \in addition[q].missed
                          \/ \A j \in Ids : <<k, j>> \in excused'
                          \/ addition[q].pc = "list" /\ addition[q].brand \in listed
      BY DEF TwinsKnown, Sees, Beside
    <2>2. CASE k = i
      BY <1>5, <2>1, <2>2
    <2>3. CASE k # i
      <3>1. Shown(k) /\ LooksLikeSameProduct(addition[q], product[k])
        BY <1>1, <2>1, <2>3 DEF Shown
      <3>2. Beside(addition[q], k)
        BY <2>1, <3>1 DEF CatalogHolds, TwinsKnown, Sees
      <3>3. QED
        BY <1>4, <3>2 DEF Beside
    <2>4. QED
      BY <2>2, <2>3
  <1>7. ProductTwinsWereRaced'
    <2>1. SUFFICES ASSUME NEW m \in Ids, NEW n \in Ids, m # n, Shown(m)', Shown(n)',
                          LooksLikeSameProduct(product[m], product[n])'
                   PROVE  <<m, n>> \in excused' \/ <<n, m>> \in excused'
      BY DEF ProductTwinsWereRaced
    <2>2. CASE m = i \/ n = i
      BY <1>5, <2>1, <2>2
    <2>3. CASE m # i /\ n # i
      <3>1. Shown(m) /\ Shown(n) /\ LooksLikeSameProduct(product[m], product[n])
        BY <1>1, <2>1, <2>3 DEF Shown
      <3>2. QED
        BY <1>4, <2>1, <3>1 DEF CatalogHolds, ProductTwinsWereRaced
    <2>4. QED
      BY <2>2, <2>3
  <1>8. ASSUME NEW u PROVE AddedBy(u)' = AddedBy(u)
    BY <1>1 DEF AddedBy, Rows, There
  <1>9. RoomIsLeft'
    BY <1>8 DEF CatalogHolds, RoomIsLeft, Adding
  <1>10. QED
    BY <1>2, <1>3, <1>6, <1>7, <1>9 DEF CatalogHolds, CatalogTyped

LEMMA UpdateProductHolds ==
  ASSUME CatalogHolds, NEW i \in Ids, UpdateProduct(i)
  PROVE  CatalogHolds'
  <1>1. PICK body \in UpdateProductRequest :
          /\ body.brand \in listed \cup {NoBrand}
          /\ Correct(i, [product[i] EXCEPT !.brand = body.brand, !.size = body.size,
                                           !.active = body.active])
    BY DEF UpdateProduct
  <1>2. body.brand \in Brands \cup {NoBrand} /\ body.size \in Sizes \cup {0} /\ body.active \in BOOLEAN
    BY DEF UpdateProductRequest
  <1>3. PICK was \in ProductRow : was = product[i]
    BY DEF CatalogHolds, CatalogTyped, ProductsTyped
  <1>4. PICK p : p = [was EXCEPT !.brand = body.brand, !.size = body.size, !.active = body.active]
    OBVIOUS
  <1>5. p \in ProductRow /\ p.by = was.by /\ p.status = was.status /\ p.brand = body.brand
    BY <1>2, <1>4 DEF ProductRow
  <1>6. /\ There(i) /\ product' = [product EXCEPT ![i] = p] /\ UNCHANGED <<carrier, listed, addition, crowded>>
        /\ excused' = excused \cup ({i} \X Ids) /\ corrections' = corrections - 1 /\ corrections > 0
    BY <1>1, <1>3, <1>4 DEF Correct
  <1>7. carrier' \in [Codes -> Ids \cup {Nowhere}] /\ corrections' \in 0 .. MaxCorrections
    BY <1>6, CatalogAssumption DEF CatalogHolds, CatalogTyped, ProductsTyped, ShelvesTyped
  <1>8. p.by = product[i].by /\ p.status # "NONE"
    BY <1>3, <1>5, <1>6 DEF There
  <1>9. QED
    BY <1>1, <1>5, <1>6, <1>7, <1>8, ProductChanges

LEMMA ModerateProductHolds ==
  ASSUME CatalogHolds, NEW i \in Ids, NEW status \in {"ACTIVE", "HIDDEN"}, ModerateProduct(i, status)
  PROVE  CatalogHolds'
  <1>1. PICK was \in ProductRow : was = product[i]
    BY DEF CatalogHolds, CatalogTyped, ProductsTyped
  <1>2. PICK p : p = [was EXCEPT !.status = status]
    OBVIOUS
  <1>3. p \in ProductRow /\ p.by = was.by /\ p.status = status /\ p.brand = was.brand
    BY <1>2 DEF ProductRow
  <1>4. /\ There(i) /\ product' = [product EXCEPT ![i] = p] /\ UNCHANGED <<carrier, listed, addition, crowded>>
        /\ excused' = excused \cup ({i} \X Ids) /\ corrections' = corrections - 1 /\ corrections > 0
    BY <1>1, <1>2 DEF ModerateProduct, Correct
  <1>5. carrier' \in [Codes -> Ids \cup {Nowhere}] /\ corrections' \in 0 .. MaxCorrections
    BY <1>4, CatalogAssumption DEF CatalogHolds, CatalogTyped, ProductsTyped, ShelvesTyped
  <1>6. p.by = product[i].by /\ p.status # "NONE" /\ p.brand \in listed \cup {NoBrand}
    BY <1>1, <1>3, <1>4 DEF CatalogHolds, CatalogTyped, ProductsTyped
  <1>7. QED
    BY <1>3, <1>4, <1>5, <1>6, ProductChanges

LEMMA MergeProductsHolds ==
  ASSUME CatalogHolds, NEW from \in Ids, NEW into \in Ids, MergeProducts(from, into)
  PROVE  CatalogHolds'
  <1>1. PICK was \in ProductRow : was = product[from]
    BY DEF CatalogHolds, CatalogTyped, ProductsTyped
  <1>2. PICK p : p = [was EXCEPT !.status = "MERGED", !.active = FALSE, !.into = into]
    OBVIOUS
  <1>3. p \in ProductRow /\ p.by = was.by /\ p.status = "MERGED" /\ p.brand = was.brand
    BY <1>2 DEF ProductRow
  <1>4. product' = [product EXCEPT ![from] = p]
    BY <1>1, <1>2 DEF MergeProducts, CatalogHolds, CatalogTyped, ProductsTyped
  <1>5. /\ There(from) /\ UNCHANGED <<listed, addition, excused, crowded>>
        /\ corrections' = corrections - 1 /\ corrections > 0
        /\ carrier' = [c \in Codes |-> IF carrier[c] = from THEN into ELSE carrier[c]]
    BY DEF MergeProducts
  <1>6. carrier' \in [Codes -> Ids \cup {Nowhere}] /\ corrections' \in 0 .. MaxCorrections
    BY <1>5, CatalogAssumption DEF CatalogHolds, CatalogTyped, ProductsTyped, ShelvesTyped
  <1>7. p.by = product[from].by /\ p.status # "NONE" /\ p.brand \in listed \cup {NoBrand}
    BY <1>1, <1>3, <1>5 DEF CatalogHolds, CatalogTyped, ProductsTyped
  <1>8. QED
    BY <1>3, <1>4, <1>5, <1>6, <1>7, ProductChanges

LEMMA CatalogStarts ==
  ASSUME CatalogInit PROVE CatalogHolds
  <1> DEFINE Old == Ids \ Additions
  <1>1. PICK made \in [Old -> [by : Adders \cup {Team}, brand : Brands \cup {NoBrand}, size : Sizes]] :
          /\ product = [i \in Ids |-> IF i \in Additions THEN NoProductRow ELSE Row(made[i])]
          /\ listed = {made[i].brand : i \in Old} \ {NoBrand}
          /\ excused = Old \X Old
    BY DEF CatalogInit
  <1>2. /\ carrier \in [Codes -> {Nowhere} \cup Old]
        /\ \A u \in Adders : Cardinality({i \in Old : product[i].by = u}) <= ProductLimit
        /\ addition = [r \in Additions |-> Unasked] /\ crowded = {} /\ corrections = MaxCorrections
    BY DEF CatalogInit
  <1>3. NoProductRow \in ProductRow /\ NoProductRow.status = "NONE"
    BY DEF NoProductRow, ProductRow
  <1>4. ASSUME NEW i \in Old
        PROVE  /\ product[i] \in ProductRow /\ product[i].status = "ACTIVE"
               /\ product[i].brand \in listed \cup {NoBrand}
    <2>1. product[i] = Row(made[i])
      BY <1>1
    <2>2. /\ made[i].by \in Adders \cup {Team} /\ made[i].brand \in Brands \cup {NoBrand}
          /\ made[i].size \in Sizes
      OBVIOUS
    <2>3. made[i].brand \in listed \cup {NoBrand}
      BY <1>1
    <2>4. QED
      BY <2>1, <2>2, <2>3 DEF Row, ProductRow
  <1>5. \A i \in Additions : product[i] = NoProductRow
    BY <1>1, CatalogAssumption
  <1>6. product \in [Ids -> ProductRow]
    BY <1>1, <1>3, <1>4, <1>5
  <1>7. Rows = Old
    BY <1>3, <1>4, <1>5 DEF Rows, There
  <1>8. AdditionsTyped
    <2>1. Unasked \in AdditionType /\ Unasked.pc = "new"
      BY Unanswered
    <2>2. QED
      BY <1>2, <2>1 DEF AdditionsTyped, KnownIn
  <1>9. ProductsTyped /\ ShelvesTyped
    BY <1>1, <1>2, <1>4, <1>6, <1>7, CatalogAssumption DEF ProductsTyped, ShelvesTyped, Rows
  <1>10. TwinsKnown
    BY <1>2, Unanswered DEF TwinsKnown
  <1>11. ProductTwinsWereRaced
    BY <1>1, <1>7 DEF ProductTwinsWereRaced, Shown, Rows, There
  <1>12. RoomIsLeft
    <2>1. \A u \in Adders : Adding(u) = {}
      BY <1>2, Unanswered DEF Adding, AddingAt
    <2>2. \A u \in Adders : AddedBy(u) = {i \in Old : product[i].by = u}
      BY <1>7 DEF AddedBy
    <2>3. QED
      BY <1>2, <2>1, <2>2 DEF RoomIsLeft
  <1>13. QED
    BY <1>8, <1>9, <1>10, <1>11, <1>12 DEF CatalogHolds, CatalogTyped

LEMMA CatalogKeeps ==
  ASSUME CatalogHolds, [CatalogNext]_catalogVars PROVE CatalogHolds'
  <1>1. CASE UNCHANGED catalogVars
    <2>1. UNCHANGED <<product, carrier, listed, addition, excused, crowded, corrections>>
      BY <1>1 DEF catalogVars
    <2>2. AdditionsTyped' /\ ProductsTyped' /\ ShelvesTyped'
      BY <2>1 DEF CatalogHolds, CatalogTyped, AdditionsTyped, ProductsTyped, ShelvesTyped, There
    <2>3. TwinsKnown' /\ ProductTwinsWereRaced'
      BY <2>1 DEF CatalogHolds, TwinsKnown, Sees, Beside, ProductTwinsWereRaced, Shown
    <2>4. RoomIsLeft'
      BY <2>1 DEF CatalogHolds, RoomIsLeft, Adding, AddedBy, Rows, There
    <2>5. QED
      BY <2>2, <2>3, <2>4 DEF CatalogHolds, CatalogTyped
  <1>2. ASSUME NEW r \in Additions, AddStep(r) PROVE CatalogHolds'
    BY <1>2, CheckAllowanceHolds, ReadBrandHolds, CheckCodesHolds, CheckTwinHolds, ListBrandHolds,
       CreateRowHolds, SaveCodeHolds, FindCodeHolds DEF AddStep
  <1>3. QED
    BY <1>1, <1>2, AskToAddHolds, AskForCodeHolds, UpdateProductHolds, ModerateProductHolds,
       MergeProductsHolds DEF CatalogNext

LEMMA CatalogTypes == CatalogHolds => CatalogTypeOK
  <1>1. SUFFICES ASSUME CatalogHolds PROVE CatalogTypeOK
    OBVIOUS
  <1>2. ASSUME NEW r \in Additions
        PROVE  /\ addition[r].pc \in {"new", "limit", "brand", "codes", "twin", "list", "row",
                                      "find", "save", "done"}
               /\ addition[r].codes \subseteq Codes /\ addition[r].missed \subseteq Ids
    <2>1. addition[r] \in AdditionType
      BY <1>1 DEF CatalogHolds, CatalogTyped, AdditionsTyped
    <2>2. QED
      BY <2>1 DEF AdditionType, AddingAt, SavingAt
  <1>3. QED
    BY <1>1, <1>2 DEF CatalogHolds, CatalogTyped, ProductsTyped, ShelvesTyped, CatalogTypeOK

\* Requests, rows and what goes with them keep their types.
THEOREM CatalogIsTyped == CatalogSpec => []CatalogTypeOK
  BY CatalogStarts, CatalogKeeps, CatalogTypes, PTL DEF CatalogSpec

\* Two products shown side by side that look the same were added past each
\* other, by the team, or were corrected or put back: no request that looked
\* for twins after the other's row was there added one.
THEOREM ProductTwinsAreRaces == CatalogSpec => []ProductTwinsWereRaced
  <1>1. CatalogHolds => ProductTwinsWereRaced
    BY DEF CatalogHolds
  <1>2. QED
    BY CatalogStarts, CatalogKeeps, <1>1, PTL DEF CatalogSpec

\* Whoever never had two additions past the count at once is within the limit.
THEOREM ProductLimitIsRaced == CatalogSpec => []ProductLimitWasRaced
  <1>1. CatalogHolds => ProductLimitWasRaced
    BY DEF CatalogHolds, RoomIsLeft, ProductLimitWasRaced
  <1>2. QED
    BY CatalogStarts, CatalogKeeps, <1>1, PTL DEF CatalogSpec

\* A code once given is handed to no other product by any addition, retry or
\* race; a merge alone moves it, to the product that stays.
THEOREM CodesAreKept == CatalogSpec => CodesStay
  <1>1. CatalogInit => CatalogHolds
    BY CatalogStarts
  <1>2. CatalogHolds /\ [CatalogNext]_catalogVars => CatalogHolds'
    BY CatalogKeeps
  <1>3. CatalogHolds /\ [CatalogNext]_catalogVars =>
          [\A c \in Codes : carrier[c] # Nowhere /\ carrier'[c] # carrier[c] =>
             product'[carrier[c]].status = "MERGED"
             /\ carrier'[c] = product'[carrier[c]].into]_catalogVars
    <2>1. SUFFICES ASSUME CatalogHolds, CatalogNext, NEW c \in Codes,
                          carrier[c] # Nowhere, carrier'[c] # carrier[c]
                   PROVE  product'[carrier[c]].status = "MERGED"
                          /\ carrier'[c] = product'[carrier[c]].into
      OBVIOUS
    <2>2. ASSUME NEW r \in Additions, SaveCode(r) PROVE FALSE
      BY <2>1, <2>2 DEF SaveCode, CatalogHolds, CatalogTyped, ProductsTyped
    <2>3. ASSUME NEW from \in Ids, NEW into \in Ids, MergeProducts(from, into)
          PROVE  product'[carrier[c]].status = "MERGED"
                 /\ carrier'[c] = product'[carrier[c]].into
      <3>1. carrier[c] = from /\ carrier'[c] = into
        BY <2>1, <2>3 DEF MergeProducts
      <3>2. product'[from].status = "MERGED" /\ product'[from].into = into
        <4>1. PICK was : was = product[from]
          OBVIOUS
        <4>2. PICK new : new = [was EXCEPT !.status = "MERGED", !.active = FALSE, !.into = into]
          OBVIOUS
        <4>3. product'[from] = new
          BY <2>1, <2>3, <4>1, <4>2 DEF MergeProducts, CatalogHolds, CatalogTyped, ProductsTyped
        <4>4. was \in ProductRow
          BY <2>1, <4>1 DEF CatalogHolds, CatalogTyped, ProductsTyped
        <4>5. new.status = "MERGED" /\ new.into = into
          BY <4>2, <4>4 DEF ProductRow
        <4>6. QED
          BY <4>3, <4>5
      <3>3. QED
        BY <3>1, <3>2
    <2>4. QED
      BY <2>1, <2>2, <2>3
      DEF CatalogNext, AddStep, CheckAllowance, ReadBrand, CheckCodes, CheckTwin, ListBrand,
          CreateRow, FindCode, AskToAdd, AskForCode, UpdateProduct, ModerateProduct, Correct, Reads
  <1>4. QED
    BY <1>1, <1>2, <1>3, PTL DEF CatalogSpec, CodesStay

-----------------------------------------------------------------------------
(***************************************************************************)
(* Shops: types.  A shop's place is free until its request has ended.      *)
(***************************************************************************)
CountedAt == {"chain", "list", "twin", "row"}

ShopOpening ==
    [pc : CountedAt \cup {"limit"}, by : Founders \cup {Curators}, chain : Chains,
     byName : BOOLEAN, spot : Spots, missed : SUBSET Branches]
ChainOpening == [pc : {"slug", "found"}, chain : Chains]

ShopsTyped ==
    /\ store \in [Branches -> StoreRow \cup {NoStore}]
    /\ opening \in [Openings -> ShopOpening \cup ChainOpening \cup {Closed, Finished}]
    /\ \A o \in Openings : /\ opening[o].pc # "done" => store[o] = NoStore
                           /\ opening[o].pc = "limit" => opening[o].by # Curators
    /\ chains \subseteq Chains /\ tolerated \subseteq Branches \X Branches
    /\ hurried \subseteq Founders /\ verdicts \in 0 .. MaxVerdicts

(***************************************************************************)
(* Who is past the look for twins has missed every shop since that looks   *)
(* like its own, unless that shop is tolerated beside any.                 *)
(***************************************************************************)
NextTo(a, b) == b \in a.missed \/ \A c \in Branches : <<b, c>> \in tolerated

ShopTwinsKnown ==
    \A o \in Openings, b \in Branches :
        opening[o].pc = "row" /\ opening[o].by # Curators /\ b \in Opened /\ Standing(b)
        /\ LooksLikeSameStore(opening[o], store[b])
        => NextTo(opening[o], b)

(***************************************************************************)
(* Whoever does not hurry has one shop past the count at most, and room.   *)
(***************************************************************************)
OpeningBy(u) == {o \in Openings : opening[o].pc \in CountedAt /\ opening[o].by = u}

StreetHasRoom ==
    \A u \in Founders \ hurried :
        /\ Cardinality(OpenedBy(u)) <= StoreLimit
        /\ \A o, p \in OpeningBy(u) : o = p
        /\ OpeningBy(u) # {} => Cardinality(OpenedBy(u)) < StoreLimit

ShopsHold == ShopsTyped /\ ShopTwinsKnown /\ ShopTwinsWereRaced /\ StreetHasRoom

OpeningSet(o, a) == opening' = [opening EXCEPT ![o] = a]
AnyOpening == ShopOpening \cup ChainOpening \cup {Closed, Finished}

-----------------------------------------------------------------------------
LEMMA Kinds ==
  ASSUME NEW a \in AnyOpening
  PROVE  /\ a.pc \in CountedAt \cup {"limit"} <=> a \in ShopOpening
         /\ a.pc \in {"slug", "found"} <=> a \in ChainOpening
  BY DEF AnyOpening, ShopOpening, ChainOpening, Closed, Finished, CountedAt

LEMMA OpenedFinite ==
  ASSUME NEW u
  PROVE  IsFiniteSet(OpenedBy(u)) /\ Cardinality(OpenedBy(u)) \in Nat
  BY ShopsAssumption, FS_Subset, FS_CardinalityType DEF OpenedBy, Opened

LEMMA LooksBothWays ==
  ASSUME NEW a \in StoreRow \cup ShopOpening, NEW b \in StoreRow \cup ShopOpening
  PROVE  /\ LooksLikeSameStore(a, b) <=> LooksLikeSameStore(b, a)
         /\ LooksLikeSameStore(a, b) => InBox(a.spot, b.spot)
  <1>1. a.spot \in Int /\ b.spot \in Int /\ SameStore \in Nat
    BY ShopsAssumption DEF StoreRow, ShopOpening
  <1>2. QED
    BY <1>1 DEF LooksLikeSameStore, InBox, Metres

\* A request goes on; no shop, chain list or tolerance that matters changes.
LEMMA OpeningStepHolds ==
  ASSUME ShopsHold, NEW o \in Openings, NEW a \in AnyOpening, OpeningSet(o, a),
         opening[o].pc # "done", UNCHANGED <<store, tolerated, verdicts>>,
         chains' \subseteq Chains, hurried \subseteq hurried', hurried' \subseteq Founders,
         a.pc = "limit" => a.by # Curators,
         a.pc = "row" /\ a.by # Curators =>
           \A b \in Opened : ~(Standing(b) /\ LooksLikeSameStore(a, store[b]))
  PROVE  /\ ShopsTyped' /\ ShopTwinsKnown' /\ ShopTwinsWereRaced'
         /\ opening'[o] = a /\ \A p \in Openings \ {o} : opening'[p] = opening[p]
         /\ (a.pc \notin CountedAt \/ a.by = Curators
               \/ (opening[o].pc \in CountedAt /\ a.by = opening[o].by)) => StreetHasRoom'
  <1>1. /\ opening' \in [Openings -> AnyOpening] /\ opening'[o] = a
        /\ \A p \in Openings \ {o} : opening'[p] = opening[p]
    BY DEF ShopsHold, ShopsTyped, OpeningSet, AnyOpening
  <1>2. ShopsTyped'
    BY <1>1 DEF ShopsHold, ShopsTyped, AnyOpening
  <1>3. ShopTwinsKnown'
    BY <1>1 DEF ShopsHold, ShopTwinsKnown, NextTo, Opened, Standing
  <1>4. ShopTwinsWereRaced'
    BY DEF ShopsHold, ShopTwinsWereRaced, Opened, Standing
  <1>5. ASSUME a.pc \notin CountedAt \/ a.by = Curators
                 \/ (opening[o].pc \in CountedAt /\ a.by = opening[o].by)
        PROVE  StreetHasRoom'
    <2>1. ASSUME NEW u \in Founders PROVE OpeningBy(u)' \subseteq OpeningBy(u)
      BY <1>1, <1>5, ShopsAssumption DEF OpeningBy
    <2>2. ASSUME NEW u \in Founders PROVE OpenedBy(u)' = OpenedBy(u)
      BY DEF OpenedBy, Opened
    <2>3. QED
      BY <2>1, <2>2 DEF ShopsHold, StreetHasRoom
  <1>6. QED
    BY <1>1, <1>2, <1>3, <1>4, <1>5

LEMMA SentHolds ==
  ASSUME ShopsHold, NEW o \in Openings, Sent(o), opening[o].pc # "done",
         UNCHANGED <<store, tolerated, verdicts>>,
         chains' \subseteq Chains, hurried \subseteq hurried', hurried' \subseteq Founders
  PROVE  ShopsHold'
  <1>1. PICK a \in AnyOpening : a = Finished
    BY DEF AnyOpening
  <1>2. a.pc = "done" /\ OpeningSet(o, a)
    BY <1>1 DEF Sent, OpeningSet, Finished
  <1>3. ShopsTyped' /\ ShopTwinsKnown' /\ ShopTwinsWereRaced' /\ StreetHasRoom'
    BY <1>2, OpeningStepHolds DEF CountedAt
  <1>4. QED
    BY <1>3 DEF ShopsHold

LEMMA ComesOn ==
  ASSUME ShopsHold, NEW o \in Openings, NEW pc \in CountedAt, opening[o] \in ShopOpening, Comes(o, pc)
  PROVE  \E a \in ShopOpening :
           /\ OpeningSet(o, a) /\ a.pc = pc /\ a.by = opening[o].by /\ a.chain = opening[o].chain
           /\ a.spot = opening[o].spot
  <1>1. PICK b \in ShopOpening : b = opening[o]
    OBVIOUS
  <1>2. PICK a : a = [b EXCEPT !.pc = pc]
    OBVIOUS
  <1>3. a \in ShopOpening /\ a.pc = pc /\ a.by = b.by /\ a.chain = b.chain /\ a.spot = b.spot
    BY <1>2 DEF ShopOpening
  <1>4. OpeningSet(o, a)
    BY <1>1, <1>2 DEF Comes, OpeningSet, ShopsHold, ShopsTyped
  <1>5. QED
    BY <1>1, <1>3, <1>4

LEMMA LooksOnly ==
  ASSUME ShopsHold, Looks
  PROVE  UNCHANGED <<store, tolerated, verdicts>> /\ chains' \subseteq Chains
  BY DEF Looks, ShopsHold, ShopsTyped

LEMMA AskForShopHolds ==
  ASSUME ShopsHold, NEW o \in Openings, NEW body \in CreateStoreRequest, AskForShop(o, body)
  PROVE  ShopsHold'
  <1>1. PICK a : a = [pc |-> IF body.by = Curators THEN "chain" ELSE "limit", by |-> body.by,
          chain |-> body.chain, byName |-> body.byName, spot |-> body.spot, missed |-> {}]
    OBVIOUS
  <1>2. a \in ShopOpening /\ a.by = body.by /\ a.pc = IF body.by = Curators THEN "chain" ELSE "limit"
    BY <1>1 DEF ShopOpening, CountedAt, CreateStoreRequest
  <1>3. OpeningSet(o, a) /\ opening[o].pc = "new" /\ UNCHANGED hurried /\ Looks
    BY <1>1 DEF AskForShop, OpeningSet
  <1>4. a \in AnyOpening /\ (a.pc \notin CountedAt \/ a.by = Curators) /\ a.pc # "row"
        /\ (a.pc = "limit" => a.by # Curators)
    BY <1>2 DEF AnyOpening, CountedAt
  <1>5. hurried \subseteq hurried' /\ hurried' \subseteq Founders
    BY <1>3 DEF ShopsHold, ShopsTyped
  <1>6. ShopsTyped' /\ ShopTwinsKnown' /\ ShopTwinsWereRaced' /\ StreetHasRoom'
    BY <1>3, <1>4, <1>5, OpeningStepHolds, LooksOnly
  <1>7. QED
    BY <1>6 DEF ShopsHold

LEMMA CheckShopAllowanceHolds ==
  ASSUME ShopsHold, NEW o \in Openings, CheckShopAllowance(o)
  PROVE  ShopsHold'
  <1>1. opening[o].pc = "limit" /\ Looks /\ opening[o] \in AnyOpening /\ opening[o].by # Curators
    BY DEF CheckShopAllowance, ShopsHold, ShopsTyped, AnyOpening
  <1>2. opening[o] \in ShopOpening
    BY <1>1, Kinds
  <1>3. PICK u \in Founders : u = opening[o].by
    BY <1>1, <1>2 DEF ShopOpening
  <1>4. /\ \E limit \in StoreLimits(u) :
             IF Cardinality(OpenedBy(u)) >= limit THEN Sent(o) ELSE Comes(o, "chain")
        /\ hurried' = IF Hurrying(o) # {} THEN hurried \cup {u} ELSE hurried
    BY <1>3 DEF CheckShopAllowance
  <1>5. hurried \subseteq hurried' /\ hurried' \subseteq Founders
    BY <1>4 DEF ShopsHold, ShopsTyped
  <1>6. CASE Sent(o)
    BY <1>1, <1>5, <1>6, SentHolds, LooksOnly
  <1>7. ASSUME NEW limit \in StoreLimits(u), ~(Cardinality(OpenedBy(u)) >= limit), Comes(o, "chain")
        PROVE  ShopsHold'
    <2>1. PICK a \in ShopOpening : OpeningSet(o, a) /\ a.pc = "chain" /\ a.by = u
      BY <1>2, <1>3, <1>7, ComesOn DEF CountedAt
    <2>2. a \in AnyOpening
      BY DEF AnyOpening
    <2>3. /\ ShopsTyped' /\ ShopTwinsKnown' /\ ShopTwinsWereRaced'
          /\ opening'[o] = a /\ \A p \in Openings \ {o} : opening'[p] = opening[p]
      BY <1>1, <1>5, <2>1, <2>2, OpeningStepHolds, LooksOnly
    <2>4. \A v \in Founders : OpenedBy(v)' = OpenedBy(v)
      BY <1>1 DEF Looks, OpenedBy, Opened
    <2>5. Cardinality(OpenedBy(u)) < StoreLimit /\ Cardinality(OpenedBy(u)) <= StoreLimit
      <3>1. limit \in Nat /\ limit <= StoreLimit /\ StoreLimit \in Nat
        BY <1>7, ShopsAssumption DEF StoreLimits
      <3>2. Cardinality(OpenedBy(u)) \in Nat
        BY OpenedFinite
      <3>3. QED
        BY <1>7, <3>1, <3>2
    <2>6. u \notin hurried' => OpeningBy(u)' \subseteq {o}
      BY <1>3, <1>4, <2>3 DEF Hurrying, OpeningBy, CountedAt
    <2>7. \A v \in Founders \ {u} : OpeningBy(v)' = OpeningBy(v)
      BY <1>3, <2>1, <2>3 DEF OpeningBy
    <2>8. ASSUME NEW v \in Founders \ hurried'
          PROVE  /\ Cardinality(OpenedBy(v)') <= StoreLimit
                 /\ \A k, q \in OpeningBy(v)' : k = q
                 /\ OpeningBy(v)' # {} => Cardinality(OpenedBy(v)') < StoreLimit
      <3>1. CASE v = u
        BY <2>4, <2>5, <2>6, <2>8, <3>1
      <3>2. CASE v # u
        BY <1>5, <2>4, <2>7, <2>8, <3>2 DEF ShopsHold, StreetHasRoom
      <3>3. QED
        BY <3>1, <3>2
    <2>9. QED
      BY <2>3, <2>8 DEF ShopsHold, StreetHasRoom
  <1>8. QED
    BY <1>4, <1>6, <1>7

\* A request of the count that goes on, short of adding its shop.
LEMMA CountedHolds ==
  ASSUME ShopsHold, NEW o \in Openings, NEW pc \in CountedAt, opening[o] \in ShopOpening,
         opening[o].pc \in CountedAt, Comes(o, pc),
         UNCHANGED <<store, tolerated, verdicts, hurried>>, chains' \subseteq Chains,
         pc = "row" /\ opening[o].by # Curators =>
           \A b \in Opened : ~(Standing(b) /\ LooksLikeSameStore(opening[o], store[b]))
  PROVE  ShopsHold'
  <1>1. PICK a \in ShopOpening :
          /\ OpeningSet(o, a) /\ a.pc = pc /\ a.by = opening[o].by /\ a.chain = opening[o].chain
          /\ a.spot = opening[o].spot
    BY ComesOn
  <1>2. a \in AnyOpening /\ opening[o].pc # "done" /\ a.pc # "limit"
    BY <1>1 DEF AnyOpening, CountedAt
  <1>3. a.pc = "row" /\ a.by # Curators =>
          \A b \in Opened : ~(Standing(b) /\ LooksLikeSameStore(a, store[b]))
    BY <1>1 DEF LooksLikeSameStore
  <1>4. hurried \subseteq hurried' /\ hurried' \subseteq Founders
    BY DEF ShopsHold, ShopsTyped
  <1>5. ShopsTyped' /\ ShopTwinsKnown' /\ ShopTwinsWereRaced' /\ StreetHasRoom'
    BY <1>1, <1>2, <1>3, <1>4, OpeningStepHolds
  <1>6. QED
    BY <1>5 DEF ShopsHold

LEMMA ReadChainHolds ==
  ASSUME ShopsHold, NEW o \in Openings, ReadChain(o)
  PROVE  ShopsHold'
  <1>1. opening[o].pc = "chain" /\ Looks /\ UNCHANGED hurried /\ opening[o] \in AnyOpening
    BY DEF ReadChain, ShopsHold, ShopsTyped, AnyOpening
  <1>2. opening[o] \in ShopOpening
    BY <1>1, Kinds DEF CountedAt
  <1>3. hurried \subseteq hurried' /\ hurried' \subseteq Founders
    BY <1>1 DEF ShopsHold, ShopsTyped
  <1>4. \/ Sent(o) \/ Comes(o, "list") \/ Comes(o, "twin")
        \/ opening[o].by = Curators /\ Comes(o, "row")
    BY DEF ReadChain
  <1>5. CASE Sent(o)
    BY <1>1, <1>3, <1>5, SentHolds, LooksOnly
  <1>6. CASE Comes(o, "list")
    BY <1>1, <1>2, <1>6, CountedHolds, LooksOnly DEF CountedAt
  <1>7. CASE Comes(o, "twin")
    BY <1>1, <1>2, <1>7, CountedHolds, LooksOnly DEF CountedAt
  <1>8. CASE opening[o].by = Curators /\ Comes(o, "row")
    BY <1>1, <1>2, <1>8, CountedHolds, LooksOnly DEF CountedAt
  <1>9. QED
    BY <1>4, <1>5, <1>6, <1>7, <1>8

LEMMA CreateChainHolds ==
  ASSUME ShopsHold, NEW o \in Openings, CreateChain(o)
  PROVE  ShopsHold'
  <1>1. /\ opening[o].pc = "list" /\ UNCHANGED <<store, tolerated, hurried, verdicts>>
        /\ opening[o] \in AnyOpening
    BY DEF CreateChain, ShopsHold, ShopsTyped, AnyOpening
  <1>2. opening[o] \in ShopOpening
    BY <1>1, Kinds DEF CountedAt
  <1>3. chains' \subseteq Chains /\ hurried \subseteq hurried' /\ hurried' \subseteq Founders
    BY <1>1, <1>2 DEF CreateChain, ShopOpening, ShopsHold, ShopsTyped
  <1>4. CASE Sent(o)
    BY <1>1, <1>3, <1>4, SentHolds
  <1>5. CASE Comes(o, "twin")
    BY <1>1, <1>2, <1>3, <1>5, CountedHolds DEF CountedAt
  <1>6. QED
    BY <1>4, <1>5 DEF CreateChain

\* The box of the search holds every shop that could be the same.
LEMMA CheckShopTwinHolds ==
  ASSUME ShopsHold, NEW o \in Openings, CheckShopTwin(o)
  PROVE  ShopsHold'
  <1>1. opening[o].pc = "twin" /\ Looks /\ UNCHANGED hurried /\ opening[o] \in AnyOpening
    BY DEF CheckShopTwin, ShopsHold, ShopsTyped, AnyOpening
  <1>2. opening[o] \in ShopOpening
    BY <1>1, Kinds DEF CountedAt
  <1>3. hurried \subseteq hurried' /\ hurried' \subseteq Founders
    BY <1>1 DEF ShopsHold, ShopsTyped
  <1>4. CASE Sent(o)
    BY <1>1, <1>3, <1>4, SentHolds, LooksOnly
  <1>5. CASE ~Sent(o)
    <2>1. Comes(o, "row")
      BY <1>5 DEF CheckShopTwin
    <2>2. ASSUME NEW b \in Opened, Standing(b), LooksLikeSameStore(opening[o], store[b])
          PROVE  FALSE
      <3>1. store[b] \in StoreRow
        BY <2>2 DEF Opened, NoStore, ShopsHold, ShopsTyped
      <3>2. InBox(opening[o].spot, store[b].spot)
        BY <1>2, <2>2, <3>1, LooksBothWays
      <3>3. QED
        BY <1>5, <2>2, <3>2 DEF CheckShopTwin
    <2>3. QED
      BY <1>1, <1>2, <2>1, <2>2, CountedHolds, LooksOnly DEF CountedAt
  <1>6. QED
    BY <1>4, <1>5

LEMMA ChainRequestHolds ==
  ASSUME ShopsHold, NEW o \in Openings,
         FindSlug(o) \/ CreateSupermarket(o) \/ \E chain \in Chains : AskForChain(o, chain)
  PROVE  ShopsHold'
  <1>1. CASE CreateSupermarket(o)
    <2>1. /\ opening[o].pc = "found" /\ UNCHANGED <<store, tolerated, hurried, verdicts>> /\ Sent(o)
          /\ opening[o] \in AnyOpening /\ chains' = chains \cup {opening[o].chain}
      BY <1>1 DEF CreateSupermarket, ShopsHold, ShopsTyped, AnyOpening
    <2>2. opening[o].chain \in Chains
      BY <2>1, Kinds DEF ChainOpening
    <2>3. chains' \subseteq Chains /\ hurried \subseteq hurried' /\ hurried' \subseteq Founders
      BY <2>1, <2>2 DEF ShopsHold, ShopsTyped
    <2>4. QED
      BY <2>1, <2>3, SentHolds
  <1>2. ASSUME NEW a \in ChainOpening, OpeningSet(o, a), opening[o].pc # "done", UNCHANGED hurried, Looks
        PROVE  ShopsHold'
    <2>1. a \in AnyOpening /\ a.pc \notin CountedAt /\ a.pc # "limit" /\ a.pc # "row"
      BY DEF AnyOpening, ChainOpening, CountedAt
    <2>2. hurried \subseteq hurried' /\ hurried' \subseteq Founders
      BY <1>2 DEF ShopsHold, ShopsTyped
    <2>3. ShopsTyped' /\ ShopTwinsKnown' /\ ShopTwinsWereRaced' /\ StreetHasRoom'
      BY <1>2, <2>1, <2>2, OpeningStepHolds, LooksOnly
    <2>4. QED
      BY <2>3 DEF ShopsHold
  <1>3. CASE FindSlug(o)
    <2>1. opening[o].pc = "slug" /\ UNCHANGED hurried /\ Looks /\ opening[o] \in AnyOpening
      BY <1>3 DEF FindSlug, ShopsHold, ShopsTyped, AnyOpening
    <2>2. CASE Sent(o)
      <3>1. hurried \subseteq hurried' /\ hurried' \subseteq Founders
        BY <2>1 DEF ShopsHold, ShopsTyped
      <3>2. QED
        BY <2>1, <2>2, <3>1, SentHolds, LooksOnly
    <2>3. CASE Comes(o, "found")
      <3>1. PICK b \in ChainOpening : b = opening[o]
        BY <2>1, Kinds
      <3>2. PICK a : a = [b EXCEPT !.pc = "found"]
        OBVIOUS
      <3>3. a \in ChainOpening
        BY <3>2 DEF ChainOpening
      <3>4. OpeningSet(o, a)
        BY <2>3, <3>1, <3>2 DEF Comes, OpeningSet, ShopsHold, ShopsTyped
      <3>5. QED
        BY <1>2, <2>1, <3>3, <3>4
    <2>4. QED
      BY <1>3, <2>2, <2>3 DEF FindSlug
  <1>4. ASSUME NEW chain \in Chains, AskForChain(o, chain) PROVE ShopsHold'
    <2>1. PICK a : a = [pc |-> "slug", chain |-> chain]
      OBVIOUS
    <2>2. a \in ChainOpening
      BY <2>1 DEF ChainOpening
    <2>3. OpeningSet(o, a) /\ opening[o].pc # "done" /\ UNCHANGED hurried /\ Looks
      BY <1>4, <2>1 DEF AskForChain, OpeningSet
    <2>4. QED
      BY <1>2, <2>2, <2>3
  <1>5. QED
    BY <1>1, <1>3, <1>4

-----------------------------------------------------------------------------
(***************************************************************************)
(* The row of the shop, and what becomes of it.                            *)
(***************************************************************************)
LEMMA CreateStoreHolds ==
  ASSUME ShopsHold, NEW o \in Openings, CreateStore(o)
  PROVE  ShopsHold'
  <1>1. opening[o].pc = "row" /\ opening[o] \in AnyOpening
    BY DEF CreateStore, ShopsHold, ShopsTyped, AnyOpening
  <1>2. PICK a \in ShopOpening : a = opening[o] /\ a.pc = "row"
    BY <1>1, Kinds DEF CountedAt
  <1>3. PICK m : m = IF a.by = Curators THEN Opened ELSE a.missed
    OBVIOUS
  <1>4. m \subseteq Branches
    BY <1>3 DEF ShopOpening, Opened
  <1>5. PICK new \in StoreRow :
          /\ new = [by |-> a.by, chain |-> a.chain, spot |-> a.spot, status |-> "ACTIVE"]
          /\ new.by = a.by /\ new.chain = a.chain /\ new.spot = a.spot /\ new.status = "ACTIVE"
    <2>1. a.by \in Founders \cup {Curators} /\ a.chain \in Chains /\ a.spot \in Spots
      BY DEF ShopOpening
    <2>2. [by |-> a.by, chain |-> a.chain, spot |-> a.spot, status |-> "ACTIVE"] \in StoreRow
      BY <2>1 DEF StoreRow
    <2>3. QED
      BY <2>2
  <1>6. /\ store' = [store EXCEPT ![o] = new] /\ tolerated' = tolerated \cup ({o} \X m)
        /\ opening' = [p \in Openings |->
              IF p = o THEN Finished
              ELSE IF opening[p].pc = "row" THEN [opening[p] EXCEPT !.missed = @ \cup {o}]
              ELSE opening[p]]
        /\ UNCHANGED <<chains, hurried, verdicts>>
    BY <1>2, <1>3, <1>5 DEF CreateStore
  <1>7. /\ o \in Branches /\ store[o] = NoStore /\ o \notin Opened
        /\ store' \in [Branches -> StoreRow \cup {NoStore}]
        /\ store'[o] = new /\ \A b \in Branches \ {o} : store'[b] = store[b]
    BY <1>1, <1>6, ShopsAssumption DEF ShopsHold, ShopsTyped, Opened, NoStore
  <1>8. Finished.pc = "done" /\ opening'[o] = Finished
    BY <1>6 DEF Finished
  <1>9. ASSUME NEW p \in Openings \ {o}
        PROVE  /\ opening'[p] \in AnyOpening /\ opening'[p].pc = opening[p].pc
               /\ opening[p].pc \notin CountedAt => opening'[p] = opening[p]
               /\ opening[p].pc \in CountedAt => opening'[p].by = opening[p].by
               /\ opening[p].pc = "row" =>
                    /\ opening'[p].by = opening[p].by /\ opening'[p].chain = opening[p].chain
                    /\ opening'[p].spot = opening[p].spot
                    /\ opening'[p].missed = opening[p].missed \cup {o}
    <2>1. opening[p] \in AnyOpening
      BY DEF ShopsHold, ShopsTyped, AnyOpening
    <2>2. CASE opening[p].pc = "row"
      <3>1. PICK b \in ShopOpening : b = opening[p]
        BY <2>1, <2>2, Kinds DEF CountedAt
      <3>2. opening'[p] = [b EXCEPT !.missed = @ \cup {o}]
        BY <1>6, <2>2, <3>1
      <3>3. /\ opening'[p] \in ShopOpening /\ opening'[p].pc = b.pc /\ opening'[p].by = b.by
            /\ opening'[p].chain = b.chain /\ opening'[p].spot = b.spot
            /\ opening'[p].missed = b.missed \cup {o}
        BY <1>7, <3>1, <3>2 DEF ShopOpening
      <3>4. QED
        BY <2>2, <3>1, <3>3 DEF AnyOpening, CountedAt
    <2>3. CASE opening[p].pc # "row"
      BY <1>6, <2>1, <2>3
    <2>4. QED
      BY <2>2, <2>3
  <1>10. ShopsTyped'
    <2>1. opening' \in [Openings -> AnyOpening]
      <3>1. ASSUME NEW p \in Openings PROVE opening'[p] \in AnyOpening
        <4>1. CASE p = o
          BY <1>8, <4>1 DEF AnyOpening
        <4>2. QED
          BY <1>9, <4>1
      <3>2. QED
        BY <1>6, <3>1
    <2>2. ASSUME NEW p \in Openings
          PROVE  /\ opening'[p].pc # "done" => store'[p] = NoStore
                 /\ opening'[p].pc = "limit" => opening'[p].by # Curators
      <3>1. CASE p = o
        BY <1>8, <3>1
      <3>2. CASE p # o
        BY <1>7, <1>9, <3>2, ShopsAssumption DEF ShopsHold, ShopsTyped, CountedAt
      <3>3. QED
        BY <3>1, <3>2
    <2>3. tolerated' \subseteq Branches \X Branches
      BY <1>4, <1>6, <1>7 DEF ShopsHold, ShopsTyped
    <2>4. QED
      BY <1>6, <1>7, <2>1, <2>2, <2>3 DEF ShopsHold, ShopsTyped, AnyOpening
  <1>11. \A b \in Branches \ {o} : /\ b \in Opened' <=> b \in Opened
                                   /\ Standing(b)' <=> Standing(b)
    BY <1>7 DEF Opened, Standing
  <1>12. ShopTwinsKnown'
    <2>1. SUFFICES ASSUME NEW p \in Openings, NEW b \in Branches,
                          opening'[p].pc = "row", opening'[p].by # Curators, b \in Opened', Standing(b)',
                          LooksLikeSameStore(opening[p], store[b])'
                   PROVE  NextTo(opening[p], b)'
      BY DEF ShopTwinsKnown
    <2>2. p # o /\ opening[p].pc = "row"
      BY <1>8, <1>9, <2>1
    <2>3. CASE b = o
      BY <1>9, <2>2, <2>3 DEF NextTo
    <2>4. CASE b # o
      <3>1. LooksLikeSameStore(opening[p], store[b]) /\ opening[p].by # Curators
        BY <1>7, <1>9, <2>1, <2>2, <2>4 DEF LooksLikeSameStore
      <3>2. NextTo(opening[p], b)
        BY <1>11, <2>1, <2>2, <2>4, <3>1 DEF ShopsHold, ShopTwinsKnown
      <3>3. QED
        BY <1>6, <1>9, <2>2, <3>2 DEF NextTo
    <2>5. QED
      BY <2>3, <2>4
  <1>13. ShopTwinsWereRaced'
    <2>1. ASSUME NEW b \in Opened, b # o, Standing(b), LooksLikeSameStore(a, store[b])
          PROVE  <<o, b>> \in tolerated' \/ <<b, o>> \in tolerated'
      <3>1. CASE a.by = Curators
        BY <1>3, <1>6, <2>1, <3>1
      <3>2. CASE a.by # Curators
        <4>1. NextTo(a, b)
          BY <1>2, <2>1, <3>2 DEF ShopsHold, ShopTwinsKnown, Opened
        <4>2. QED
          BY <1>3, <1>6, <1>7, <3>2, <4>1 DEF NextTo
      <3>3. QED
        BY <3>1, <3>2
    <2>2. SUFFICES ASSUME NEW b \in Branches, NEW c \in Branches, b \in Opened', c \in Opened', b # c,
                          Standing(b)', Standing(c)', LooksLikeSameStore(store[b], store[c])'
                   PROVE  <<b, c>> \in tolerated' \/ <<c, b>> \in tolerated'
      BY DEF ShopTwinsWereRaced, Opened
    <2>3. CASE b = o
      <3>1. c \in Opened /\ Standing(c) /\ LooksLikeSameStore(a, store[c])
        BY <1>5, <1>7, <1>11, <2>2, <2>3 DEF LooksLikeSameStore
      <3>2. QED
        BY <2>1, <2>2, <2>3, <3>1
    <2>4. CASE c = o
      <3>1. b \in Opened /\ Standing(b) /\ LooksLikeSameStore(store[b], a)
        BY <1>5, <1>7, <1>11, <2>2, <2>4 DEF LooksLikeSameStore
      <3>2. store[b] \in StoreRow
        BY <3>1 DEF Opened, NoStore, ShopsHold, ShopsTyped
      <3>3. LooksLikeSameStore(a, store[b])
        BY <3>1, <3>2, LooksBothWays
      <3>4. QED
        BY <2>1, <2>2, <2>4, <3>1, <3>3
    <2>5. CASE b # o /\ c # o
      <3>1. b \in Opened /\ c \in Opened /\ Standing(b) /\ Standing(c) /\ LooksLikeSameStore(store[b], store[c])
        BY <1>7, <1>11, <2>2, <2>5
      <3>2. QED
        BY <1>6, <2>2, <3>1 DEF ShopsHold, ShopTwinsWereRaced
    <2>6. QED
      BY <2>3, <2>4, <2>5
  <1>14. StreetHasRoom'
    <2>1. ASSUME NEW u \in Founders \ hurried', u # a.by
          PROVE  OpenedBy(u)' = OpenedBy(u) /\ OpeningBy(u)' \subseteq OpeningBy(u)
      <3>1. OpenedBy(u)' = OpenedBy(u)
        BY <1>5, <1>7, <2>1 DEF OpenedBy, Opened
      <3>2. OpeningBy(u)' \subseteq OpeningBy(u)
        BY <1>8, <1>9 DEF OpeningBy, CountedAt
      <3>3. QED
        BY <3>1, <3>2
    <2>2. ASSUME NEW u \in Founders \ hurried', u = a.by
          PROVE  OpeningBy(u)' = {} /\ Cardinality(OpenedBy(u)') <= StoreLimit
      <3>1. o \in OpeningBy(u) /\ u \notin hurried
        BY <1>2, <1>6, <2>2 DEF OpeningBy, CountedAt
      <3>2. OpeningBy(u) \subseteq {o} /\ Cardinality(OpenedBy(u)) < StoreLimit
        BY <3>1 DEF ShopsHold, StreetHasRoom
      <3>3. OpeningBy(u)' = {}
        BY <1>8, <1>9, <3>2 DEF OpeningBy, CountedAt
      <3>4. OpenedBy(u)' = OpenedBy(u) \cup {o} /\ o \notin OpenedBy(u)
        BY <1>5, <1>7, <2>2 DEF OpenedBy, Opened
      <3>5. Cardinality(OpenedBy(u)') = Cardinality(OpenedBy(u)) + 1
        BY <3>4, OpenedFinite, FS_AddElement
      <3>6. Cardinality(OpenedBy(u)) \in Nat /\ StoreLimit \in Nat
        BY OpenedFinite, ShopsAssumption
      <3>7. QED
        BY <3>2, <3>3, <3>5, <3>6
    <2>3. ASSUME NEW u \in Founders \ hurried'
          PROVE  /\ Cardinality(OpenedBy(u)') <= StoreLimit
                 /\ \A p, q \in OpeningBy(u)' : p = q
                 /\ OpeningBy(u)' # {} => Cardinality(OpenedBy(u)') < StoreLimit
      <3>1. CASE u = a.by
        BY <2>2, <2>3, <3>1
      <3>2. CASE u # a.by
        BY <1>6, <2>1, <2>3, <3>2 DEF ShopsHold, StreetHasRoom
      <3>3. QED
        BY <3>1, <3>2
    <2>4. QED
      BY <2>3 DEF StreetHasRoom
  <1>15. QED
    BY <1>10, <1>12, <1>13, <1>14 DEF ShopsHold

LEMMA JudgeShopHolds ==
  ASSUME ShopsHold, NEW b \in Branches, NEW status \in {"ACTIVE", "UNDER_REVIEW", "HIDDEN"},
         JudgeShop(b, status)
  PROVE  ShopsHold'
  <1>1. /\ b \in Opened /\ tolerated' = tolerated \cup ({b} \X Branches)
        /\ UNCHANGED <<chains, opening, hurried>> /\ verdicts' = verdicts - 1 /\ verdicts > 0
    BY DEF JudgeShop
  <1>2. PICK was \in StoreRow : was = store[b]
    BY <1>1 DEF Opened, NoStore, ShopsHold, ShopsTyped
  <1>3. PICK new : new = [was EXCEPT !.status = status]
    OBVIOUS
  <1>4. new \in StoreRow /\ new.by = was.by /\ new.status = status
    BY <1>3 DEF StoreRow
  <1>5. store' = [store EXCEPT ![b] = new]
    BY <1>2, <1>3 DEF JudgeShop, ShopsHold, ShopsTyped
  <1>6. /\ store' \in [Branches -> StoreRow \cup {NoStore}] /\ store'[b] = new
        /\ \A c \in Branches \ {b} : store'[c] = store[c]
    BY <1>4, <1>5 DEF ShopsHold, ShopsTyped
  <1>7. ShopsTyped'
    <2>1. ASSUME NEW o \in Openings, opening[o].pc # "done" PROVE store'[o] = NoStore
      BY <1>1, <1>6, <2>1, ShopsAssumption DEF Opened, NoStore, ShopsHold, ShopsTyped
    <2>2. tolerated' \subseteq Branches \X Branches /\ verdicts' \in 0 .. MaxVerdicts
      BY <1>1, ShopsAssumption DEF ShopsHold, ShopsTyped
    <2>3. QED
      BY <1>1, <1>6, <2>1, <2>2 DEF ShopsHold, ShopsTyped
  <1>8. \A c \in Branches \ {b} : /\ c \in Opened' <=> c \in Opened
                                  /\ Standing(c)' <=> Standing(c)
    BY <1>6 DEF Opened, Standing
  <1>9. ShopTwinsKnown'
    <2>1. SUFFICES ASSUME NEW o \in Openings, NEW c \in Branches, opening[o].pc = "row",
                          opening[o].by # Curators, c \in Opened', Standing(c)',
                          LooksLikeSameStore(opening[o], store'[c])
                   PROVE  c \in opening[o].missed \/ \A d \in Branches : <<c, d>> \in tolerated'
      BY <1>1 DEF ShopTwinsKnown, NextTo
    <2>2. CASE c = b
      BY <1>1, <2>2
    <2>3. CASE c # b
      <3>1. NextTo(opening[o], c)
        BY <1>6, <1>8, <2>1, <2>3 DEF ShopsHold, ShopTwinsKnown
      <3>2. QED
        BY <1>1, <3>1 DEF NextTo
    <2>4. QED
      BY <2>2, <2>3
  <1>10. ShopTwinsWereRaced'
    <2>1. SUFFICES ASSUME NEW c \in Branches, NEW d \in Branches, c \in Opened', d \in Opened', c # d,
                          Standing(c)', Standing(d)', LooksLikeSameStore(store[c], store[d])'
                   PROVE  <<c, d>> \in tolerated' \/ <<d, c>> \in tolerated'
      BY DEF ShopTwinsWereRaced, Opened
    <2>2. CASE c = b \/ d = b
      BY <1>1, <2>1, <2>2
    <2>3. CASE c # b /\ d # b
      BY <1>1, <1>6, <1>8, <2>1, <2>3 DEF ShopsHold, ShopTwinsWereRaced
    <2>4. QED
      BY <2>2, <2>3
  <1>11. StreetHasRoom'
    <2>1. ASSUME NEW u PROVE OpenedBy(u)' = OpenedBy(u)
      <3>1. b \in Opened'
        BY <1>4, <1>6 DEF Opened
      <3>2. QED
        BY <1>1, <1>2, <1>4, <1>6, <1>8, <3>1 DEF OpenedBy, Opened
    <2>2. QED
      BY <1>1, <2>1 DEF ShopsHold, StreetHasRoom, OpeningBy
  <1>12. QED
    BY <1>7, <1>9, <1>10, <1>11 DEF ShopsHold

LEMMA ShopsStart ==
  ASSUME ShopsInit PROVE ShopsHold
  <1> DEFINE Old == Branches \ Openings
  <1>1. PICK made \in [Old -> [by : Founders \cup {Curators}, chain : Chains, spot : Spots, status : {"ACTIVE"}]] :
          /\ store = [b \in Branches |-> IF b \in Openings THEN NoStore ELSE made[b]]
          /\ chains = {made[b].chain : b \in Old}
    BY DEF ShopsInit
  <1>2. /\ \A u \in Founders : Cardinality({b \in Old : store[b].by = u}) <= StoreLimit
        /\ opening = [o \in Openings |-> Closed] /\ tolerated = Old \X Old
        /\ hurried = {} /\ verdicts = MaxVerdicts
    BY DEF ShopsInit
  <1>3. NoStore.status = "NONE" /\ Closed.pc = "new"
    BY DEF NoStore, Closed
  <1>4. ASSUME NEW b \in Old
        PROVE  store[b] \in StoreRow /\ store[b].status = "ACTIVE" /\ made[b].chain \in Chains
    <2>1. store[b] = made[b] /\ made[b] \in [by : Founders \cup {Curators}, chain : Chains,
                                            spot : Spots, status : {"ACTIVE"}]
      BY <1>1
    <2>2. QED
      BY <2>1 DEF StoreRow
  <1>5. \A o \in Openings : o \in Branches /\ store[o] = NoStore
    BY <1>1, ShopsAssumption
  <1>6. Opened = Old
    BY <1>3, <1>4, <1>5 DEF Opened
  <1>7. ShopsTyped
    <2>1. store \in [Branches -> StoreRow \cup {NoStore}]
      BY <1>1, <1>4, <1>5
    <2>2. QED
      BY <1>1, <1>2, <1>3, <1>4, <1>5, <2>1, ShopsAssumption DEF ShopsTyped
  <1>8. ShopTwinsKnown
    BY <1>2, <1>3 DEF ShopTwinsKnown
  <1>9. ShopTwinsWereRaced
    BY <1>2, <1>6 DEF ShopTwinsWereRaced
  <1>10. StreetHasRoom
    <2>1. \A u \in Founders : OpeningBy(u) = {} /\ OpenedBy(u) = {b \in Old : store[b].by = u}
      BY <1>2, <1>3, <1>6 DEF OpeningBy, OpenedBy, CountedAt
    <2>2. QED
      BY <1>2, <2>1 DEF StreetHasRoom
  <1>11. QED
    BY <1>7, <1>8, <1>9, <1>10 DEF ShopsHold

LEMMA ShopsKeep ==
  ASSUME ShopsHold, [ShopsNext]_shopVars PROVE ShopsHold'
  <1>1. CASE UNCHANGED shopVars
    <2>1. UNCHANGED <<store, chains, opening, tolerated, hurried, verdicts>>
      BY <1>1 DEF shopVars
    <2>2. ShopsTyped'
      BY <2>1 DEF ShopsHold, ShopsTyped
    <2>3. ShopTwinsKnown' /\ ShopTwinsWereRaced'
      BY <2>1 DEF ShopsHold, ShopTwinsKnown, ShopTwinsWereRaced, NextTo, Opened, Standing
    <2>4. StreetHasRoom'
      BY <2>1 DEF ShopsHold, StreetHasRoom, OpeningBy, OpenedBy, Opened
    <2>5. QED
      BY <2>2, <2>3, <2>4 DEF ShopsHold
  <1>2. ASSUME NEW o \in Openings, OpeningStep(o) PROVE ShopsHold'
    BY <1>2, CheckShopAllowanceHolds, ReadChainHolds, CreateChainHolds, CheckShopTwinHolds,
       CreateStoreHolds, ChainRequestHolds DEF OpeningStep
  <1>3. QED
    BY <1>1, <1>2, AskForShopHolds, ChainRequestHolds, JudgeShopHolds DEF ShopsNext

LEMMA ShopsTypes == ShopsHold => ShopsTypeOK
  <1>1. SUFFICES ASSUME ShopsHold PROVE ShopsTypeOK
    OBVIOUS
  <1>2. ASSUME NEW o \in Openings
        PROVE  opening[o].pc \in {"new", "limit", "chain", "list", "twin", "row", "slug", "found", "done"}
    <2>1. opening[o] \in AnyOpening
      BY <1>1 DEF ShopsHold, ShopsTyped, AnyOpening
    <2>2. QED
      BY <2>1 DEF AnyOpening, ShopOpening, ChainOpening, Closed, Finished, CountedAt
  <1>3. QED
    BY <1>1, <1>2 DEF ShopsHold, ShopsTyped, ShopsTypeOK

\* Requests, shops and what goes with them keep their types.
THEOREM ShopsAreTyped == ShopsSpec => []ShopsTypeOK
  BY ShopsStart, ShopsKeep, ShopsTypes, PTL DEF ShopsSpec

\* Two shops of one chain within a few metres of each other were added past
\* each other, by the team, or one was judged: whoever looks finds a shop that
\* is there already, under review or not, because the box of the search holds it.
THEOREM ShopTwinsAreRaces == ShopsSpec => []ShopTwinsWereRaced
  <1>1. ShopsHold => ShopTwinsWereRaced
    BY DEF ShopsHold
  <1>2. QED
    BY ShopsStart, ShopsKeep, <1>1, PTL DEF ShopsSpec

\* Whoever never had two additions past the count at once is within the limit.
THEOREM ShopLimitIsRaced == ShopsSpec => []ShopLimitWasRaced
  <1>1. ShopsHold => ShopLimitWasRaced
    BY DEF ShopsHold, StreetHasRoom, ShopLimitWasRaced
  <1>2. QED
    BY ShopsStart, ShopsKeep, <1>1, PTL DEF ShopsSpec

-----------------------------------------------------------------------------
(***************************************************************************)
(* ShoppingList: types.  A start carries a trip's id, if any.              *)
(***************************************************************************)
Named == ItemIds \cup TripIds \cup {NoId}
Positions == [ItemIds -> Nat]

TripRow == [id : TripIds \cup {NoId}, open : BOOLEAN, ofList : BOOLEAN, lines : SUBSET ItemIds]

RequestType ==
    [pc : {"ready", "load", "replay", "max", "insert", "write", "start"},
     op : {"none", "add", "update", "remove", "reorder", "duplicate", "delete", "start"},
     id : Named, seen : Positions, last : Nat, order : Positions, answer : 0 .. MaxTrips]

StartOf(q) == q.op = "start" \/ q.pc = "start" => q.op = "start" /\ q.id \in TripIds \cup {NoId}

RequestsTyped == request \in [Requests -> RequestType] /\ \A r \in Requests : StartOf(request[r])

TripsTyped ==
    /\ trip \in Seq(TripRow) /\ Len(trip) <= MaxTrips
    /\ RequestsTyped
    /\ list \in [there : BOOLEAN, at : Positions]
    /\ copy = NoId \/ copy \subseteq ItemIds
    /\ turns \in 0 .. MaxTurns

\* The list's lock: a trip is started only where none is open, and an id that
\* names a trip starts no other.
StartsApart ==
    /\ \A m, n \in OpenTrips : m = n
    /\ \A m, n \in DOMAIN trip : m # n /\ trip[m].id = trip[n].id => trip[m].id = NoId

RequestSet(r, q) == request' = [request EXCEPT ![r] = q]

LEMMA RequestsKept ==
  ASSUME RequestsTyped, NEW r \in Requests, NEW q \in RequestType, StartOf(q), RequestSet(r, q)
  PROVE  RequestsTyped'
  <1>1. request' \in [Requests -> RequestType]
    BY DEF RequestsTyped, RequestSet
  <1>2. ASSUME NEW s \in Requests PROVE StartOf(request'[s])
    BY DEF RequestsTyped, RequestSet
  <1>3. QED
    BY <1>1, <1>2 DEF RequestsTyped

LEMMA ReadyTyped == Ready \in RequestType /\ Ready.op = "none" /\ Ready.pc = "ready"
  <1>1. NoItems \in Positions
    BY DEF NoItems, Positions
  <1>2. 0 \in Nat /\ 0 \in 0 .. MaxTrips /\ NoId \in Named
    BY ListAssumption DEF Named
  <1>3. QED
    BY <1>1, <1>2 DEF Ready, RequestType

LEMMA RequestEnds ==
  ASSUME RequestsTyped, NEW r \in Requests, NEW n \in 0 .. MaxTrips, End(r, n)
  PROVE  RequestsTyped'
  <1>1. PICK b \in RequestType : b = Ready /\ b.op = "none" /\ b.pc = "ready"
    BY ReadyTyped
  <1>2. PICK q : q = [b EXCEPT !.answer = n]
    OBVIOUS
  <1>3. q \in RequestType /\ q.op = "none" /\ q.pc = "ready"
    BY <1>1, <1>2 DEF RequestType
  <1>4. StartOf(q) /\ RequestSet(r, q)
    BY <1>1, <1>2, <1>3 DEF End, StartOf, RequestSet
  <1>5. QED
    BY <1>3, <1>4, RequestsKept

\* A request goes on, is asked, or ends; none gets another id on the way.
LEMMA ListKeepsRequests ==
  ASSUME TripsTyped, [ListNext]_listVars
  PROVE  RequestsTyped'
  <1> USE DEF TripsTyped
  <1>1. CASE UNCHANGED request
    BY <1>1 DEF RequestsTyped
  <1>2. 0 \in 0 .. MaxTrips /\ DOMAIN trip \subseteq 0 .. MaxTrips
        /\ (Len(trip) < MaxTrips => Len(trip) + 1 \in 0 .. MaxTrips)
    BY ListAssumption
  <1>3. ASSUME NEW r \in Requests, NEW id \in Named, NEW order \in Positions,
               NEW op \in {"add", "update", "remove", "reorder", "duplicate", "delete", "start"},
               op = "start" => id \in TripIds \cup {NoId}, Ask(r, op, id, order)
        PROVE  RequestsTyped'
    <2>1. PICK pc \in {"replay", "load"} : pc = IF op = "start" /\ id # NoId THEN "replay" ELSE "load"
      OBVIOUS
    <2>2. PICK b \in RequestType : b = Ready
      BY ReadyTyped
    <2>3. PICK q : q = [b EXCEPT !.pc = pc, !.op = op, !.id = id, !.order = order]
      OBVIOUS
    <2>4. q \in RequestType /\ q.pc = pc /\ q.op = op /\ q.id = id
      BY <2>3 DEF RequestType
    <2>5. RequestSet(r, q)
      BY <1>3, <2>1, <2>2, <2>3 DEF Ask, RequestSet
    <2>6. StartOf(q)
      BY <1>3, <2>4 DEF StartOf
    <2>7. QED
      BY <2>4, <2>5, <2>6, RequestsKept
  <1>4. ASSUME NEW r \in Requests, NEW pc \in {"max", "write", "start"},
               pc = "start" <=> request[r].op = "start",
               request' = [request EXCEPT ![r].pc = pc, ![r].seen = list.at]
        PROVE  RequestsTyped'
    <2>1. PICK b \in RequestType : b = request[r] /\ StartOf(b)
      BY DEF RequestsTyped
    <2>2. PICK q : q = [b EXCEPT !.pc = pc, !.seen = list.at]
      OBVIOUS
    <2>3. q \in RequestType /\ q.pc = pc /\ q.op = b.op /\ q.id = b.id
      BY <2>2 DEF RequestType
    <2>4. RequestSet(r, q)
      BY <1>4, <2>1, <2>2 DEF RequestsTyped, RequestSet
    <2>5. StartOf(q)
      BY <1>4, <2>1, <2>3 DEF StartOf
    <2>6. QED
      BY <2>3, <2>4, <2>5, RequestsKept
  <1>5. ASSUME NEW r \in Requests, LoadList(r) PROVE RequestsTyped'
    <2>1. \/ End(r, 0)
          \/ \E pc \in {"max", "write", "start"} :
               /\ pc = "start" <=> request[r].op = "start"
               /\ request' = [request EXCEPT ![r].pc = pc, ![r].seen = list.at]
      <3>1. PICK next : /\ next = CASE request[r].op = "add" ->
                                        IF request[r].id \in Items(list) \/ Cardinality(Items(list)) >= MaxItems
                                        THEN "end" ELSE "max"
                          [] request[r].op = "update" -> IF request[r].id \in Items(list) THEN "write" ELSE "end"
                          [] request[r].op = "remove" -> IF request[r].id \in Items(list) THEN "write" ELSE "end"
                          [] request[r].op = "reorder" ->
                               IF {i \in ItemIds : request[r].order[i] # 0} = Items(list)
                               THEN "write" ELSE "end"
                          [] request[r].op = "start" -> IF Items(list) = {} THEN "end" ELSE "start"
                          [] OTHER -> "write"
        OBVIOUS
      <3>2. IF ~list.there \/ next = "end" THEN End(r, 0)
            ELSE request' = [request EXCEPT ![r].pc = next, ![r].seen = list.at]
        BY <1>5, <3>1 DEF LoadList
      <3>3. next \in {"end", "max", "write", "start"} /\ (next = "start" => request[r].op = "start")
            /\ (request[r].op = "start" => next \in {"end", "start"})
        BY <3>1
      <3>4. QED
        BY <3>2, <3>3
    <2>2. QED
      BY <1>2, <1>4, <2>1, RequestEnds
  <1>6. ASSUME NEW r \in Requests, ReadLastPosition(r) PROVE RequestsTyped'
    <2>1. PICK greatest : greatest = CHOOSE p \in {0} \cup {list.at[i] : i \in ItemIds} :
                                    \A i \in ItemIds : list.at[i] <= p
      OBVIOUS
    <2>2. greatest \in Nat
      <3>1. PICK S : S = {0} \cup {list.at[i] : i \in ItemIds}
        OBVIOUS
      <3>2. list.at \in [ItemIds -> Nat]
        BY DEF Positions
      <3>3. S \in SUBSET Nat /\ S # {}
        BY <3>1, <3>2
      <3>4. IsFiniteSet({list.at[i] : i \in ItemIds})
        <4>1. PICK f : f = [i \in ItemIds |-> list.at[i]]
          OBVIOUS
        <4>2. {list.at[i] : i \in ItemIds} = {f[i] : i \in ItemIds}
          BY <4>1
        <4>3. PICK T : T = {list.at[i] : i \in ItemIds}
          OBVIOUS
        <4>4. f \in Surjection(ItemIds, T)
          BY <4>1, <4>2, <4>3 DEF Surjection
        <4>5. QED
          BY <4>3, <4>4, ListAssumption, FS_Surjection
      <3>5. IsFiniteSet(S)
        BY <3>1, <3>4, FS_Singleton, FS_Union
      <3>6. \E p \in S : \A n \in S : n <= p
        BY <3>3, <3>5, GreatestNatural
      <3>7. \E p \in S : \A i \in ItemIds : list.at[i] <= p
        BY <3>1, <3>6
      <3>8. greatest \in S
        BY <2>1, <3>1, <3>7
      <3>9. QED
        BY <3>3, <3>8
    <2>3. \/ End(r, 0)
          \/ /\ request[r].pc = "max"
             /\ request' = [request EXCEPT ![r].pc = "insert", ![r].last = greatest]
      BY <1>6, <2>1 DEF ReadLastPosition
    <2>4. ASSUME request[r].pc = "max", request' = [request EXCEPT ![r].pc = "insert", ![r].last = greatest]
          PROVE  RequestsTyped'
      <3>1. PICK b \in RequestType : b = request[r] /\ StartOf(b)
        BY DEF RequestsTyped
      <3>2. PICK q : q = [b EXCEPT !.pc = "insert", !.last = greatest]
        OBVIOUS
      <3>3. q \in RequestType /\ q.pc = "insert" /\ q.op = b.op /\ q.id = b.id
        BY <2>2, <3>2 DEF RequestType
      <3>4. RequestSet(r, q) /\ StartOf(q)
        BY <2>4, <3>1, <3>2, <3>3 DEF RequestsTyped, RequestSet, StartOf
      <3>5. QED
        BY <3>3, <3>4, RequestsKept
    <2>5. QED
      BY <1>2, <2>3, <2>4, RequestEnds
  <1>7. ASSUME NEW r \in Requests, InsertItem(r) \/ Write(r) \/ StartTrip(r)
        PROVE  RequestsTyped'
    <2>1. \E n \in 0 .. MaxTrips : End(r, n)
      BY <1>2, <1>7 DEF InsertItem, Write, StartTrip, OpenTrips, SameTrip
    <2>2. QED
      BY <2>1, RequestEnds
  <1>8. ASSUME NEW r \in Requests, ReplayStart(r)
        PROVE  RequestsTyped'
    <2>1. (\E n \in 0 .. MaxTrips : End(r, n)) \/ (request[r].pc = "replay" /\ Move(r, "load"))
      BY <1>2, <1>8 DEF ReplayStart, SameTrip
    <2>2. ASSUME Move(r, "load") PROVE RequestsTyped'
      <3>1. PICK b \in RequestType : b = request[r] /\ StartOf(b)
        BY DEF RequestsTyped
      <3>2. PICK q : q = [b EXCEPT !.pc = "load"]
        OBVIOUS
      <3>3. q \in RequestType /\ q.pc = "load" /\ q.op = b.op /\ q.id = b.id
        BY <3>2 DEF RequestType
      <3>4. RequestSet(r, q) /\ StartOf(q)
        BY <2>2, <3>1, <3>2, <3>3 DEF RequestsTyped, RequestSet, StartOf, Move
      <3>5. QED
        BY <3>3, <3>4, RequestsKept
    <2>3. QED
      BY <2>1, <2>2, RequestEnds
  <1>9. ASSUME NEW r \in Requests,
               \/ \E i \in ItemIds, op \in {"add", "update", "remove"} : Ask(r, op, i, NoItems)
               \/ \E o \in Orders : Ask(r, "reorder", NoId, o)
               \/ \E op \in {"duplicate", "delete"} : Ask(r, op, NoId, NoItems)
               \/ \E id \in TripIds \cup {NoId} : Ask(r, "start", id, NoItems)
        PROVE  RequestsTyped'
    <2>1. NoItems \in Positions /\ Orders \subseteq Positions
      <3>1. 0 .. Cardinality(ItemIds) \subseteq Nat
        OBVIOUS
      <3>2. QED
        BY <3>1 DEF NoItems, Orders, Positions
    <2>2. ItemIds \subseteq Named /\ TripIds \cup {NoId} \subseteq Named
      BY DEF Named
    <2>3. CASE \E i \in ItemIds, op \in {"add", "update", "remove"} : Ask(r, op, i, NoItems)
      BY <1>3, <2>1, <2>2, <2>3
    <2>4. CASE \E o \in Orders : Ask(r, "reorder", NoId, o)
      BY <1>3, <2>1, <2>2, <2>4
    <2>5. CASE \E op \in {"duplicate", "delete"} : Ask(r, op, NoId, NoItems)
      BY <1>3, <2>1, <2>2, <2>5
    <2>6. CASE \E id \in TripIds \cup {NoId} : Ask(r, "start", id, NoItems)
      BY <1>3, <2>1, <2>2, <2>6
    <2>7. QED
      BY <1>9, <2>3, <2>4, <2>5, <2>6
  <1>10. QED
    BY <1>1, <1>5, <1>6, <1>7, <1>8, <1>9 DEF ListNext, listVars, EndTrip

\* What is written to the list and its copy.
LEMMA ListKeepsItems ==
  ASSUME TripsTyped, [ListNext]_listVars
  PROVE  /\ list' \in [there : BOOLEAN, at : Positions]
         /\ copy' = NoId \/ copy' \subseteq ItemIds
         /\ turns' \in 0 .. MaxTurns
  <1> USE DEF TripsTyped
  <1>1. turns' \in 0 .. MaxTurns
    <2>1. turns' = turns \/ (turns < MaxTurns /\ turns' = turns + 1)
      BY ZenonT(60) DEF ListNext, listVars, LoadList, ReadLastPosition, InsertItem, Write, ReplayStart,
         StartTrip, Ask, EndTrip
    <2>2. MaxTurns \in Nat /\ turns \in 0 .. MaxTurns
      BY ListAssumption
    <2>3. QED
      BY <2>1, <2>2
  <1>2. ASSUME NEW i, NEW n \in Nat, list' = [list EXCEPT !.at[i] = n]
        PROVE  list' \in [there : BOOLEAN, at : Positions]
    BY <1>2 DEF Positions
  <1>3. ASSUME NEW r \in Requests, InsertItem(r) PROVE list' \in [there : BOOLEAN, at : Positions]
    <2>1. request[r].last + 1 \in Nat
      BY DEF RequestsTyped, RequestType
    <2>2. QED
      BY <1>2, <1>3, <2>1 DEF InsertItem
  <1>4. ASSUME NEW r \in Requests, Write(r) PROVE list' \in [there : BOOLEAN, at : Positions]
    <2>1. request[r].order \in Positions
      BY DEF RequestsTyped, RequestType
    <2>2. CASE request[r].op = "remove"
      BY <1>2, <1>4, <2>2 DEF Write
    <2>3. CASE request[r].op = "reorder"
      <3>1. PICK at : at = [i \in ItemIds |-> IF list.at[i] # 0 /\ request[r].order[i] # 0
                                             THEN request[r].order[i] ELSE list.at[i]]
        OBVIOUS
      <3>2. at \in Positions
        BY <2>1, <3>1 DEF Positions
      <3>3. list' = [list EXCEPT !.at = at]
        BY <1>4, <2>3, <3>1 DEF Write
      <3>4. QED
        BY <3>2, <3>3
    <2>4. CASE request[r].op = "delete"
      <3>1. NoItems \in Positions
        BY DEF NoItems, Positions
      <3>2. QED
        BY <1>4, <2>4, <3>1 DEF Write
    <2>5. CASE request[r].op \notin {"remove", "reorder", "delete"}
      BY <1>4, <2>5 DEF Write
    <2>6. QED
      BY <2>2, <2>3, <2>4, <2>5
  <1>5. list' \in [there : BOOLEAN, at : Positions]
    BY <1>3, <1>4 DEF ListNext, listVars, LoadList, ReadLastPosition, ReplayStart, StartTrip, Ask, EndTrip
  <1>6. copy' = NoId \/ copy' \subseteq ItemIds
    BY ZenonT(60) DEF ListNext, listVars, LoadList, ReadLastPosition, InsertItem, Write, ReplayStart, StartTrip, Ask,
       EndTrip, Loaded
  <1>7. QED
    BY <1>1, <1>5, <1>6

LEMMA ListKeepsTrips ==
  ASSUME TripsTyped, StartsApart, [ListNext]_listVars
  PROVE  TripsTyped' /\ StartsApart'
  <1>1. /\ RequestsTyped' /\ turns' \in 0 .. MaxTurns
        /\ list' \in [there : BOOLEAN, at : Positions]
        /\ copy' = NoId \/ copy' \subseteq ItemIds
    BY ListKeepsRequests, ListKeepsItems
  <1>2. trip \in Seq(TripRow) /\ Len(trip) \in Nat /\ Len(trip) <= MaxTrips /\ MaxTrips \in Nat /\ DOMAIN trip = 1 .. Len(trip)
        /\ \A n \in DOMAIN trip : trip[n] \in TripRow
    BY ListAssumption DEF TripsTyped
  <1>3. CASE UNCHANGED trip
    BY <1>1, <1>3 DEF TripsTyped, StartsApart, OpenTrips
  <1>4. ASSUME NEW r \in Requests, OpenTrips = {}, SameTrip(r) = {}, Len(trip) < MaxTrips,
               request[r].pc = "start",
               trip' = Append(trip, NewTrip(r))
        PROVE  TripsTyped' /\ StartsApart'
    <2>1. PICK new : new = NewTrip(r)
      OBVIOUS
    <2>2. new \in TripRow /\ new.id = request[r].id
      <3>1. request[r].id \in TripIds \cup {NoId} /\ Loaded(r) \subseteq ItemIds
        BY <1>4 DEF TripsTyped, RequestsTyped, StartOf, Loaded
      <3>2. QED
        BY <2>1, <3>1 DEF NewTrip, TripRow
    <2>3. /\ trip' \in Seq(TripRow) /\ Len(trip') <= MaxTrips /\ DOMAIN trip' = 1 .. (Len(trip) + 1)
          /\ trip'[Len(trip) + 1] = new /\ \A n \in DOMAIN trip : trip'[n] = trip[n]
      BY <1>2, <1>4, <2>1, <2>2
    <2>4. PICK last : last = Len(trip) + 1
      OBVIOUS
    <2>5. DOMAIN trip' = DOMAIN trip \cup {last} /\ last \notin DOMAIN trip
      BY <1>2, <2>3, <2>4
    <2>6. (\A m, n \in OpenTrips : m = n)'
      BY <1>4, <2>3, <2>5 DEF OpenTrips
    <2>7. \A n \in DOMAIN trip : trip[n].id = new.id => new.id = NoId
      BY <1>4, <2>2 DEF SameTrip
    <2>8. (\A m, n \in DOMAIN trip : m # n /\ trip[m].id = trip[n].id => trip[m].id = NoId)'
      BY <2>3, <2>4, <2>5, <2>7 DEF StartsApart
    <2>9. QED
      BY <1>1, <2>3, <2>6, <2>8 DEF TripsTyped, StartsApart
  <1>5. ASSUME trip' \in Seq(TripRow), Len(trip') = Len(trip), DOMAIN trip' = DOMAIN trip,
               \A n \in DOMAIN trip :
                  /\ trip'[n].id = trip[n].id
                  /\ trip'[n].open /\ trip'[n].ofList => trip[n].open /\ trip[n].ofList
        PROVE  TripsTyped' /\ StartsApart'
    <2>1. OpenTrips' \subseteq OpenTrips
      BY <1>5 DEF OpenTrips
    <2>2. (\A m, n \in OpenTrips : m = n)'
      BY <2>1 DEF StartsApart
    <2>3. (\A m, n \in DOMAIN trip : m # n /\ trip[m].id = trip[n].id => trip[m].id = NoId)'
      BY <1>5 DEF StartsApart
    <2>4. QED
      BY <1>1, <1>5, <2>2, <2>3 DEF TripsTyped, StartsApart
  <1>6. ASSUME NEW r \in Requests, Write(r) PROVE TripsTyped' /\ StartsApart'
    <2>1. CASE trip' = [n \in DOMAIN trip |-> [trip[n] EXCEPT !.ofList = FALSE]]
      <3>1. DOMAIN trip' = DOMAIN trip
            /\ \A n \in DOMAIN trip : trip'[n] = [trip[n] EXCEPT !.ofList = FALSE]
        BY <2>1
      <3>2. ASSUME NEW n \in DOMAIN trip
            PROVE  trip'[n] \in TripRow /\ trip'[n].id = trip[n].id /\ ~trip'[n].ofList
        BY <1>2, <3>1, ZenonT(60) DEF TripRow
      <3>3. trip' \in Seq(TripRow) /\ Len(trip') = Len(trip)
        BY <1>2, <2>1, <3>2
      <3>4. QED
        BY <1>5, <3>1, <3>2, <3>3
    <2>2. QED
      BY <1>3, <1>6, <2>1 DEF Write
  <1>7. ASSUME NEW k \in DOMAIN trip, EndTrip(k) PROVE TripsTyped' /\ StartsApart'
    <2>1. PICK new : new = [trip[k] EXCEPT !.open = FALSE]
      OBVIOUS
    <2>2. new \in TripRow /\ new.id = trip[k].id /\ ~new.open
      BY <1>2, <2>1 DEF TripRow
    <2>3. trip' = [trip EXCEPT ![k] = new]
      BY <1>7, <2>1 DEF EndTrip
    <2>4. /\ trip' \in Seq(TripRow) /\ Len(trip') = Len(trip) /\ DOMAIN trip' = DOMAIN trip
          /\ trip'[k] = new /\ \A n \in DOMAIN trip \ {k} : trip'[n] = trip[n]
      BY <1>2, <2>2, <2>3
    <2>5. QED
      BY <1>5, <2>2, <2>4
  <1>8. ASSUME NEW r \in Requests, StartTrip(r) PROVE TripsTyped' /\ StartsApart'
    BY <1>3, <1>4, <1>8 DEF StartTrip
  <1>9. QED
    BY <1>3, <1>6, <1>7, <1>8
    DEF ListNext, listVars, LoadList, ReadLastPosition, InsertItem, ReplayStart, Ask

LEMMA ListStarts == ListInit => TripsTyped /\ StartsApart
  <1>1. SUFFICES ASSUME ListInit PROVE TripsTyped /\ StartsApart
    OBVIOUS
  <1>2. /\ trip = <<>> /\ request = [r \in Requests |-> Ready] /\ copy = NoId /\ turns = 0
        /\ \E here \in {NoItems} \cup {[NoItems EXCEPT ![i] = 1] : i \in ItemIds} :
             list = [there |-> TRUE, at |-> here]
    BY <1>1 DEF ListInit
  <1>3. RequestsTyped
    BY <1>2, ReadyTyped DEF RequestsTyped, StartOf
  <1>4. NoItems \in Positions /\ \A i \in ItemIds : [NoItems EXCEPT ![i] = 1] \in Positions
    BY DEF NoItems, Positions
  <1>5. list \in [there : BOOLEAN, at : Positions] /\ turns \in 0 .. MaxTurns
    <2>1. PICK here \in Positions : list = [there |-> TRUE, at |-> here]
      BY <1>2, <1>4
    <2>2. QED
      BY <1>2, <2>1, ListAssumption
  <1>6. trip \in Seq(TripRow) /\ Len(trip) <= MaxTrips
    BY <1>2, ListAssumption
  <1>7. QED
    BY <1>2, <1>3, <1>5, <1>6 DEF TripsTyped, StartsApart, OpenTrips

LEMMA ListTypes == TripsTyped => ListTypeOK
  <1>1. SUFFICES ASSUME TripsTyped PROVE ListTypeOK
    OBVIOUS
  <1>2. \A r \in Requests : request[r] \in RequestType
    BY <1>1 DEF TripsTyped, RequestsTyped
  <1>3. \A r \in Requests :
          /\ request[r].pc \in {"ready", "load", "replay", "max", "insert", "write", "start"}
          /\ request[r].answer \in 0 .. MaxTrips
    BY <1>2 DEF RequestType
  <1>4. \A n \in DOMAIN trip : trip[n] \in TripRow
    BY <1>1 DEF TripsTyped
  <1>5. QED
    BY <1>1, <1>3, <1>4 DEF TripsTyped, ListTypeOK, TripRow, Positions

\* Requests, trips and the list keep their types.
THEOREM ListIsTyped == ListSpec => []ListTypeOK
  BY ListStarts, ListKeepsTrips, ListTypes, PTL DEF ListSpec

\* However starts race, retry and cross with the ends of trips and the edits of
\* the list, it has one open trip at most and an id names one trip.
THEOREM OneTripAtATime == ListSpec => []OneOpenTrip
  <1>1. ListInit => TripsTyped /\ StartsApart
    BY ListStarts
  <1>2. TripsTyped /\ StartsApart /\ [ListNext]_listVars => (TripsTyped /\ StartsApart)'
    BY ListKeepsTrips
  <1>3. TripsTyped /\ StartsApart => OneOpenTrip
    <2>1. SUFFICES ASSUME StartsApart PROVE Cardinality(OpenTrips) <= 1
      BY DEF StartsApart, OneOpenTrip
    <2>2. CASE OpenTrips = {}
      BY <2>2, FS_EmptySet
    <2>3. CASE OpenTrips # {}
      <3>1. PICK n \in OpenTrips : TRUE
        BY <2>3
      <3>2. OpenTrips = {n}
        BY <2>1 DEF StartsApart
      <3>3. QED
        BY <3>2, FS_Singleton
    <2>4. QED
      BY <2>2, <2>3
  <1>4. QED
    BY <1>1, <1>2, <1>3, PTL DEF ListSpec

-----------------------------------------------------------------------------
(***************************************************************************)
(* Community: types.  What a caller holds is known from where it is.       *)
(***************************************************************************)
CallerPlaces == {"idle", "flaggers", "shop flags", "read", "save", "hide", "shop", "counts", "progress"}
Neighbours == Shoppers \ {Creator}

StandingRow == [weight : Nat, confirmations : Nat, flags : Nat]
EntryRow == [status : Statuses, verified : BOOLEAN, into : Products \cup {Nobody}]
BranchRow == [public : BOOLEAN, counted : 0 .. Cardinality(Products), flags : Nat]
CallerRow ==
    [pc : CallerPlaces, op : {"none", "flag", "confirm", "price", "moderate", "merge"},
     target : Entries \cup {Nobody}, seen : SUBSET (Shoppers \cup Products),
     counts : StandingRow \cup {<<>>}, public : BOOLEAN]

CallerHolds(k) ==
    /\ k.pc \in {"read", "save"} => k.target \in Products
    /\ k.pc = "save" => k.counts \in StandingRow
    /\ k.pc \in {"flaggers", "shop flags", "hide"} => k.target \in Entries
    /\ k.pc \in {"shop flags", "read", "save", "hide"} => k.seen \subseteq Shoppers
    /\ k.pc = "progress" => k.seen \subseteq Products

CallersTyped == caller \in [Callers -> CallerRow] /\ \A c \in Callers : CallerHolds(caller[c])
RecordsTyped ==
    entry \in [Entries -> EntryRow] /\ standing \in [Products -> StandingRow] /\ branch \in BranchRow
SaidTyped ==
    vouched \subseteq Products \X Neighbours /\ flagged \subseteq Entries \X Neighbours
    /\ priced \subseteq Products \X Shoppers
GhostsTyped ==
    merges \in [Products -> Nat] /\ muddled \subseteq Products /\ delayed \in BOOLEAN
BoundsTyped == requests \in 0 .. MaxRequests /\ deaths \in 0 .. MaxDeaths

CommunityTyped == CallersTyped /\ RecordsTyped /\ SaidTyped /\ GhostsTyped /\ BoundsTyped

CallerSet(c, k) == caller' = [caller EXCEPT ![c] = k]

LEMMA SizesOfSubsets ==
  /\ \A S \in SUBSET Shoppers : Cardinality(S) \in Nat
  /\ \A S \in SUBSET Products : Cardinality(S) \in 0 .. Cardinality(Products)
  <1>1. IsFiniteSet(Shoppers) /\ IsFiniteSet(Products)
    BY CommunityAssumption DEF CommunityAssumption
  <1>2. ASSUME NEW S \in SUBSET Shoppers PROVE Cardinality(S) \in Nat
    BY <1>1, FS_Subset, FS_CardinalityType
  <1>3. ASSUME NEW S \in SUBSET Products PROVE Cardinality(S) \in 0 .. Cardinality(Products)
    <2>1. Cardinality(S) <= Cardinality(Products) /\ IsFiniteSet(S)
      BY <1>1, FS_Subset
    <2>2. Cardinality(S) \in Nat /\ Cardinality(Products) \in Nat
      BY <1>1, <2>1, FS_CardinalityType
    <2>3. QED
      BY <2>1, <2>2
  <1>4. QED
    BY <1>2, <1>3

\* A weight is never negative.
LEMMA WeightIsNatural ==
  ASSUME NEW v \in BOOLEAN, NEW i \in Nat, NEW j \in Nat, NEW k \in Nat
  PROVE  RankingWeight(v, i, j, k) \in Nat
  <1>1. PICK n \in Nat : n = IF v THEN 150 ELSE 0
    OBVIOUS
  <1>2. SignalCap \in Nat
    BY CommunityAssumption DEF CommunityAssumption
  <1>3. PICK a \in Nat : a = Lesser(i, SignalCap)
    BY <1>2 DEF Lesser
  <1>4. PICK b \in Nat : b = Lesser(j, SignalCap)
    BY <1>2 DEF Lesser
  <1>5. RankingWeight(v, i, j, k)
          = LET raw == n + 3 * a + 2 * b - 5 * k IN IF raw < 0 THEN 0 ELSE raw
    BY <1>1, <1>3, <1>4 DEF RankingWeight
  <1>6. QED
    BY <1>5

LEMMA RecountIsARow ==
  ASSUME RecordsTyped, NEW p \in Products
  PROVE  Recount(p) \in StandingRow
  <1>1. PICK i \in Nat : i = Cardinality({u \in Shoppers \ {Creator} : <<p, u>> \in vouched})
    BY SizesOfSubsets
  <1>2. PICK j \in Nat : j = Cardinality({u \in Shoppers \ {Creator} : <<p, u>> \in priced})
    BY SizesOfSubsets
  <1>3. PICK k \in Nat : k = Cardinality(Flaggers(p))
    BY SizesOfSubsets DEF Flaggers
  <1>4. entry[p].verified \in BOOLEAN
    BY DEF RecordsTyped, EntryRow, Entries
  <1>5. RankingWeight(entry[p].verified, i, j, k) \in Nat
    BY <1>4, WeightIsNatural
  <1>6. Recount(p) = [weight |-> RankingWeight(entry[p].verified, i, j, k),
                      confirmations |-> i, flags |-> k]
    BY <1>1, <1>2, <1>3 DEF Recount
  <1>7. QED
    BY <1>5, <1>6 DEF StandingRow

LEMMA CallerIsSet ==
  ASSUME CallersTyped, NEW c \in Callers, NEW k \in CallerRow, CallerHolds(k), CallerSet(c, k)
  PROVE  CallersTyped'
  BY DEF CallersTyped, CallerSet

LEMMA FreeIsTyped == Free \in CallerRow /\ CallerHolds(Free) /\ Free.seen = {} /\ Free.counts = <<>>
  BY DEF Free, CallerRow, CallerHolds, CallerPlaces

LEMMA AskedIsTyped ==
  ASSUME CallersTyped, BoundsTyped, NEW c \in Callers,
         NEW op \in {"flag", "confirm", "price", "moderate", "merge"}, NEW target \in Entries,
         NEW pc \in {"flaggers", "read", "idle"}, pc = "read" => target \in Products,
         Asked(c, op, target, pc)
  PROVE  CallersTyped' /\ BoundsTyped'
  <1>1. PICK k : k = [Free EXCEPT !.pc = pc, !.op = op, !.target = target]
    OBVIOUS
  <1>2. k \in CallerRow
    BY <1>1, FreeIsTyped DEF CallerRow, CallerPlaces
  <1>3. k.pc = pc /\ k.target = target /\ k.seen = {}
    BY <1>1 DEF Free
  <1>4. CallerHolds(k)
    BY <1>3 DEF CallerHolds
  <1>5. CallersTyped'
    BY <1>1, <1>2, <1>4, CallerIsSet DEF Asked, CallerSet
  <1>6. BoundsTyped'
    BY CommunityAssumption DEF Asked, BoundsTyped, CommunityAssumption
  <1>7. QED
    BY <1>5, <1>6

LEMMA GoesIsTyped ==
  ASSUME CallersTyped, BoundsTyped, NEW c \in Callers, NEW pc \in CallerPlaces,
         pc \notin {"read", "save", "flaggers", "shop flags", "progress"},
         pc = "hide" => caller[c].target \in Entries /\ caller[c].seen \subseteq Shoppers,
         Goes(c, pc)
  PROVE  CallersTyped' /\ BoundsTyped'
  <1>1. PICK k : k = [caller[c] EXCEPT !.pc = pc]
    OBVIOUS
  <1>2. caller[c] \in CallerRow
    BY DEF CallersTyped
  <1>3. k \in CallerRow /\ k.pc = pc /\ k.target = caller[c].target /\ k.seen = caller[c].seen
    BY <1>1, <1>2 DEF CallerRow
  <1>4. CallerHolds(k)
    BY <1>3 DEF CallerHolds
  <1>5. CallersTyped'
    BY <1>1, <1>3, <1>4, CallerIsSet DEF Goes, CallerSet
  <1>6. QED
    BY <1>5 DEF Goes, BoundsTyped

LEMMA ReturnsIsTyped ==
  ASSUME CallersTyped, BoundsTyped, NEW c \in Callers, Returns(c)
  PROVE  CallersTyped' /\ BoundsTyped'
  BY FreeIsTyped, CallerIsSet DEF Returns, CallerSet, BoundsTyped

LEMMA MovedIsTyped ==
  ASSUME NEW X, NEW Y, NEW from \in X, NEW into \in X, NEW rows \in SUBSET (X \X Y)
  PROVE  Moved(rows, from, into) \subseteq X \X Y
  <1>1. ASSUME NEW row \in rows
        PROVE  (IF row[1] = from THEN <<into, row[2]>> ELSE row) \in X \X Y
    OBVIOUS
  <1>2. QED
    BY <1>1 DEF Moved

-----------------------------------------------------------------------------
LEMMA SpeakingIsTyped ==
  ASSUME CommunityTyped, NEW c \in Callers, NEW u \in Shoppers,
         \/ \E e \in Entries : Flag(c, u, e)
         \/ \E p \in Products : Confirm(c, u, p) \/ Withdraw(c, u, p) \/ RecordContribution(c, u, p)
  PROVE  CommunityTyped'
  <1>1. CASE \E e \in Entries : Flag(c, u, e)
    <2>1. PICK e \in Entries : Flag(c, u, e)
      BY <1>1
    <2>2. CallersTyped' /\ BoundsTyped'
      BY <2>1, AskedIsTyped DEF CommunityTyped, Flag
    <2>3. SaidTyped'
      BY <2>1 DEF CommunityTyped, SaidTyped, Flag, Neighbours
    <2>4. QED
      BY <2>1, <2>2, <2>3
      DEF CommunityTyped, Flag, RecordsTyped, GhostsTyped, records, ghosts
  <1>2. CASE \E p \in Products : Confirm(c, u, p) \/ Withdraw(c, u, p) \/ RecordContribution(c, u, p)
    <2>1. PICK p \in Products : Confirm(c, u, p) \/ Withdraw(c, u, p) \/ RecordContribution(c, u, p)
      BY <1>2
    <2>2. p \in Entries
      BY DEF Entries
    <2>3. CallersTyped' /\ BoundsTyped'
      BY <2>1, <2>2, AskedIsTyped DEF CommunityTyped, Confirm, Withdraw, RecordContribution
    <2>4. SaidTyped'
      BY <2>1 DEF CommunityTyped, SaidTyped, Confirm, Withdraw, RecordContribution, Neighbours
    <2>5. QED
      BY <2>1, <2>3, <2>4
      DEF CommunityTyped, Confirm, Withdraw, RecordContribution, RecordsTyped, GhostsTyped,
          records, ghosts
  <1>3. QED
    BY <1>1, <1>2

LEMMA ReadingIsTyped ==
  ASSUME CommunityTyped, NEW c \in Callers,
         ReadFlaggers(c) \/ ReadSignals(c) \/ ReadShop(c) \/ CountStore(c)
  PROVE  CommunityTyped'
  <1>1. caller[c] \in CallerRow /\ CallerHolds(caller[c])
    BY DEF CommunityTyped, CallersTyped
  <1>2. CallersTyped'
    <2>1. CASE ReadFlaggers(c)
      <3>1. PICK pc \in CallerPlaces : pc = IF caller[c].target = Shop THEN "shop flags" ELSE "read"
        BY DEF CallerPlaces
      <3>2. PICK s \in SUBSET Shoppers : s = Flaggers(caller[c].target)
        BY DEF Flaggers
      <3>3. PICK k : k = [caller[c] EXCEPT !.pc = pc, !.seen = s]
        OBVIOUS
      <3>4. k \in CallerRow /\ k.pc = pc /\ k.target = caller[c].target /\ k.seen = s
        BY <1>1, <3>3 DEF CallerRow
      <3>5. caller[c].pc = "flaggers"
        BY <2>1 DEF ReadFlaggers
      <3>6. CallerHolds(k)
        BY <1>1, <3>1, <3>4, <3>5 DEF CallerHolds, Entries
      <3>7. CallerSet(c, k)
        BY <2>1, <3>1, <3>2, <3>3 DEF ReadFlaggers, CallerSet, CommunityTyped, CallersTyped
      <3>8. QED
        BY <3>4, <3>6, <3>7, CallerIsSet DEF CommunityTyped
    <2>2. CASE ReadSignals(c)
      <3>1. caller[c].pc = "read" /\ caller[c].target \in Products /\ caller[c].seen \subseteq Shoppers
        BY <1>1, <2>2 DEF ReadSignals, CallerHolds
      <3>2. PICK n \in StandingRow : n = Recount(caller[c].target)
        BY <3>1, RecountIsARow DEF CommunityTyped
      <3>3. PICK k : k = [caller[c] EXCEPT !.pc = "save", !.counts = n]
        OBVIOUS
      <3>4. /\ k \in CallerRow /\ k.pc = "save" /\ k.target = caller[c].target
            /\ k.seen = caller[c].seen /\ k.counts = n
        BY <1>1, <3>3 DEF CallerRow, CallerPlaces
      <3>5. CallerHolds(k)
        BY <3>1, <3>4 DEF CallerHolds
      <3>6. CallerSet(c, k)
        BY <2>2, <3>2, <3>3 DEF ReadSignals, CallerSet, CommunityTyped, CallersTyped
      <3>7. QED
        BY <3>4, <3>5, <3>6, CallerIsSet DEF CommunityTyped
    <2>3. CASE ReadShop(c)
      <3>1. PICK v \in BOOLEAN : v = (~branch.public /\ entry[Shop].status = "ACTIVE")
        OBVIOUS
      <3>2. PICK k : k = [caller[c] EXCEPT !.pc = "counts", !.public = v]
        OBVIOUS
      <3>3. k \in CallerRow /\ k.pc = "counts"
        BY <1>1, <3>2 DEF CallerRow, CallerPlaces
      <3>4. CallerHolds(k)
        BY <3>3 DEF CallerHolds
      <3>5. CallerSet(c, k)
        BY <2>3, <3>1, <3>2 DEF ReadShop, CallerSet, CommunityTyped, CallersTyped
      <3>6. QED
        BY <3>3, <3>4, <3>5, CallerIsSet DEF CommunityTyped
    <2>4. CASE CountStore(c)
      <3>1. PICK s \in SUBSET Products : s = PricedProducts
        BY DEF PricedProducts
      <3>2. PICK v \in BOOLEAN : v = (caller[c].public /\ Cardinality(s) >= Needed)
        BY <1>1 DEF CallerRow
      <3>3. PICK k : k = [caller[c] EXCEPT !.pc = "progress", !.seen = s, !.public = v]
        OBVIOUS
      <3>4. k \in CallerRow /\ k.pc = "progress" /\ k.seen = s
        BY <1>1, <3>3 DEF CallerRow, CallerPlaces
      <3>5. CallerHolds(k)
        BY <3>4 DEF CallerHolds
      <3>6. CallerSet(c, k)
        BY <2>4, <3>1, <3>2, <3>3 DEF CountStore, CallerSet, CommunityTyped, CallersTyped
      <3>7. QED
        BY <3>4, <3>5, <3>6, CallerIsSet DEF CommunityTyped
    <2>5. QED
      BY <2>1, <2>2, <2>3, <2>4
  <1>3. muddled' \subseteq Products
    <2>1. ReadSignals(c) => caller[c].target \in Products
      BY <1>1 DEF ReadSignals, CallerHolds
    <2>2. QED
      BY <2>1 DEF CommunityTyped, GhostsTyped, ReadFlaggers, ReadSignals, ReadShop, CountStore, ghosts
  <1>4. QED
    BY <1>2, <1>3
    DEF CommunityTyped, ReadFlaggers, ReadSignals, ReadShop, CountStore, RecordsTyped, SaidTyped,
        GhostsTyped, BoundsTyped, records, said, ghosts

LEMMA WritingIsTyped ==
  ASSUME CommunityTyped, NEW c \in Callers,
         SetStoreFlagCount(c) \/ PullByFlags(c) \/ SaveProductStanding(c) \/ SaveStoreProgress(c)
  PROVE  CommunityTyped'
  <1>1. caller[c] \in CallerRow /\ CallerHolds(caller[c]) /\ CallersTyped /\ BoundsTyped
    BY DEF CommunityTyped, CallersTyped
  <1>2. RecordsTyped
    BY DEF CommunityTyped
  <1>3. CASE SetStoreFlagCount(c)
    <2>1. caller[c].pc = "shop flags" /\ caller[c].seen \subseteq Shoppers /\ caller[c].target \in Entries
      BY <1>1, <1>3 DEF SetStoreFlagCount, CallerHolds
    <2>2. PICK n \in Nat : n = Cardinality(caller[c].seen)
      BY <2>1, SizesOfSubsets
    <2>3. branch' = [branch EXCEPT !.flags = n]
      BY <1>3, <2>2 DEF SetStoreFlagCount
    <2>4. branch' \in BranchRow
      BY <1>2, <2>3 DEF RecordsTyped, BranchRow
    <2>5. CallersTyped' /\ BoundsTyped'
      BY <1>1, <1>3, <2>1, GoesIsTyped DEF SetStoreFlagCount, CallerPlaces
    <2>6. QED
      BY <1>3, <2>4, <2>5
      DEF CommunityTyped, SetStoreFlagCount, RecordsTyped, SaidTyped, GhostsTyped, said, ghosts
  <1>4. CASE PullByFlags(c)
    <2>1. caller[c].target \in Entries
      BY <1>1, <1>4 DEF PullByFlags, CallerHolds
    <2>2. entry' \in [Entries -> EntryRow]
      <3>1. PICK n : n = [entry[caller[c].target] EXCEPT !.status = "UNDER_REVIEW"]
        OBVIOUS
      <3>2. entry[caller[c].target] \in EntryRow
        BY <1>2, <2>1 DEF RecordsTyped
      <3>3. n \in EntryRow
        BY <3>1, <3>2 DEF EntryRow, Statuses
      <3>4. UNCHANGED entry \/ entry' = [entry EXCEPT ![caller[c].target] = n]
        BY <1>2, <1>4, <2>1, <3>1 DEF PullByFlags, RecordsTyped
      <3>5. QED
        BY <1>2, <3>3, <3>4 DEF RecordsTyped
    <2>3. CallersTyped' /\ BoundsTyped'
      BY <1>1, <1>4, ReturnsIsTyped DEF PullByFlags
    <2>4. delayed' \in BOOLEAN
      BY <1>4 DEF PullByFlags, CommunityTyped, GhostsTyped
    <2>5. QED
      BY <1>4, <2>2, <2>3, <2>4
      DEF CommunityTyped, PullByFlags, RecordsTyped, SaidTyped, GhostsTyped, said
  <1>5. CASE SaveProductStanding(c)
    <2>1. /\ caller[c].pc = "save" /\ caller[c].target \in Products
          /\ caller[c].counts \in StandingRow /\ caller[c].seen \subseteq Shoppers
      BY <1>1, <1>5 DEF SaveProductStanding, CallerHolds
    <2>2. standing' \in [Products -> StandingRow]
      BY <1>2, <1>5, <2>1 DEF SaveProductStanding, RecordsTyped
    <2>3. CallersTyped' /\ BoundsTyped'
      <3>1. Goes(c, "hide") \/ Goes(c, "shop") \/ Returns(c)
        BY <1>5 DEF SaveProductStanding
      <3>2. Goes(c, "hide") => CallersTyped' /\ BoundsTyped'
        BY <1>1, <2>1, GoesIsTyped DEF CallerPlaces, Entries
      <3>3. Goes(c, "shop") => CallersTyped' /\ BoundsTyped'
        BY <1>1, <2>1, GoesIsTyped DEF CallerPlaces
      <3>4. QED
        BY <1>1, <3>1, <3>2, <3>3, ReturnsIsTyped
    <2>4. QED
      BY <1>5, <2>2, <2>3
      DEF CommunityTyped, SaveProductStanding, RecordsTyped, SaidTyped, GhostsTyped, said, ghosts
  <1>6. CASE SaveStoreProgress(c)
    <2>1. caller[c].seen \subseteq Products
      BY <1>1, <1>6 DEF SaveStoreProgress, CallerHolds
    <2>2. PICK n \in 0 .. Cardinality(Products) : n = Cardinality(caller[c].seen)
      BY <2>1, SizesOfSubsets
    <2>3. PICK v \in BOOLEAN : v = (branch.public \/ caller[c].public)
      BY <1>1, <1>2 DEF RecordsTyped, BranchRow, CallerRow
    <2>4. branch' = [branch EXCEPT !.counted = n, !.public = v]
      BY <1>2, <1>6, <2>2, <2>3 DEF SaveStoreProgress, RecordsTyped, BranchRow
    <2>5. branch' \in BranchRow
      BY <1>2, <2>4 DEF RecordsTyped, BranchRow
    <2>6. CallersTyped' /\ BoundsTyped'
      BY <1>1, <1>6, ReturnsIsTyped DEF SaveStoreProgress
    <2>7. QED
      BY <1>6, <2>5, <2>6
      DEF CommunityTyped, SaveStoreProgress, RecordsTyped, SaidTyped, GhostsTyped, said, ghosts
  <1>7. QED
    BY <1>3, <1>4, <1>5, <1>6

LEMMA TeamIsTyped ==
  ASSUME CommunityTyped, NEW c \in Callers,
         \/ \E e \in Entries, action \in {"verify", "hide", "restore"} : Moderate(c, e, action)
         \/ \E from, into \in Products : Merge(c, from, into)
  PROVE  CommunityTyped'
  <1>1. CallersTyped /\ BoundsTyped /\ RecordsTyped /\ SaidTyped
    BY DEF CommunityTyped
  <1>2. CASE \E e \in Entries, action \in {"verify", "hide", "restore"} : Moderate(c, e, action)
    <2>1. PICK e \in Entries, action \in {"verify", "hide", "restore"} : Moderate(c, e, action)
      BY <1>2
    <2>2. CallersTyped' /\ BoundsTyped'
      BY <1>1, <2>1, AskedIsTyped DEF Moderate, Entries
    <2>3. entry' \in [Entries -> EntryRow]
      <3>1. PICK s \in Statuses : s = IF action = "hide" THEN "HIDDEN" ELSE "ACTIVE"
        BY DEF Statuses
      <3>2. entry[e] \in EntryRow
        BY <1>1 DEF RecordsTyped
      <3>3. PICK v \in BOOLEAN : v = (entry[e].verified \/ action = "verify")
        OBVIOUS
      <3>4. PICK n : n = [entry[e] EXCEPT !.status = s, !.verified = v]
        OBVIOUS
      <3>5. n \in EntryRow
        BY <3>2, <3>4 DEF EntryRow
      <3>6. entry' = [entry EXCEPT ![e] = n]
        BY <1>1, <2>1, <3>1, <3>3, <3>4 DEF Moderate, RecordsTyped, EntryRow
      <3>7. QED
        BY <1>1, <3>5, <3>6 DEF RecordsTyped
    <2>4. branch' \in BranchRow
      <3>1. PICK v \in BOOLEAN : v = (branch.public \/ (e = Shop /\ action = "verify"))
        BY <1>1 DEF RecordsTyped, BranchRow
      <3>2. branch' = [branch EXCEPT !.public = v]
        BY <2>1, <3>1 DEF Moderate
      <3>3. QED
        BY <1>1, <3>2 DEF RecordsTyped, BranchRow
    <2>5. delayed' \in BOOLEAN
      BY <2>1 DEF Moderate, CommunityTyped, GhostsTyped
    <2>6. QED
      BY <2>1, <2>2, <2>3, <2>4, <2>5
      DEF CommunityTyped, Moderate, RecordsTyped, SaidTyped, GhostsTyped, said
  <1>3. CASE \E from, into \in Products : Merge(c, from, into)
    <2>1. PICK from \in Products, into \in Products : Merge(c, from, into)
      BY <1>3
    <2>2. from \in Entries /\ into \in Entries
      BY DEF Entries
    <2>3. CallersTyped' /\ BoundsTyped'
      BY <1>1, <2>1, <2>2, AskedIsTyped DEF Merge
    <2>4. entry' \in [Entries -> EntryRow]
      <3>1. entry[from] \in EntryRow
        BY <1>1, <2>2 DEF RecordsTyped
      <3>2. PICK n : n = [entry[from] EXCEPT !.status = "MERGED", !.into = into]
        OBVIOUS
      <3>3. n \in EntryRow
        BY <3>1, <3>2 DEF EntryRow, Statuses
      <3>4. entry' = [entry EXCEPT ![from] = n]
        BY <1>1, <2>1, <2>2, <3>2 DEF Merge, RecordsTyped
      <3>5. QED
        BY <1>1, <3>3, <3>4 DEF RecordsTyped
    <2>5. SaidTyped'
      <3>1. Moved(vouched, from, into) \subseteq Products \X Neighbours
        BY <1>1, MovedIsTyped DEF SaidTyped
      <3>2. Moved(flagged, from, into) \subseteq Entries \X Neighbours
        BY <1>1, <2>2, MovedIsTyped DEF SaidTyped
      <3>3. Moved(priced, from, into) \subseteq Products \X Shoppers
        BY <1>1, MovedIsTyped DEF SaidTyped
      <3>4. QED
        BY <2>1, <3>1, <3>2, <3>3 DEF Merge, SaidTyped
    <2>6. merges' \in [Products -> Nat]
      BY <2>1 DEF Merge, CommunityTyped, GhostsTyped
    <2>7. QED
      BY <2>1, <2>3, <2>4, <2>5, <2>6
      DEF CommunityTyped, Merge, RecordsTyped, GhostsTyped
  <1>4. QED
    BY <1>2, <1>3

LEMMA CommunityKeepsTypes ==
  ASSUME CommunityTyped, [CommunityNext]_communityVars
  PROVE  CommunityTyped'
  <1>1. CASE UNCHANGED communityVars
    BY <1>1
    DEF communityVars, CommunityTyped, CallersTyped, RecordsTyped, SaidTyped, GhostsTyped, BoundsTyped
  <1>2. CASE \E c \in Callers : CallerDies(c)
    <2>1. PICK c \in Callers : CallerDies(c)
      BY <1>2
    <2>2. CallersTyped'
      BY <2>1, FreeIsTyped, CallerIsSet DEF CommunityTyped, CallerDies, CallerSet
    <2>3. BoundsTyped' /\ GhostsTyped'
      BY <2>1, CommunityAssumption
      DEF CommunityTyped, CallerDies, BoundsTyped, GhostsTyped, CommunityAssumption
    <2>4. QED
      BY <2>1, <2>2, <2>3 DEF CommunityTyped, CallerDies, RecordsTyped, SaidTyped, records, said
  <1>3. CASE CommunityNext /\ ~\E c \in Callers : CallerDies(c)
    BY <1>3, SpeakingIsTyped, ReadingIsTyped, WritingIsTyped, TeamIsTyped
    DEF CommunityNext, CallerStep
  <1>4. QED
    BY <1>1, <1>2, <1>3

LEMMA CommunityStartsTyped ==
  ASSUME CommunityInit
  PROVE  CommunityTyped
  <1>1. CallersTyped
    BY FreeIsTyped DEF CommunityInit, CallersTyped
  <1>2. RecordsTyped
    <2>1. Cardinality(Products) \in Nat
      BY CommunityAssumption, FS_CardinalityType DEF CommunityAssumption
    <2>2. QED
      BY <2>1 DEF CommunityInit, RecordsTyped, EntryRow, StandingRow, BranchRow, Statuses
  <1>3. SaidTyped /\ GhostsTyped
    BY DEF CommunityInit, SaidTyped, GhostsTyped
  <1>4. BoundsTyped
    BY CommunityAssumption DEF CommunityInit, BoundsTyped, CommunityAssumption
  <1>5. QED
    BY <1>1, <1>2, <1>3, <1>4 DEF CommunityTyped

LEMMA CommunityTypes == CommunityTyped => CommunityTypeOK
  <1>1. SUFFICES ASSUME CommunityTyped PROVE CommunityTypeOK
    OBVIOUS
  <1>2. RecordsTyped /\ SaidTyped /\ GhostsTyped /\ BoundsTyped
    BY <1>1 DEF CommunityTyped
  <1>3. ASSUME NEW c \in Callers
        PROVE  caller[c].pc \in CallerPlaces /\ caller[c].target \in Entries \cup {Nobody}
    <2>1. caller[c] \in CallerRow
      BY <1>1 DEF CommunityTyped, CallersTyped
    <2>2. QED
      BY <2>1 DEF CallerRow
  <1>4. QED
    BY <1>2, <1>3
    DEF CommunityTypeOK, RecordsTyped, SaidTyped, GhostsTyped, BoundsTyped, EntryRow, StandingRow,
        BranchRow, Neighbours, CallerPlaces

\* Requests of people and of the team, event handlers and whatever cuts them
\* off leave entries, standings and what was said of them well formed: nobody's
\* word about an own addition is among them, and no weight is negative.
THEOREM CommunityIsTyped == CommunitySpec => []CommunityTypeOK
  BY CommunityTypes, CommunityStartsTyped, CommunityKeepsTypes, PTL DEF CommunitySpec

-----------------------------------------------------------------------------
(***************************************************************************)
(* Community: what people say of a product is counted, and a shop with     *)
(* enough priced products published, by whoever comes last.                *)
(***************************************************************************)
\* A caller's record keeps its fields, and an entry's.
CallerRecord(k) ==
    k = [pc |-> k.pc, op |-> k.op, target |-> k.target, seen |-> k.seen,
         counts |-> k.counts, public |-> k.public]

EntryRecord(e) == e = [status |-> e.status, verified |-> e.verified, into |-> e.into]

BranchRecord(b) == b = [public |-> b.public, counted |-> b.counted, flags |-> b.flags]

CommunityShaped ==
    /\ caller = [c \in Callers |-> caller[c]] /\ \A c \in Callers : CallerRecord(caller[c])
    /\ entry = [e \in Entries |-> entry[e]] /\ \A e \in Entries : EntryRecord(entry[e])
    /\ merges \in [Products -> Nat] /\ standing = [p \in Products |-> standing[p]]
    /\ BranchRecord(branch)

\* A recount of p that has yet to read what was said, and one that has read it.
Awaits(k, p) == k.target = p /\ k.pc \in {"flaggers", "read"}
Saves(k, p) == k.target = p /\ k.pc = "save"

\* A product's standing is right, or will be: by a recount that has yet to
\* read, or by those that have read and counted what is said now.
StandsOrWill(p) ==
    \/ merges[p] > 0
    \/ \E c \in Callers : Awaits(caller[c], p)
    \/ /\ \A c \in Callers : Saves(caller[c], p) => caller[c].counts = Recount(p)
       /\ \/ standing[p] = Recount(p)
          \/ \E c \in Callers : Saves(caller[c], p)

StandingsHold == \A p \in Products \ muddled : StandsOrWill(p)

\* The shop is not public, and nothing stands in the way of it.
Publishable == ~delayed /\ ~branch.public

\* The handler of an accepted price that will make a publishable shop public.
Publishes(k) ==
    k.op = "price" /\ (k.pc \in {"read", "save", "shop", "counts"} \/ (k.pc = "progress" /\ k.public))

PublicationIsDue ==
    /\ priced \subseteq Products \X Shoppers
    /\ ~delayed => entry[Shop].status = "ACTIVE"
    /\ Publishable => \A c \in Callers : caller[c].pc = "counts" => caller[c].public
    /\ Publishable /\ Cardinality(PricedProducts) >= Needed =>
         \E c \in Callers : Publishes(caller[c])

-----------------------------------------------------------------------------
\* What a step does to the caller that takes it.
Moves(c, k) == CallerRecord(k) /\ caller' = [caller EXCEPT ![c] = k]

LEMMA AskedMoves ==
  ASSUME NEW c \in Callers, NEW op, NEW target, NEW pc, Asked(c, op, target, pc)
  PROVE  /\ caller[c].pc = "idle"
         /\ \E k : /\ Moves(c, k) /\ k.pc = pc /\ k.op = op /\ k.target = target
  <1>1. PICK k : k = [Free EXCEPT !.pc = pc, !.op = op, !.target = target]
    OBVIOUS
  <1>2. CallerRecord(k) /\ k.pc = pc /\ k.op = op /\ k.target = target
    BY <1>1 DEF Free, CallerRecord
  <1>3. QED
    BY <1>1, <1>2 DEF Asked, Moves

LEMMA GoesMoves ==
  ASSUME CommunityShaped, NEW c \in Callers, NEW pc, Goes(c, pc)
  PROVE  \E k : /\ Moves(c, k) /\ k.pc = pc /\ k.op = caller[c].op /\ k.target = caller[c].target
                /\ k.counts = caller[c].counts /\ k.public = caller[c].public
  <1>1. PICK k : k = [caller[c] EXCEPT !.pc = pc]
    OBVIOUS
  <1>2. /\ CallerRecord(k) /\ k.pc = pc /\ k.op = caller[c].op /\ k.target = caller[c].target
        /\ k.counts = caller[c].counts /\ k.public = caller[c].public
    BY <1>1 DEF CommunityShaped, CallerRecord
  <1>3. QED
    BY <1>1, <1>2 DEF Goes, Moves

LEMMA FreeIsIdle ==
  CallerRecord(Free) /\ Free.pc = "idle" /\ Free.op = "none" /\ Free.target = Nobody
  BY DEF Free, CallerRecord

LEMMA ReturnsMoves ==
  ASSUME NEW c \in Callers, Returns(c)
  PROVE  Moves(c, Free)
  BY FreeIsIdle DEF Returns, Moves

LEMMA ReadFlaggersMoves ==
  ASSUME CommunityShaped, NEW c \in Callers, ReadFlaggers(c)
  PROVE  \E k : /\ Moves(c, k) /\ k.pc = IF caller[c].target = Shop THEN "shop flags" ELSE "read"
                /\ k.op = caller[c].op /\ k.target = caller[c].target
  <1>1. PICK pc : pc = IF caller[c].target = Shop THEN "shop flags" ELSE "read"
    OBVIOUS
  <1>2. PICK h : h = [caller[c] EXCEPT !.pc = pc]
    OBVIOUS
  <1>3. PICK k : k = [h EXCEPT !.seen = Flaggers(caller[c].target)]
    OBVIOUS
  <1>4. CallerRecord(h) /\ h.pc = pc /\ h.op = caller[c].op /\ h.target = caller[c].target
    BY <1>2 DEF CommunityShaped, CallerRecord
  <1>5. CallerRecord(k) /\ k.pc = pc /\ k.op = caller[c].op /\ k.target = caller[c].target
    BY <1>3, <1>4 DEF CallerRecord
  <1>6. caller' = [caller EXCEPT ![c] = k]
    BY <1>1, <1>2, <1>3 DEF ReadFlaggers, CommunityShaped
  <1>7. QED
    BY <1>1, <1>5, <1>6 DEF Moves

LEMMA ReadSignalsMoves ==
  ASSUME CommunityShaped, NEW c \in Callers, ReadSignals(c)
  PROVE  \E k : /\ Moves(c, k) /\ k.pc = "save" /\ k.op = caller[c].op
                /\ k.target = caller[c].target /\ k.counts = Recount(caller[c].target)
  <1>1. PICK n : n = Recount(caller[c].target)
    OBVIOUS
  <1>2. PICK h : h = [caller[c] EXCEPT !.pc = "save"]
    OBVIOUS
  <1>3. PICK k : k = [h EXCEPT !.counts = n]
    OBVIOUS
  <1>4. CallerRecord(h) /\ h.pc = "save" /\ h.op = caller[c].op /\ h.target = caller[c].target
    BY <1>2 DEF CommunityShaped, CallerRecord
  <1>5. /\ CallerRecord(k) /\ k.pc = "save" /\ k.op = caller[c].op /\ k.target = caller[c].target
        /\ k.counts = n
    BY <1>3, <1>4 DEF CallerRecord
  <1>6. caller' = [caller EXCEPT ![c] = k]
    BY <1>1, <1>2, <1>3 DEF ReadSignals, CommunityShaped
  <1>7. QED
    BY <1>1, <1>5, <1>6 DEF Moves

LEMMA ReadShopMoves ==
  ASSUME CommunityShaped, NEW c \in Callers, ReadShop(c)
  PROVE  \E k : /\ Moves(c, k) /\ k.pc = "counts" /\ k.op = caller[c].op /\ k.target = caller[c].target
                /\ k.public = (~branch.public /\ entry[Shop].status = "ACTIVE")
  <1>1. PICK h : h = [caller[c] EXCEPT !.pc = "counts"]
    OBVIOUS
  <1>2. PICK k : k = [h EXCEPT !.public = ~branch.public /\ entry[Shop].status = "ACTIVE"]
    OBVIOUS
  <1>3. CallerRecord(h) /\ h.pc = "counts" /\ h.op = caller[c].op /\ h.target = caller[c].target
    BY <1>1 DEF CommunityShaped, CallerRecord
  <1>4. /\ CallerRecord(k) /\ k.pc = "counts" /\ k.op = caller[c].op /\ k.target = caller[c].target
        /\ k.public = (~branch.public /\ entry[Shop].status = "ACTIVE")
    BY <1>2, <1>3 DEF CallerRecord
  <1>5. caller' = [caller EXCEPT ![c] = k]
    BY <1>1, <1>2 DEF ReadShop, CommunityShaped
  <1>6. QED
    BY <1>4, <1>5 DEF Moves

LEMMA CountStoreMoves ==
  ASSUME CommunityShaped, NEW c \in Callers, CountStore(c)
  PROVE  \E k : /\ Moves(c, k) /\ k.pc = "progress" /\ k.op = caller[c].op /\ k.target = caller[c].target
                /\ k.public = (caller[c].public /\ Cardinality(PricedProducts) >= Needed)
  <1>1. PICK n : n = PricedProducts
    OBVIOUS
  <1>2. PICK h : h = [caller[c] EXCEPT !.pc = "progress"]
    OBVIOUS
  <1>3. PICK i : i = [h EXCEPT !.seen = n]
    OBVIOUS
  <1>4. PICK k : k = [i EXCEPT !.public = caller[c].public /\ Cardinality(n) >= Needed]
    OBVIOUS
  <1>5. CallerRecord(h) /\ h.pc = "progress" /\ h.op = caller[c].op /\ h.target = caller[c].target
        /\ h.public = caller[c].public
    BY <1>2 DEF CommunityShaped, CallerRecord
  <1>6. CallerRecord(i) /\ i.pc = "progress" /\ i.op = caller[c].op /\ i.target = caller[c].target
        /\ i.public = caller[c].public
    BY <1>3, <1>5 DEF CallerRecord
  <1>7. /\ CallerRecord(k) /\ k.pc = "progress" /\ k.op = caller[c].op /\ k.target = caller[c].target
        /\ k.public = (caller[c].public /\ Cardinality(n) >= Needed)
    BY <1>4, <1>6 DEF CallerRecord
  <1>8. caller' = [caller EXCEPT ![c] = k]
    BY <1>1, <1>2, <1>3, <1>4 DEF CountStore, CommunityShaped
  <1>9. QED
    BY <1>1, <1>7, <1>8 DEF Moves

LEMMA MovesApart ==
  ASSUME CommunityShaped, NEW c \in Callers, NEW k, Moves(c, k)
  PROVE  /\ caller'[c] = k /\ \A d \in Callers \ {c} : caller'[d] = caller[d]
         /\ caller' = [d \in Callers |-> caller'[d]] /\ \A d \in Callers : CallerRecord(caller'[d])
  BY DEF CommunityShaped, Moves

\* What the steps that write an entry leave of it.
LEMMA Pulled ==
  ASSUME CommunityShaped, NEW c \in Callers, PullByFlags(c)
  PROVE  /\ entry' = [e \in Entries |-> entry'[e]] /\ \A e \in Entries : EntryRecord(entry'[e])
         /\ \A e \in Entries : entry'[e].verified = entry[e].verified
         /\ \A e \in Entries : e # caller[c].target => entry'[e] = entry[e]
  <1>1. CASE UNCHANGED entry
    BY <1>1 DEF CommunityShaped
  <1>2. CASE entry' = [entry EXCEPT ![caller[c].target].status = "UNDER_REVIEW"]
    <2>1. PICK n : n = [entry[caller[c].target] EXCEPT !.status = "UNDER_REVIEW"]
      OBVIOUS
    <2>2. entry' = [entry EXCEPT ![caller[c].target] = n]
      BY <1>2, <2>1 DEF CommunityShaped
    <2>3. caller[c].target \in Entries =>
            EntryRecord(n) /\ n.verified = entry[caller[c].target].verified
      BY <2>1 DEF CommunityShaped, EntryRecord
    <2>4. QED
      BY <2>2, <2>3 DEF CommunityShaped
  <1>3. QED
    BY <1>1, <1>2 DEF PullByFlags

LEMMA Moderated ==
  ASSUME CommunityShaped, NEW c \in Callers, NEW e \in Entries, NEW action, Moderate(c, e, action)
  PROVE  /\ entry' = [f \in Entries |-> entry'[f]] /\ \A f \in Entries : EntryRecord(entry'[f])
         /\ \A f \in Entries \ {e} : entry'[f] = entry[f]
         /\ action # "hide" => entry'[e].status = "ACTIVE"
  <1>1. PICK s : s = IF action = "hide" THEN "HIDDEN" ELSE "ACTIVE"
    OBVIOUS
  <1>2. PICK v : v = (entry[e].verified \/ action = "verify")
    OBVIOUS
  <1>3. PICK h : h = [entry[e] EXCEPT !.status = s]
    OBVIOUS
  <1>4. PICK n : n = [h EXCEPT !.verified = v]
    OBVIOUS
  <1>5. EntryRecord(h) /\ h.status = s /\ h.verified = entry[e].verified
    BY <1>3 DEF CommunityShaped, EntryRecord
  <1>6. EntryRecord(n) /\ n.status = s
    BY <1>4, <1>5 DEF EntryRecord
  <1>7. entry' = [entry EXCEPT ![e] = n]
    BY <1>1, <1>2, <1>3, <1>4, <1>5 DEF Moderate, CommunityShaped
  <1>8. QED
    BY <1>1, <1>6, <1>7 DEF CommunityShaped

LEMMA MergedEntry ==
  ASSUME CommunityShaped, NEW c \in Callers, NEW from \in Products, NEW into \in Products,
         Merge(c, from, into)
  PROVE  /\ entry' = [e \in Entries |-> entry'[e]] /\ \A e \in Entries : EntryRecord(entry'[e])
         /\ \A e \in Entries \ {from} : entry'[e] = entry[e]
  <1>1. PICK h : h = [entry[from] EXCEPT !.status = "MERGED"]
    OBVIOUS
  <1>2. PICK n : n = [h EXCEPT !.into = into]
    OBVIOUS
  <1>3. from \in Entries
    BY DEF Entries
  <1>4. EntryRecord(h)
    BY <1>1, <1>3 DEF CommunityShaped, EntryRecord
  <1>5. EntryRecord(n)
    BY <1>2, <1>4 DEF EntryRecord
  <1>6. entry' = [entry EXCEPT ![from] = n]
    BY <1>1, <1>2, <1>3 DEF Merge, CommunityShaped
  <1>7. QED
    BY <1>5, <1>6 DEF CommunityShaped

LEMMA TypedIsShaped ==
  ASSUME CommunityTyped
  PROVE  CommunityShaped
  <1>1. \A c \in Callers : CallerRecord(caller[c])
    BY DEF CommunityTyped, CallersTyped, CallerRow, CallerRecord
  <1>2. \A e \in Entries : EntryRecord(entry[e])
    BY DEF CommunityTyped, RecordsTyped, EntryRow, EntryRecord
  <1>3. BranchRecord(branch)
    BY DEF CommunityTyped, RecordsTyped, BranchRow, BranchRecord
  <1>4. QED
    BY <1>1, <1>2, <1>3 DEF CommunityTyped, CallersTyped, RecordsTyped, GhostsTyped, CommunityShaped

-----------------------------------------------------------------------------
\* A step that leaves what was said of a product, and its standing, and takes
\* its caller neither out of its way to the product's count nor past it.
LEMMA StandingWaits ==
  ASSUME CommunityShaped, NEW p \in Products, StandsOrWill(p),
         NEW c \in Callers, NEW k, Moves(c, k),
         merges'[p] = merges[p], standing'[p] = standing[p], Recount(p)' = Recount(p),
         Awaits(caller[c], p) => Awaits(k, p),
         Saves(caller[c], p) \/ Saves(k, p) =>
           Saves(caller[c], p) /\ Saves(k, p) /\ k.counts = caller[c].counts
  PROVE  StandsOrWill(p)'
  <1>1. caller'[c] = k /\ \A d \in Callers \ {c} : caller'[d] = caller[d]
    BY MovesApart
  <1>2. \A d \in Callers : Awaits(caller[d], p) => Awaits(caller'[d], p)
    BY <1>1
  <1>3. \A d \in Callers :
          /\ Saves(caller[d], p) <=> Saves(caller'[d], p)
          /\ Saves(caller[d], p) => caller'[d].counts = caller[d].counts
    BY <1>1
  <1>4. PICK n : n = Recount(p) /\ n = Recount(p)'
    OBVIOUS
  <1>5. QED
    BY <1>2, <1>3, <1>4 DEF StandsOrWill

\* A step that sends its caller to count a product.
LEMMA StandingIsAwaited ==
  ASSUME CommunityShaped, NEW p \in Products, NEW c \in Callers, NEW k, Moves(c, k), Awaits(k, p)
  PROVE  StandsOrWill(p)'
  BY MovesApart DEF StandsOrWill

\* What is said of a product, and hence its count, does not change with what is
\* said of another entry.
LEMMA RecountStays ==
  ASSUME NEW p \in Products, entry'[p].verified = entry[p].verified,
         \A u \in Shoppers : <<p, u>> \in vouched' <=> <<p, u>> \in vouched,
         \A u \in Shoppers : <<p, u>> \in priced' <=> <<p, u>> \in priced,
         \A u \in Shoppers : <<p, u>> \in flagged' <=> <<p, u>> \in flagged
  PROVE  Recount(p)' = Recount(p)
  <1>1. {u \in Shoppers \ {Creator} : <<p, u>> \in vouched'}
          = {u \in Shoppers \ {Creator} : <<p, u>> \in vouched}
    OBVIOUS
  <1>2. {u \in Shoppers \ {Creator} : <<p, u>> \in priced'}
          = {u \in Shoppers \ {Creator} : <<p, u>> \in priced}
    OBVIOUS
  <1>3. Flaggers(p)' = Flaggers(p)
    BY DEF Flaggers
  <1>4. QED
    BY <1>1, <1>2, <1>3 DEF Recount

\* A request or a moderator's word about one product, and no step of a recount.
LEMMA AskedKeepsStandings ==
  ASSUME CommunityShaped, CommunityAssumption, StandingsHold,
         NEW c \in Callers, NEW op, NEW e \in Entries, NEW pc, Asked(c, op, e, pc),
         UNCHANGED <<standing, merges, muddled>>,
         pc # "save", e \in Products => pc \in {"flaggers", "read"},
         \A p \in Products \ {e} : Recount(p)' = Recount(p)
  PROVE  StandingsHold'
  <1>1. SUFFICES ASSUME NEW p \in Products, p \notin muddled PROVE StandsOrWill(p)'
    BY DEF StandingsHold
  <1>2. PICK k : Moves(c, k) /\ k.pc = pc /\ k.target = e
    BY AskedMoves
  <1>3. CASE p = e
    BY <1>2, <1>3, StandingIsAwaited DEF Awaits
  <1>4. CASE p # e
    <2>1. caller[c].pc = "idle"
      BY AskedMoves
    <2>2. ~Awaits(caller[c], p) /\ ~Saves(caller[c], p) /\ ~Saves(k, p)
      BY <1>2, <2>1 DEF Awaits, Saves
    <2>3. QED
      BY <1>1, <1>2, <1>4, <2>2, StandingWaits DEF StandingsHold
  <1>5. QED
    BY <1>3, <1>4

LEMMA CommunityKeepsStandings ==
  ASSUME CommunityShaped, CommunityAssumption, StandingsHold, [CommunityNext]_communityVars
  PROVE  StandingsHold'
  <1> USE DEF Entries
  <1>1. CASE UNCHANGED communityVars
    BY <1>1 DEF communityVars, StandingsHold, StandsOrWill, Recount, Flaggers
  \* A recount that has nothing to count: steps after it and about the shop.
  <1>2. ASSUME UNCHANGED <<vouched, flagged, priced>>,
               \A p \in Products : entry'[p].verified = entry[p].verified,
               NEW p \in Products
        PROVE  Recount(p)' = Recount(p)
    BY <1>2, RecountStays
  <1>3. ASSUME NEW c \in Callers, NEW k, Moves(c, k),
               UNCHANGED <<standing, merges, muddled, vouched, flagged, priced>>,
               \A p \in Products : entry'[p].verified = entry[p].verified,
               caller[c].pc \notin {"flaggers", "read", "save"}, k.pc # "save"
        PROVE  StandingsHold'
    <2>1. SUFFICES ASSUME NEW p \in Products, p \notin muddled PROVE StandsOrWill(p)'
      BY <1>3 DEF StandingsHold
    <2>2. ~Awaits(caller[c], p) /\ ~Saves(caller[c], p) /\ ~Saves(k, p)
      BY <1>3 DEF Awaits, Saves
    <2>3. QED
      BY <1>2, <1>3, <2>1, <2>2, StandingWaits DEF StandingsHold
  <1>4. ASSUME NEW c \in Callers, ReadFlaggers(c) PROVE StandingsHold'
    <2>1. SUFFICES ASSUME NEW p \in Products, p \notin muddled PROVE StandsOrWill(p)'
      BY <1>4 DEF StandingsHold, ReadFlaggers, ghosts
    <2>2. PICK k : /\ Moves(c, k) /\ k.target = caller[c].target
                   /\ k.pc = IF caller[c].target = Shop THEN "shop flags" ELSE "read"
      BY <1>4, ReadFlaggersMoves
    <2>3. Awaits(caller[c], p) => Awaits(k, p)
      BY <2>2 DEF Awaits, CommunityAssumption
    <2>4. ~Saves(caller[c], p) /\ ~Saves(k, p)
      BY <1>4, <2>2 DEF Saves, ReadFlaggers
    <2>5. UNCHANGED <<standing, merges, vouched, flagged, priced, entry>>
      BY <1>4 DEF ReadFlaggers, records, said, ghosts
    <2>6. QED
      BY <1>2, <2>1, <2>2, <2>3, <2>4, <2>5, StandingWaits DEF StandingsHold
  <1>5. ASSUME NEW c \in Callers, ReadSignals(c) PROVE StandingsHold'
    <2>1. SUFFICES ASSUME NEW p \in Products, p \notin muddled' PROVE StandsOrWill(p)'
      BY DEF StandingsHold
    <2>2. PICK k : /\ Moves(c, k) /\ k.pc = "save" /\ k.target = caller[c].target
                   /\ k.counts = Recount(caller[c].target)
      BY <1>5, ReadSignalsMoves
    <2>3. UNCHANGED <<standing, merges, vouched, flagged, priced, entry>>
      BY <1>5 DEF ReadSignals, records, said
    <2>4. Recount(p)' = Recount(p) /\ p \notin muddled /\ StandsOrWill(p)
      BY <1>2, <1>5, <2>1, <2>3 DEF ReadSignals, StandingsHold
    <2>5. CASE p = caller[c].target
      <3>1. \A d \in Callers : ~Saves(caller[d], p)
        BY <1>5, <2>1, <2>5 DEF ReadSignals, Recounting, Saves
      <3>2. caller'[c] = k /\ \A d \in Callers \ {c} : caller'[d] = caller[d]
        BY <2>2, MovesApart
      <3>3. Saves(caller'[c], p) /\ \A d \in Callers : Saves(caller'[d], p) => d = c
        BY <2>2, <2>5, <3>1, <3>2 DEF Saves
      <3>4. caller'[c].counts = Recount(p)'
        BY <2>2, <2>4, <2>5, <3>2
      <3>5. QED
        BY <3>3, <3>4 DEF StandsOrWill
    <2>6. CASE p # caller[c].target
      <3>1. ~Awaits(caller[c], p) /\ ~Saves(caller[c], p) /\ ~Saves(k, p)
        BY <2>2, <2>6 DEF Awaits, Saves
      <3>2. QED
        BY <2>2, <2>3, <2>4, <3>1, StandingWaits
    <2>7. QED
      BY <2>5, <2>6
  <1>6. ASSUME NEW c \in Callers, SaveProductStanding(c) PROVE StandingsHold'
    <2>1. SUFFICES ASSUME NEW p \in Products, p \notin muddled PROVE StandsOrWill(p)'
      BY <1>6 DEF StandingsHold, SaveProductStanding, ghosts
    <2>2. PICK k : Moves(c, k) /\ k.pc \notin {"flaggers", "read", "save"}
      BY <1>6, GoesMoves, ReturnsMoves, FreeIsIdle DEF SaveProductStanding
    <2>3. /\ UNCHANGED <<merges, vouched, flagged, priced, entry>>
          /\ standing' = [standing EXCEPT ![caller[c].target] = caller[c].counts]
      BY <1>6 DEF SaveProductStanding, said, ghosts
    <2>4. Recount(p)' = Recount(p) /\ StandsOrWill(p)
      BY <1>2, <2>1, <2>3 DEF StandingsHold
    <2>5. ~Awaits(caller[c], p) /\ ~Saves(k, p)
      BY <1>6, <2>2 DEF Awaits, Saves, SaveProductStanding
    <2>6. CASE p = caller[c].target
      <3>1. caller'[c] = k /\ \A d \in Callers \ {c} : caller'[d] = caller[d]
        BY <2>2, MovesApart
      <3>2. standing'[p] = caller[c].counts
        BY <2>3, <2>6 DEF CommunityShaped
      <3>3. Saves(caller[c], p)
        BY <1>6, <2>6 DEF Saves, SaveProductStanding
      <3>4. \A d \in Callers : Saves(caller'[d], p) => Saves(caller[d], p) /\ caller'[d] = caller[d]
        BY <2>5, <3>1
      <3>5. CASE merges[p] > 0
        BY <2>3, <3>5 DEF StandsOrWill
      <3>6. CASE \E d \in Callers : Awaits(caller[d], p)
        BY <2>5, <3>1, <3>6 DEF StandsOrWill
      <3>7. CASE \A d \in Callers : Saves(caller[d], p) => caller[d].counts = Recount(p)
        BY <2>4, <3>2, <3>3, <3>4, <3>7 DEF StandsOrWill
      <3>8. QED
        BY <2>4, <3>5, <3>6, <3>7 DEF StandsOrWill
    <2>7. CASE p # caller[c].target
      <3>1. ~Saves(caller[c], p) /\ standing'[p] = standing[p]
        BY <2>3, <2>7 DEF Saves, CommunityShaped
      <3>2. QED
        BY <2>2, <2>3, <2>4, <2>5, <3>1, StandingWaits
    <2>8. QED
      BY <2>6, <2>7
  <1>7. ASSUME NEW c \in Callers, SetStoreFlagCount(c) PROVE StandingsHold'
    <2>1. Goes(c, "hide")
      BY <1>7 DEF SetStoreFlagCount
    <2>2. PICK k : Moves(c, k) /\ k.pc = "hide"
      BY <2>1, GoesMoves
    <2>3. QED
      BY <1>3, <1>7, <2>2 DEF SetStoreFlagCount, said, ghosts
  <1>8. ASSUME NEW c \in Callers, PullByFlags(c) PROVE StandingsHold'
    <2>1. Moves(c, Free)
      BY <1>8, ReturnsMoves DEF PullByFlags
    <2>2. \A p \in Products : entry'[p].verified = entry[p].verified
      BY <1>8, Pulled
    <2>3. QED
      BY <1>3, <1>8, <2>1, <2>2, FreeIsIdle DEF PullByFlags, said
  <1>9. ASSUME NEW c \in Callers, ReadShop(c) \/ CountStore(c) PROVE StandingsHold'
    <2>1. PICK k : Moves(c, k) /\ k.pc \in {"counts", "progress"}
      BY <1>9, ReadShopMoves, CountStoreMoves
    <2>2. QED
      BY <1>3, <1>9, <2>1 DEF ReadShop, CountStore, records, said, ghosts
  <1>10. ASSUME NEW c \in Callers, SaveStoreProgress(c) PROVE StandingsHold'
    <2>1. Moves(c, Free)
      BY <1>10, ReturnsMoves DEF SaveStoreProgress
    <2>2. QED
      BY <1>3, <1>10, <2>1, FreeIsIdle DEF SaveStoreProgress, said, ghosts
  <1>11. ASSUME NEW c \in Callers, CallerDies(c) PROVE StandingsHold'
    <2>1. SUFFICES ASSUME NEW p \in Products, p \notin muddled' PROVE StandsOrWill(p)'
      BY DEF StandingsHold
    <2>2. Moves(c, Free)
      BY <1>11, FreeIsIdle DEF CallerDies, Moves
    <2>3. p # caller[c].target /\ p \notin muddled
      BY <1>11, <2>1 DEF CallerDies
    <2>4. ~Awaits(caller[c], p) /\ ~Saves(caller[c], p) /\ ~Saves(Free, p)
      BY <2>3, FreeIsIdle DEF Awaits, Saves
    <2>5. UNCHANGED <<standing, merges, vouched, flagged, priced, entry>>
      BY <1>11 DEF CallerDies, records, said
    <2>6. QED
      BY <1>2, <2>1, <2>2, <2>3, <2>4, <2>5, StandingWaits DEF StandingsHold
  <1>12. ASSUME NEW c \in Callers, NEW u \in Shoppers, NEW e \in Entries, Flag(c, u, e)
         PROVE  StandingsHold'
    <2>1. /\ Asked(c, "flag", e, "flaggers") /\ UNCHANGED <<standing, merges, muddled>>
          /\ UNCHANGED <<entry, vouched, priced>> /\ flagged' = flagged \cup {<<e, u>>}
      BY <1>12 DEF Flag, records, ghosts
    <2>2. \A p \in Products \ {e} : Recount(p)' = Recount(p)
      BY <2>1, RecountStays
    <2>3. QED
      BY <2>1, <2>2, AskedKeepsStandings
  <1>13. ASSUME NEW c \in Callers, NEW u \in Shoppers, NEW e \in Products,
                Confirm(c, u, e) \/ Withdraw(c, u, e) \/ RecordContribution(c, u, e)
         PROVE  StandingsHold'
    <2>1. /\ \E op : Asked(c, op, e, "read")
          /\ UNCHANGED <<standing, merges, muddled, entry, flagged>>
          /\ \A p \in Products \ {e}, v \in Shoppers :
               /\ <<p, v>> \in vouched' <=> <<p, v>> \in vouched
               /\ <<p, v>> \in priced' <=> <<p, v>> \in priced
      BY <1>13 DEF Confirm, Withdraw, RecordContribution, records, ghosts
    <2>2. \A p \in Products \ {e} : Recount(p)' = Recount(p)
      BY <2>1, RecountStays
    <2>3. QED
      BY <2>1, <2>2, AskedKeepsStandings
  <1>14. ASSUME NEW c \in Callers, NEW e \in Entries, NEW action \in {"verify", "hide", "restore"},
                Moderate(c, e, action)
         PROVE  StandingsHold'
    <2>1. PICK pc : pc = IF e = Shop THEN "idle" ELSE "read"
      OBVIOUS
    <2>2. /\ Asked(c, "moderate", e, pc)
          /\ UNCHANGED <<standing, merges, muddled, vouched, flagged, priced>>
      BY <1>14, <2>1 DEF Moderate, said
    <2>3. \A p \in Products \ {e} : Recount(p)' = Recount(p)
      BY <1>14, <2>2, Moderated, RecountStays
    <2>4. pc # "save" /\ (e \in Products => pc \in {"flaggers", "read"})
      BY <2>1 DEF CommunityAssumption
    <2>5. QED
      BY <2>2, <2>3, <2>4, AskedKeepsStandings
  <1>15. ASSUME NEW c \in Callers, NEW from \in Products, NEW into \in Products, Merge(c, from, into)
         PROVE  StandingsHold'
    <2>1. SUFFICES ASSUME NEW p \in Products, p \notin muddled PROVE StandsOrWill(p)'
      BY <1>15 DEF StandingsHold, Merge
    <2>2. PICK k : Moves(c, k) /\ k.pc = "read" /\ k.target = into
      BY <1>15, AskedMoves DEF Merge
    <2>3. /\ caller[c].pc = "idle" /\ merges' = [merges EXCEPT ![from] = @ + 1]
          /\ UNCHANGED standing
      BY <1>15, AskedMoves DEF Merge
    <2>4. CASE p = from
      BY <2>3, <2>4 DEF StandsOrWill, CommunityShaped
    <2>5. CASE p = into
      BY <2>2, <2>5, StandingIsAwaited DEF Awaits
    <2>6. CASE p \notin {from, into}
      <3>1. ASSUME NEW rows, NEW u PROVE <<p, u>> \in Moved(rows, from, into) <=> <<p, u>> \in rows
        BY <2>6 DEF Moved
      <3>2. Recount(p)' = Recount(p)
        <4>1. entry'[p] = entry[p]
          BY <1>15, <2>6, MergedEntry
        <4>2. /\ vouched' = Moved(vouched, from, into) /\ flagged' = Moved(flagged, from, into)
              /\ priced' = Moved(priced, from, into)
          BY <1>15 DEF Merge
        <4>3. QED
          BY <3>1, <4>1, <4>2, RecountStays
      <3>3. ~Awaits(caller[c], p) /\ ~Saves(caller[c], p) /\ ~Saves(k, p)
        BY <2>2, <2>3 DEF Awaits, Saves
      <3>4. merges'[p] = merges[p]
        BY <2>3, <2>6 DEF CommunityShaped
      <3>5. QED
        BY <2>1, <2>2, <2>3, <3>2, <3>3, <3>4, StandingWaits DEF StandingsHold
    <2>7. QED
      BY <2>4, <2>5, <2>6
  <1>16. QED
    BY <1>1, <1>4, <1>5, <1>6, <1>7, <1>8, <1>9, <1>10, <1>11, <1>12, <1>13, <1>14, <1>15
    DEF CommunityNext, CallerStep

\* Once every request is through, a product stands where what people said of
\* it puts it, for any number of requests.
THEOREM StandingsTold == CommunitySpec => []StandingIsTrue
  <1>1. CommunityInit => CommunityTyped /\ StandingsHold
    <2>1. SUFFICES ASSUME CommunityInit PROVE CommunityTyped /\ StandingsHold
      OBVIOUS
    <2>2. CommunityTyped
      BY <2>1, CommunityStartsTyped
    <2>3. ASSUME NEW p \in Products PROVE StandsOrWill(p)
      <3>1. Recount(p) = [weight |-> 0, confirmations |-> 0, flags |-> 0]
        <4>1. /\ {u \in Shoppers \ {Creator} : <<p, u>> \in vouched} = {}
              /\ {u \in Shoppers \ {Creator} : <<p, u>> \in priced} = {}
              /\ Flaggers(p) = {} /\ entry[p].verified = FALSE
          BY <2>1 DEF CommunityInit, Flaggers, Entries
        <4>2. RankingWeight(FALSE, 0, 0, 0) = 0
          BY CommunityAssumption DEF RankingWeight, Lesser, CommunityAssumption
        <4>3. QED
          BY <4>1, <4>2, FS_EmptySet DEF Recount
      <3>2. \A c \in Callers : ~Saves(caller[c], p)
        BY <2>1, FreeIsIdle DEF CommunityInit, Saves
      <3>3. QED
        BY <2>1, <3>1, <3>2 DEF CommunityInit, StandsOrWill
    <2>4. QED
      BY <2>2, <2>3 DEF StandingsHold
  <1>2. CommunityTyped /\ StandingsHold /\ [CommunityNext]_communityVars
          => (CommunityTyped /\ StandingsHold)'
    BY CommunityAssumption, CommunityKeepsTypes, TypedIsShaped, CommunityKeepsStandings
  <1>3. StandingsHold => StandingIsTrue
    BY DEF StandingsHold, StandsOrWill, StandingIsTrue, Awaits, Saves
  <1>4. QED
    BY <1>1, <1>2, <1>3, PTL DEF CommunitySpec

-----------------------------------------------------------------------------
\* A merge does not make more products priced.
LEMMA MergeCountsNoMore ==
  ASSUME CommunityAssumption, priced \subseteq Products \X Shoppers,
         NEW from \in Products, NEW into \in Products, from # into,
         priced' = Moved(priced, from, into)
  PROVE  /\ Cardinality(PricedProducts) \in Nat /\ Cardinality(PricedProducts') \in Nat
         /\ Cardinality(PricedProducts') <= Cardinality(PricedProducts)
  <1>1. PICK was : was = PricedProducts
    OBVIOUS
  <1>2. PICK new : new = PricedProducts'
    OBVIOUS
  <1>3. IsFiniteSet(Products) /\ was \subseteq Products /\ new \subseteq Products
    BY <1>1, <1>2 DEF PricedProducts, CommunityAssumption
  <1>4. IsFiniteSet(was) /\ IsFiniteSet(new)
    BY <1>3, FS_Subset
  <1>5. Cardinality(was) \in Nat /\ Cardinality(new) \in Nat
    BY <1>4, FS_CardinalityType
  <1>6. ASSUME NEW p \in new PROVE p # from /\ (p \in was \/ (p = into /\ from \in was))
    <2>1. PICK u \in Shoppers : <<p, u>> \in Moved(priced, from, into)
      BY <1>2 DEF PricedProducts
    <2>2. PICK r \in priced : <<p, u>> = IF r[1] = from THEN <<into, r[2]>> ELSE r
      BY <2>1 DEF Moved
    <2>3. r = <<r[1], r[2]>> /\ r[1] \in Products /\ r[2] \in Shoppers
      OBVIOUS
    <2>4. r[1] \in was
      BY <1>1, <2>3 DEF PricedProducts
    <2>5. QED
      BY <2>2, <2>3, <2>4
  <1>7. CASE from \in was
    <2>1. new \subseteq (was \ {from}) \cup {into}
      BY <1>6
    <2>2. IsFiniteSet(was \ {from}) /\ Cardinality(was \ {from}) = Cardinality(was) - 1
      BY <1>4, <1>7, FS_RemoveElement
    <2>3. IsFiniteSet((was \ {from}) \cup {into})
          /\ Cardinality((was \ {from}) \cup {into}) <= Cardinality(was)
      <3>1. PICK rest : rest = was \ {from}
        OBVIOUS
      <3>2. IsFiniteSet(rest) /\ Cardinality(rest) = Cardinality(was) - 1
        BY <2>2, <3>1
      <3>3. /\ IsFiniteSet(rest \cup {into})
            /\ Cardinality(rest \cup {into})
                 = IF into \in rest THEN Cardinality(rest) ELSE Cardinality(rest) + 1
        BY <3>2, FS_AddElement
      <3>4. QED
        BY <1>5, <3>1, <3>2, <3>3
    <2>4. Cardinality(new) <= Cardinality((was \ {from}) \cup {into})
      BY <2>1, <2>3, FS_Subset
    <2>5. Cardinality((was \ {from}) \cup {into}) \in Nat
      BY <2>3, FS_CardinalityType
    <2>6. QED
      BY <1>1, <1>2, <1>5, <2>3, <2>4, <2>5
  <1>8. CASE from \notin was
    <2>1. new \subseteq was
      BY <1>6, <1>8
    <2>2. QED
      BY <1>1, <1>2, <1>4, <1>5, <2>1, FS_Subset
  <1>9. QED
    BY <1>7, <1>8

\* A step that leaves the handler who will publish on its way.
LEMMA PublicationWaits ==
  ASSUME CommunityShaped, PublicationIsDue, NEW c \in Callers, NEW k, Moves(c, k),
         priced' \subseteq Products \X Shoppers,
         ~delayed' => ~delayed /\ entry'[Shop].status = "ACTIVE",
         Publishable' => Publishable,
         Cardinality(PricedProducts') >= Needed => Cardinality(PricedProducts) >= Needed,
         Publishable' /\ k.pc = "counts" => k.public,
         Publishable' /\ Cardinality(PricedProducts) >= Needed /\ Publishes(caller[c])
           => Publishes(k)
  PROVE  PublicationIsDue'
  <1>1. caller'[c] = k /\ \A d \in Callers \ {c} : caller'[d] = caller[d]
    BY MovesApart
  <1>2. Publishable' => \A d \in Callers : caller'[d].pc = "counts" => caller'[d].public
    BY <1>1 DEF PublicationIsDue
  <1>3. ASSUME Publishable', Cardinality(PricedProducts') >= Needed
        PROVE  \E d \in Callers : Publishes(caller'[d])
    BY <1>1, <1>3 DEF PublicationIsDue
  <1>4. QED
    BY <1>2, <1>3 DEF PublicationIsDue

LEMMA CommunityKeepsPublication ==
  ASSUME CommunityShaped, CommunityAssumption, PublicationIsDue, [CommunityNext]_communityVars
  PROVE  PublicationIsDue'
  <1> USE DEF Entries
  <1>1. CASE UNCHANGED communityVars
    BY <1>1 DEF communityVars, PublicationIsDue, Publishable, PricedProducts
  \* A step that changes nothing but its caller, as far as the shop goes.
  <1>2. ASSUME NEW c \in Callers, NEW k, Moves(c, k), UNCHANGED <<priced, delayed>>,
               branch'.public = branch.public, entry'[Shop].status = entry[Shop].status,
               Publishable /\ k.pc = "counts" => k.public,
               Publishable /\ Cardinality(PricedProducts) >= Needed /\ Publishes(caller[c])
                 => Publishes(k)
        PROVE  PublicationIsDue'
    <2>1. PricedProducts' = PricedProducts /\ (Publishable' <=> Publishable)
      BY <1>2 DEF PricedProducts, Publishable
    <2>2. QED
      BY <1>2, <2>1, PublicationWaits DEF PublicationIsDue
  <1>3. ASSUME NEW c \in Callers, ReadFlaggers(c) PROVE PublicationIsDue'
    <2>1. PICK k : /\ Moves(c, k)
                   /\ k.pc = IF caller[c].target = Shop THEN "shop flags" ELSE "read"
      BY <1>3, ReadFlaggersMoves
    <2>2. ~Publishes(caller[c]) /\ k.pc # "counts"
      BY <1>3, <2>1 DEF ReadFlaggers, Publishes
    <2>3. UNCHANGED <<priced, delayed, branch, entry>>
      BY <1>3 DEF ReadFlaggers, records, said, ghosts
    <2>4. QED
      BY <1>2, <2>1, <2>2, <2>3
  <1>4. ASSUME NEW c \in Callers, SetStoreFlagCount(c) PROVE PublicationIsDue'
    <2>1. Goes(c, "hide")
      BY <1>4 DEF SetStoreFlagCount
    <2>2. PICK k : Moves(c, k) /\ k.pc = "hide"
      BY <2>1, GoesMoves
    <2>3. UNCHANGED <<priced, delayed, entry>> /\ branch'.public = branch.public
      BY <1>4 DEF SetStoreFlagCount, said, ghosts, CommunityShaped, BranchRecord
    <2>4. ~Publishes(caller[c])
      BY <1>4 DEF SetStoreFlagCount, Publishes
    <2>5. QED
      BY <1>2, <2>2, <2>3, <2>4
  <1>5. ASSUME NEW c \in Callers, PullByFlags(c) PROVE PublicationIsDue'
    <2>1. Moves(c, Free) /\ ~Publishes(caller[c]) /\ Free.pc # "counts"
      BY <1>5, ReturnsMoves, FreeIsIdle DEF PullByFlags, Publishes
    <2>2. UNCHANGED <<priced, branch>>
      BY <1>5 DEF PullByFlags, said
    <2>3. ~delayed' => ~delayed /\ entry'[Shop] = entry[Shop]
      <3>1. CASE UNCHANGED <<entry, delayed>>
        BY <3>1
      <3>2. CASE delayed' = (delayed \/ caller[c].target = Shop)
        BY <1>5, <3>2, Pulled
      <3>3. QED
        BY <1>5, <3>1, <3>2 DEF PullByFlags
    <2>4. PricedProducts' = PricedProducts /\ (Publishable' => Publishable)
      BY <2>2, <2>3 DEF PricedProducts, Publishable
    <2>5. QED
      BY <2>1, <2>2, <2>3, <2>4, PublicationWaits DEF PublicationIsDue
  <1>6. ASSUME NEW c \in Callers, ReadSignals(c) PROVE PublicationIsDue'
    <2>1. PICK k : Moves(c, k) /\ k.pc = "save" /\ k.op = caller[c].op
      BY <1>6, ReadSignalsMoves
    <2>2. Publishes(caller[c]) => Publishes(k)
      BY <2>1 DEF Publishes
    <2>3. UNCHANGED <<priced, delayed, branch, entry>>
      BY <1>6 DEF ReadSignals, records, said
    <2>4. QED
      BY <1>2, <2>1, <2>2, <2>3
  <1>7. ASSUME NEW c \in Callers, SaveProductStanding(c) PROVE PublicationIsDue'
    <2>1. UNCHANGED <<priced, delayed, branch, entry>>
      BY <1>7 DEF SaveProductStanding, said, ghosts
    <2>2. CASE caller[c].op = "price"
      <3>1. Goes(c, "shop")
        BY <1>7, <2>2 DEF SaveProductStanding
      <3>2. PICK k : Moves(c, k) /\ k.pc = "shop" /\ k.op = caller[c].op
        BY <3>1, GoesMoves
      <3>3. Publishes(k)
        BY <2>2, <3>2 DEF Publishes
      <3>4. QED
        BY <1>2, <2>1, <3>2, <3>3
    <2>3. CASE caller[c].op # "price"
      <3>1. PICK k : Moves(c, k) /\ k.pc \in {"hide", "idle"}
        BY <1>7, <2>3, GoesMoves, ReturnsMoves, FreeIsIdle DEF SaveProductStanding
      <3>2. QED
        BY <1>2, <2>1, <2>3, <3>1 DEF Publishes
    <2>4. QED
      BY <2>2, <2>3
  <1>8. ASSUME NEW c \in Callers, ReadShop(c) PROVE PublicationIsDue'
    <2>1. PICK k : /\ Moves(c, k) /\ k.pc = "counts" /\ k.op = caller[c].op
                   /\ k.public = (~branch.public /\ entry[Shop].status = "ACTIVE")
      BY <1>8, ReadShopMoves
    <2>2. Publishes(caller[c]) => Publishes(k)
      BY <2>1 DEF Publishes
    <2>3. Publishable => k.public
      BY <2>1 DEF Publishable, PublicationIsDue
    <2>4. UNCHANGED <<priced, delayed, branch, entry>>
      BY <1>8 DEF ReadShop, records, said, ghosts
    <2>5. QED
      BY <1>2, <2>1, <2>2, <2>3, <2>4
  <1>9. ASSUME NEW c \in Callers, CountStore(c) PROVE PublicationIsDue'
    <2>1. PICK k : /\ Moves(c, k) /\ k.pc = "progress" /\ k.op = caller[c].op
                   /\ k.public = (caller[c].public /\ Cardinality(PricedProducts) >= Needed)
      BY <1>9, CountStoreMoves
    <2>2. Publishable => caller[c].public
      BY <1>9 DEF CountStore, PublicationIsDue
    <2>3. Publishable /\ Cardinality(PricedProducts) >= Needed /\ Publishes(caller[c])
            => Publishes(k)
      BY <2>1, <2>2 DEF Publishes
    <2>4. UNCHANGED <<priced, delayed, branch, entry>>
      BY <1>9 DEF CountStore, records, said, ghosts
    <2>5. QED
      BY <1>2, <2>1, <2>3, <2>4
  <1>10. ASSUME NEW c \in Callers, SaveStoreProgress(c) PROVE PublicationIsDue'
    <2>1. Moves(c, Free) /\ Free.pc # "counts"
      BY <1>10, ReturnsMoves, FreeIsIdle DEF SaveStoreProgress
    <2>2. UNCHANGED <<priced, delayed, entry>> /\ caller[c].pc = "progress"
      BY <1>10 DEF SaveStoreProgress, said, ghosts
    <2>3. branch'.public = (branch.public \/ caller[c].public)
      <3>1. PICK h : h = [branch EXCEPT !.counted = Cardinality(caller[c].seen)]
        OBVIOUS
      <3>2. BranchRecord(h) /\ h.public = branch.public
        BY <3>1 DEF CommunityShaped, BranchRecord
      <3>3. branch' = [h EXCEPT !.public = branch.public \/ caller[c].public]
        BY <1>10, <3>1, <3>2 DEF SaveStoreProgress
      <3>4. QED
        BY <3>2, <3>3 DEF BranchRecord
    <2>4. PricedProducts' = PricedProducts /\ (Publishable' => Publishable)
      BY <2>2, <2>3 DEF PricedProducts, Publishable
    <2>5. Publishable' => ~Publishes(caller[c])
      BY <2>2, <2>3 DEF Publishable, Publishes
    <2>6. QED
      BY <2>1, <2>2, <2>4, <2>5, PublicationWaits DEF PublicationIsDue
  <1>11. ASSUME NEW c \in Callers, CallerDies(c) PROVE PublicationIsDue'
    <2>1. Moves(c, Free) /\ Free.pc # "counts"
      BY <1>11, FreeIsIdle DEF CallerDies, Moves
    <2>2. UNCHANGED <<priced, branch, entry>> /\ (delayed' = (delayed \/ caller[c].op = "price"))
      BY <1>11 DEF CallerDies, records, said
    <2>3. PricedProducts' = PricedProducts /\ (Publishable' => Publishable /\ ~Publishes(caller[c]))
      BY <2>2 DEF PricedProducts, Publishable, Publishes
    <2>4. QED
      BY <2>1, <2>2, <2>3, PublicationWaits DEF PublicationIsDue
  \* Requests and moderators: who asks was publishing nothing.
  <1>12. ASSUME NEW c \in Callers, NEW op, NEW e, NEW pc, Asked(c, op, e, pc), pc # "counts"
         PROVE  \E k : Moves(c, k) /\ k.pc # "counts" /\ ~Publishes(caller[c])
                       /\ (op = "price" /\ pc = "read" => Publishes(k))
    BY <1>12, AskedMoves DEF Publishes
  <1>13. ASSUME NEW c \in Callers, NEW u \in Shoppers, NEW e \in Entries, Flag(c, u, e)
         PROVE  PublicationIsDue'
    <2>1. PICK k : Moves(c, k) /\ k.pc # "counts" /\ ~Publishes(caller[c])
      BY <1>12, <1>13 DEF Flag
    <2>2. UNCHANGED <<priced, delayed, branch, entry>>
      BY <1>13 DEF Flag, records, ghosts
    <2>3. QED
      BY <1>2, <2>1, <2>2
  <1>14. ASSUME NEW c \in Callers, NEW u \in Shoppers, NEW e \in Products,
                Confirm(c, u, e) \/ Withdraw(c, u, e)
         PROVE  PublicationIsDue'
    <2>1. PICK k : Moves(c, k) /\ k.pc # "counts" /\ ~Publishes(caller[c])
      BY <1>12, <1>14 DEF Confirm, Withdraw
    <2>2. UNCHANGED <<priced, delayed, branch, entry>>
      BY <1>14 DEF Confirm, Withdraw, records, ghosts
    <2>3. QED
      BY <1>2, <2>1, <2>2
  <1>15. ASSUME NEW c \in Callers, NEW u \in Shoppers, NEW e \in Products, RecordContribution(c, u, e)
         PROVE  PublicationIsDue'
    <2>1. PICK k : Moves(c, k) /\ k.pc # "counts" /\ Publishes(k)
      BY <1>12, <1>15 DEF RecordContribution
    <2>2. UNCHANGED <<delayed, branch, entry>> /\ priced' = priced \cup {<<e, u>>}
      BY <1>15 DEF RecordContribution, records, ghosts
    <2>3. caller'[c] = k /\ \A d \in Callers \ {c} : caller'[d] = caller[d]
      BY <2>1, MovesApart
    <2>4. QED
      BY <2>1, <2>2, <2>3 DEF PublicationIsDue, Publishable
  <1>16. ASSUME NEW c \in Callers, NEW e \in Entries, NEW action \in {"verify", "hide", "restore"},
                Moderate(c, e, action)
         PROVE  PublicationIsDue'
    <2>1. PICK k : Moves(c, k) /\ k.pc # "counts" /\ ~Publishes(caller[c])
      BY <1>12, <1>16 DEF Moderate
    <2>2. UNCHANGED priced /\ (delayed' = (delayed \/ (e = Shop /\ action = "hide")))
      BY <1>16 DEF Moderate, said
    <2>3. branch'.public = (branch.public \/ (e = Shop /\ action = "verify"))
      BY <1>16 DEF Moderate, CommunityShaped, BranchRecord
    <2>4. ~delayed' => ~delayed /\ entry'[Shop].status = "ACTIVE"
      BY <1>16, <2>2, Moderated DEF PublicationIsDue
    <2>5. PricedProducts' = PricedProducts /\ (Publishable' => Publishable)
      BY <2>2, <2>3 DEF PricedProducts, Publishable
    <2>6. QED
      BY <2>1, <2>2, <2>4, <2>5, PublicationWaits DEF PublicationIsDue
  <1>17. ASSUME NEW c \in Callers, NEW from \in Products, NEW into \in Products, Merge(c, from, into)
         PROVE  PublicationIsDue'
    <2>1. PICK k : Moves(c, k) /\ k.pc # "counts" /\ ~Publishes(caller[c])
      BY <1>12, <1>17 DEF Merge
    <2>2. /\ UNCHANGED <<delayed, branch>> /\ from # into /\ priced' = Moved(priced, from, into)
      BY <1>17 DEF Merge
    <2>3. priced' \subseteq Products \X Shoppers
      BY <2>2 DEF Moved, PublicationIsDue
    <2>4. /\ Cardinality(PricedProducts) \in Nat /\ Cardinality(PricedProducts') \in Nat
          /\ Cardinality(PricedProducts') <= Cardinality(PricedProducts)
      BY <2>2, MergeCountsNoMore DEF PublicationIsDue
    <2>5. Cardinality(PricedProducts') >= Needed => Cardinality(PricedProducts) >= Needed
      BY <2>4 DEF CommunityAssumption
    <2>6. entry'[Shop] = entry[Shop]
      BY <1>17, MergedEntry DEF CommunityAssumption
    <2>7. QED
      BY <2>1, <2>2, <2>3, <2>5, <2>6, PublicationWaits DEF PublicationIsDue, Publishable
  <1>18. QED
    BY <1>1, <1>3, <1>4, <1>5, <1>6, <1>7, <1>8, <1>9, <1>10, <1>11, <1>13, <1>14, <1>15, <1>16,
       <1>17
    DEF CommunityNext, CallerStep

\* A shop whose tenth product is priced is public, or a handler under way will
\* publish it, unless it was pulled or hidden or a handler was cut off.
THEOREM TenthPriceCounts == CommunitySpec => []TenthPricePublishes
  <1>1. CommunityInit => CommunityTyped /\ PublicationIsDue
    <2>1. SUFFICES ASSUME CommunityInit PROVE CommunityTyped /\ PublicationIsDue
      OBVIOUS
    <2>2. CommunityTyped
      BY <2>1, CommunityStartsTyped
    <2>3. PricedProducts = {} /\ Needed \in Nat \ {0}
      BY <2>1, CommunityAssumption DEF CommunityInit, PricedProducts, CommunityAssumption
    <2>4. ~(Cardinality(PricedProducts) >= Needed)
      BY <2>3, FS_EmptySet
    <2>5. QED
      BY <2>1, <2>2, <2>4, FreeIsIdle DEF CommunityInit, PublicationIsDue, Entries
  <1>2. CommunityTyped /\ PublicationIsDue /\ [CommunityNext]_communityVars
          => (CommunityTyped /\ PublicationIsDue)'
    BY CommunityAssumption, CommunityKeepsTypes, TypedIsShaped, CommunityKeepsPublication
  <1>3. PublicationIsDue => TenthPricePublishes
    <2>1. SUFFICES ASSUME PublicationIsDue, ~delayed, ~branch.public,
                          \A c \in Callers : caller[c].op # "price"
                   PROVE  Cardinality(PricedProducts) < Needed
      BY DEF TenthPricePublishes
    <2>2. ~(Cardinality(PricedProducts) >= Needed)
      BY <2>1 DEF PublicationIsDue, Publishable, Publishes
    <2>3. Cardinality(PricedProducts) \in Nat
      BY CommunityAssumption, FS_Subset, FS_CardinalityType DEF CommunityAssumption, PricedProducts
    <2>4. QED
      BY <2>2, <2>3, CommunityAssumption DEF CommunityAssumption
  <1>4. QED
    BY <1>1, <1>2, <1>3, PTL DEF CommunitySpec

-----------------------------------------------------------------------------
(***************************************************************************)
(* NearbyStores: rows, distances, hours, and what is answered.             *)
(***************************************************************************)
\* Of n members put in a row, each once, every one has its place.
LEMMA EveryOneIsPlaced ==
  ASSUME NEW S, IsFiniteSet(S), NEW seq \in [1 .. Cardinality(S) -> S],
         \A i, j \in 1 .. Cardinality(S) : i < j => seq[i] # seq[j]
  PROVE  \A p \in S : \E k \in 1 .. Cardinality(S) : seq[k] = p
  <1>1. Cardinality(S) \in Nat
    BY FS_CardinalityType
  <1>2. IsFiniteSet(1 .. Cardinality(S)) /\ Cardinality(1 .. Cardinality(S)) = Cardinality(S)
    BY <1>1, FS_Interval
  <1>3. \A i, j \in 1 .. Cardinality(S) : seq[i] = seq[j] => i = j
    <2>1. SUFFICES ASSUME NEW i \in 1 .. Cardinality(S), NEW j \in 1 .. Cardinality(S), seq[i] = seq[j], i # j
                   PROVE FALSE
      OBVIOUS
    <2>2. i < j \/ j < i
      BY <1>1, <2>1
    <2>3. QED
      BY <2>1, <2>2
  <1>4. seq \in Injection(1 .. Cardinality(S), S)
    BY <1>3 DEF Injection, IsInjective
  <1>5. seq \in Surjection(1 .. Cardinality(S), S)
    BY <1>2, <1>4, FS_Injection
  <1>6. QED
    BY <1>5 DEF Surjection

\* A slice of n members: the first of them, as many as are asked for.
StartsWith(seq, n, limit) ==
  \E m \in Nat : /\ m <= n /\ m <= limit /\ (m = n \/ m = limit)
                /\ Len(Slice(seq, limit)) = m /\ DOMAIN Slice(seq, limit) = 1 .. m
                /\ \A i \in 1 .. m : Slice(seq, limit)[i] = seq[i]

LEMMA FirstOnes ==
  ASSUME NEW S, NEW seq \in Seq(S), NEW n \in Nat, n = Len(seq), NEW limit \in Nat
  PROVE  StartsWith(seq, n, limit)
  <1>1. seq \in [1 .. n -> S]
    OBVIOUS
  <1>2. PICK m \in Nat : m = (IF limit < n THEN limit ELSE n) /\ m <= n /\ m <= limit /\ (m = n \/ m = limit)
    OBVIOUS
  <1>3. Min({limit, n}) = m
    BY <1>2 DEF Min
  <1>4. Slice(seq, limit) = SubSeq(seq, 1, m)
    BY <1>1, <1>3 DEF Slice
  <1>5. \A i \in 1 .. m : seq[i] \in S
    BY <1>1, <1>2
  <1>6. /\ SubSeq(seq, 1, m) \in Seq(S) /\ Len(SubSeq(seq, 1, m)) = m
        /\ \A i \in 1 .. m : SubSeq(seq, 1, m)[i] = seq[i]
    BY <1>5, SubSeqProperties, m \in Int, 1 \in Int
  <1>7. DOMAIN SubSeq(seq, 1, m) = 1 .. m
    BY <1>6, LenProperties
  <1>8. QED
    BY <1>2, <1>4, <1>6, <1>7 DEF StartsWith

\* The first of a row of everyone: those asked for, and whoever is not among
\* them comes later.
HeadsARow(first, S, seq, limit) ==
  /\ Len(first) \in Nat /\ Len(first) <= Cardinality(S) /\ Len(first) <= limit
  /\ DOMAIN first = 1 .. Len(first)
  /\ \A i \in 1 .. Len(first) : first[i] = seq[i] /\ first[i] \in S
  /\ \A p \in S : p \in {first[i] : i \in DOMAIN first} \/
       (Len(first) = limit /\ \E k \in 1 .. Cardinality(S) : seq[k] = p /\ k > Len(first))

LEMMA FirstOfARow ==
  ASSUME NEW S, IsFiniteSet(S), NEW seq \in [1 .. Cardinality(S) -> S], NEW limit \in Nat,
         \A i, j \in 1 .. Cardinality(S) : i < j => seq[i] # seq[j]
  PROVE  HeadsARow(Slice(seq, limit), S, seq, limit)
  <1> DEFINE first == Slice(seq, limit)
  <1>1. PICK N \in Nat : N = Cardinality(S)
    BY FS_CardinalityType
  <1>2. seq \in [1 .. N -> S] /\ \A p \in S : \E k \in 1 .. N : seq[k] = p
    BY <1>1, EveryOneIsPlaced
  <1>3. StartsWith(seq, N, limit)
    <2>1. seq \in Seq(S) /\ Len(seq) = N
      BY <1>2
    <2>2. QED
      BY <2>1, FirstOnes
  <1>4. PICK m \in Nat : /\ m <= N /\ m <= limit /\ (m = N \/ m = limit)
                        /\ Len(first) = m /\ DOMAIN first = 1 .. m /\ \A i \in 1 .. m : first[i] = seq[i]
    BY <1>3 DEF StartsWith
  <1>6. \A i \in 1 .. m : seq[i] \in S
    <2>1. \A i \in 1 .. m : i \in 1 .. N
      BY <1>4
    <2>2. QED
      BY <1>2, <2>1
  <1>7. ASSUME NEW p \in S, p \notin {first[i] : i \in DOMAIN first}
        PROVE  m = limit /\ \E k \in 1 .. N : seq[k] = p /\ k > m
    <2>1. PICK k \in 1 .. N : seq[k] = p
      BY <1>2
    <2>2. k \notin 1 .. m
      BY <1>4, <1>7, <2>1
    <2>3. k > m
      BY <2>2
    <2>4. m = limit
      BY <1>4, <2>3
    <2>5. QED
      BY <2>1, <2>3, <2>4
  <1>8. QED
    BY <1>1, <1>4, <1>6, <1>7 DEF HeadsARow

LEMMA Roots ==
  ASSUME NEW a \in Nat, NEW b \in Nat, a * a <= b * b
  PROVE  a <= b
  <1>1. SUFFICES ASSUME a > b PROVE FALSE
    OBVIOUS
  <1>2. a * a > b * b
    BY <1>1, Z3
  <1>3. QED
    BY <1>2

LEMMA SquareOfAbs == ASSUME NEW n \in Int PROVE Abs(n) \in Nat /\ Abs(n) * Abs(n) = n * n
  BY Z3 DEF Abs

LEMMA LegIsShorter ==
  ASSUME NEW a \in Nat, NEW b \in Nat, NEW c \in Nat, NEW r \in Nat,
         (a * a + b * b) * c * c <= r * r
  PROVE  a * c <= r
  <1>1. (a * a + b * b) * c * c = (a * c) * (a * c) + (b * c) * (b * c)
    BY Z3
  <1>2. a * c \in Nat /\ b * c \in Nat
    BY Z3
  <1>3. (b * c) * (b * c) >= 0 /\ (a * c) * (a * c) \in Nat
    BY <1>2, Z3
  <1>4. (a * c) * (a * c) <= r * r
    BY <1>1, <1>3, r * r \in Nat
  <1>5. QED
    BY <1>2, <1>4, Roots

\* What lies well within the circle lies in the box.
LEMMA SurelyInBox ==
  ASSUME NEW spot \in Int \X Int, NEW radius \in Nat, WithinRadius(spot, Surely(radius))
  PROVE  InsideBox(spot, radius) /\ WithinRadius(spot, radius)
  <1> DEFINE q == radius \div 500  s == radius % 500  w == radius - q
  <1>1. q \in Nat /\ s \in 0 .. 499 /\ radius = 500 * q + s
    BY Division, 500 \in Nat \ {0}
  <1>2. w \in Nat /\ w <= radius
    BY <1>1
  <1>3. PICK north, east \in Int : spot = <<north, east>>
    OBVIOUS
  <1>4. Abs(north) \in Nat /\ Abs(east) \in Nat /\ Abs(north) * Abs(north) = north * north /\ Abs(east) * Abs(east) = east * east
    BY SquareOfAbs
  <1>5. (north * north + east * east) * SphereArc * SphereArc <= w * w
    BY <1>3 DEF WithinRadius, Surely, Squared
  <1>6. Abs(north) * SphereArc <= w /\ Abs(east) * SphereArc <= w
    <2>1. (Abs(north) * Abs(north) + Abs(east) * Abs(east)) * SphereArc * SphereArc <= w * w
      BY <1>4, <1>5
    <2>2. (Abs(east) * Abs(east) + Abs(north) * Abs(north)) * SphereArc * SphereArc <= w * w
      BY <1>4, <1>5
    <2>3. SphereArc \in Nat
      BY DEF SphereArc
    <2>4. QED
      BY <1>2, <1>4, <2>1, <2>2, <2>3, LegIsShorter
  <1>7. Abs(north) * BoxArc <= radius /\ Abs(east) * BoxArc <= radius
    BY <1>1, <1>4, <1>6 DEF SphereArc, BoxArc
  <1>8. w * w <= radius * radius
    BY <1>2, Z3
  <1>9. QED
    <2>1. InsideBox(spot, radius)
      BY <1>3, <1>7 DEF InsideBox
    <2>2. (north * north + east * east) * SphereArc * SphereArc \in Int /\ w * w \in Int /\ radius * radius \in Int
      BY <1>2 DEF SphereArc
    <2>3. WithinRadius(spot, radius)
      BY <1>3, <1>5, <1>8, <2>2 DEF WithinRadius, Squared
    <2>4. QED
      BY <2>1, <2>3

\* A remainder is the only one.
LEMMA RemainderIs ==
  ASSUME NEW a \in Int, NEW b \in Nat \ {0}, NEW k \in Int, NEW r \in 0 .. b - 1, a = b * k + r
  PROVE  a % b = r
  <1> DEFINE q == a \div b  p == a % b
  <1>1. q \in Int /\ p \in 0 .. b - 1 /\ a = b * q + p
    BY Division
  <1>2. b * (k - q) = p - r
    BY <1>1, Z3
  <1>3. k = q
    <2>1. ASSUME k - q >= 1 PROVE FALSE
      <3>1. b * (k - q) >= b
        BY <1>1, <2>1, Z3
      <3>2. QED
        BY <1>1, <1>2, <3>1
    <2>2. ASSUME k - q <= -1 PROVE FALSE
      <3>1. b * (k - q) <= -b
        BY <1>1, <2>2, Z3
      <3>2. QED
        BY <1>1, <1>2, <3>1
    <2>3. QED
      BY <1>1, <2>1, <2>2
  <1>4. QED
    BY <1>1, <1>2, <1>3

\* A day times its minutes.
LEMMA DaysPassed ==
  ASSUME NEW d \in Int, NEW m \in Nat \ {0}
  PROVE  /\ d * m \in Int
         /\ d = 0 => d * m = 0
         /\ d >= 1 => d * m >= m
         /\ d >= 2 => d * m >= 2 * m
         /\ d <= -1 => d * m <= -m
         /\ d = 1 => d * m = m
  BY Z3

\* An interval that begins on a day e at o and ends at c, seen on a day d at m.
LEMMA WithinTheInterval ==
  ASSUME NEW D \in Nat \ {0}, NEW M \in Nat \ {0}, NEW d \in 0 .. D - 1, NEW e \in 0 .. D - 1,
         NEW m \in 0 .. M - 1, NEW o \in 0 .. M - 1, NEW c \in 0 .. M - 1
  PROVE  LET ago == (d - e) * M + m - o
             since == IF ago >= 0 THEN ago ELSE ago + D * M IN
         since < c - o + (IF c > o THEN 0 ELSE M) <=>
             IF c > o THEN e = d /\ m >= o /\ m < c
             ELSE (e = d /\ m >= o) \/ (e = (d + D - 1) % D /\ m < c)
  <1>1. PICK span \in Int : span = (d - e) * M
    OBVIOUS
  <1>2. PICK week \in Nat \ {0} : week = D * M /\ week >= M /\ (D >= 2 => week >= 2 * M) /\ (D = 1 => week = M)
    <2>1. D * M \in Nat \ {0} /\ D * M >= M /\ (D >= 2 => D * M >= 2 * M) /\ (D = 1 => D * M = M)
      BY Z3
    <2>2. QED
      BY <2>1
  <1>3. PICK before \in 0 .. D - 1 : /\ before = (d + D - 1) % D
                                     /\ before = IF d = 0 THEN D - 1 ELSE d - 1
    <2>1. CASE d = 0
      BY <2>1, RemainderIs, D - 1 = D * 0 + (D - 1), D - 1 \in 0 .. D - 1
    <2>2. CASE d # 0
      BY <2>2, RemainderIs, d + D - 1 = D * 1 + (d - 1), d - 1 \in 0 .. D - 1, d + D - 1 \in Int
    <2>3. QED
      BY <2>1, <2>2
  <1> DEFINE ago == span + m - o
             since == IF ago >= 0 THEN ago ELSE ago + week
  <1>4. since < c - o + (IF c > o THEN 0 ELSE M) <=>
             IF c > o THEN e = d /\ m >= o /\ m < c
             ELSE (e = d /\ m >= o) \/ (e = before /\ m < c)
    <2>1. CASE d = e
      <3>1. span = 0
        BY <1>1, <2>1
      <3>2. before = e <=> D = 1
        BY <1>3, <2>1
      <3>3. QED
        BY <1>2, <2>1, <3>1, <3>2
    <2>2. CASE d > e
      <3>1. span >= M /\ (d - e = 1 => span = M) /\ (d - e >= 2 => span >= 2 * M)
        BY <1>1, <2>2, DaysPassed, d - e \in Int
      <3>2. before = e <=> d - e = 1
        BY <1>3, <2>2
      <3>3. QED
        BY <1>2, <2>2, <3>1, <3>2
    <2>3. CASE d < e
      <3>1. span <= -M
        BY <1>1, <2>3, DaysPassed, d - e \in Int
      <3>2. (D + d - e) * M = week + span
        BY <1>1, <1>2, Z3
      <3>3. /\ week + span >= M /\ (D + d - e = 1 => week + span = M)
            /\ (D + d - e >= 2 => week + span >= 2 * M)
        BY <2>3, <3>2, DaysPassed, D + d - e \in Int
      <3>4. before = e <=> D + d - e = 1
        BY <1>3, <2>3
      <3>5. QED
        BY <1>2, <2>3, <3>1, <3>3, <3>4
    <2>4. QED
      BY <2>1, <2>2, <2>3
  <1>5. QED
    BY <1>1, <1>2, <1>3, <1>4

\* The clock of the place says that a shop is open just as long as its
\* interval lasts from its start, the end of the day and of the week included.
LEMMA OpenByTheClock ==
  ASSUME NEW h \in OpeningHours, NEW at \in Int, NEW zone \in Int, Malformed \notin {h.opens, h.closes}
  PROVE  OpenIn(h, WallClock(at, zone)) <=> InsideInterval(h, at, zone)
  <1>1. PICK D \in Nat \ {0}, M \in Nat \ {0}, instant \in Int :
          D = DaysPerWeek /\ M = MinutesPerDay /\ instant = at + zone
    BY NearbyAssumption DEF NearbyAssumption
  <1>2. PICK e \in 0 .. D - 1, o \in 0 .. M - 1, c \in 0 .. M - 1 :
          e = h.day /\ o = h.opens /\ c = h.closes
    BY <1>1 DEF OpeningHours
  <1>3. PICK t, d, m : t = instant % (D * M) /\ d = t \div M /\ m = t % M
    OBVIOUS
  <1> DEFINE ago == (d - e) * M + m - o
             since == IF ago >= 0 THEN ago ELSE ago + D * M
             inside == IF c > o THEN e = d /\ m >= o /\ m < c
                       ELSE (e = d /\ m >= o) \/ (e = (d + D - 1) % D /\ m < c)
  <1>4. /\ d \in 0 .. D - 1 /\ m \in 0 .. M - 1
        /\ (instant - (e * M + o)) % (D * M) = since
    <2>1. PICK week \in Nat \ {0} : week = D * M /\ week >= M
      <3>1. D * M \in Nat \ {0} /\ D * M >= M
        BY Z3
      <3>2. QED
        BY <3>1
    <2>2. t \in 0 .. week - 1 /\ \E k \in Int : instant = week * k + t
      BY <1>3, <2>1, Division
    <2> PICK k \in Int : instant = week * k + t
      BY <2>2
    <2>3. d \in Int /\ m \in 0 .. M - 1 /\ t = M * d + m
      BY <1>3, <2>2, Division, t \in Int
    <2>4. d \in 0 .. D - 1
      <3>1. ASSUME d <= -1 PROVE FALSE
        <4>1. M * d <= -M
          BY <2>3, <3>1, Z3
        <4>2. QED
          BY <2>2, <2>3, <4>1
      <3>2. ASSUME d >= D PROVE FALSE
        <4>1. M * d >= D * M
          BY <2>3, <3>2, Z3
        <4>2. QED
          BY <2>1, <2>2, <2>3, <4>1
      <3>3. QED
        BY <2>3, <3>1, <3>2
    <2>5. PICK start \in Nat : start = e * M + o /\ start < week
      <3>1. e * M <= (D - 1) * M /\ (D - 1) * M = D * M - M /\ e * M >= 0 /\ e * M \in Int
        BY Z3
      <3>2. e * M + o \in Nat /\ e * M + o < week
        BY <2>1, <3>1
      <3>3. QED
        BY <3>2
    <2>6. (d - e) * M + m - o = t - start
      <3>1. (d - e) * M = M * d - e * M /\ M * d \in Int /\ e * M \in Int
        BY <2>3, Z3
      <3>2. QED
        BY <2>2, <2>3, <2>5, <3>1
    <2>7. (instant - start) % week = IF t - start >= 0 THEN t - start ELSE t - start + week
      <3>1. week * k \in Int /\ week * (k - 1) = week * k - week
        BY Z3
      <3>2. PICK a \in Int : a = instant - start
        BY <2>5
      <3>3. CASE t - start >= 0
        <4>1. PICK r \in 0 .. week - 1 : r = t - start
          BY <2>2, <2>5, <3>3
        <4>2. a = week * k + r
          BY <2>2, <3>1, <3>2, <4>1
        <4>3. a % week = r
          BY <4>2, RemainderIs
        <4>4. QED
          BY <2>2, <2>5, <3>2, <3>3, <4>1, <4>3
      <3>4. CASE t - start < 0
        <4>1. PICK r \in 0 .. week - 1 : r = t - start + week
          BY <2>2, <2>5, <3>4
        <4>2. PICK l \in Int : l = k - 1
          OBVIOUS
        <4>3. a = week * l + r
          BY <2>2, <3>1, <3>2, <4>1, <4>2
        <4>4. a % week = r
          BY <4>3, RemainderIs
        <4>5. QED
          BY <2>2, <2>5, <3>2, <3>4, <4>1, <4>4
      <3>5. QED
        BY <2>2, <2>5, <3>3, <3>4
    <2>8. QED
      BY <2>1, <2>2, <2>3, <2>4, <2>5, <2>6, <2>7
  <1>6. since < c - o + (IF c > o THEN 0 ELSE M) <=> inside
    BY <1>4, WithinTheInterval
  <1> HIDE DEF since, inside
  <1>7. InsideInterval(h, at, zone) <=> since < c - o + (IF c > o THEN 0 ELSE M)
    BY <1>1, <1>2, <1>4 DEF InsideInterval
  <1>8. OpenIn(h, WallClock(at, zone)) <=> inside
    BY <1>1, <1>2, <1>3 DEF OpenIn, WallClock, inside
  <1>9. QED
    BY <1>6, <1>7, <1>8

\* Shops and what is asked are of their types, and falls are finitely many.
NearbyTyped ==
    /\ place \in [Places -> StoreLocation]
    /\ IsFiniteSet(DOMAIN fall) /\ \A f \in DOMAIN fall : fall[f] \in PriceDrop
    /\ visit \in NearbyStoresQueryDto \cup NearbyPriceDropsQueryDto

NearbyHolds == NearbyTyped /\ NearbyIsTrue

LEMMA PlacesMeasure ==
  ASSUME NearbyTyped, NEW p \in Places
  PROVE  /\ place[p].spot \in Int \X Int /\ Far(p) \in Int
         /\ place[p].hours \subseteq OpeningHours /\ place[p].zone \in Int
  <1>1. place[p] \in StoreLocation
    BY DEF NearbyTyped
  <1>2. place[p].spot \in Int \X Int /\ place[p].hours \subseteq OpeningHours /\ place[p].zone \in Int
    BY <1>1 DEF StoreLocation
  <1>3. PICK north, east \in Int : place[p].spot = <<north, east>>
    BY <1>2
  <1>4. QED
    BY <1>2, <1>3 DEF Far, Squared

\* The rows that are read are of the box, and all of it if there are no more.
LEMMA RowsAreInTheBox ==
  ASSUME NEW v, NEW viewer, NEW n, NEW rows \in FindWithinBox(v, viewer, n)
  PROVE  /\ rows \subseteq InBoxOf(v, viewer)
         /\ Cardinality(InBoxOf(v, viewer)) <= n => rows = InBoxOf(v, viewer)
  BY DEF FindWithinBox, kSubset

\* Nearest first, and nobody nearer left out.
LEMMA StoresAreNearest ==
  ASSUME IsFiniteSet(Places), NearbyTyped, FindNearby
  PROVE  NearestFirst'
  <1>1. visit.limit \in Nat \ {0} /\ visit.radius \in Nat
    BY DEF NearbyTyped, NearbyStoresQueryDto, NearbyPriceDropsQueryDto
  <1>2. PICK rows \in FindWithinBox(visit, TRUE, visit.limit * OverFetch) :
          \E seq \in Sorted(Kept(rows, visit), NearerPlace) :
            page' = [ready |-> TRUE, places |-> Slice(seq, visit.limit),
                     open |-> {p \in rows : IsOpenAt(place[p].hours, visit.now, place[p].zone)}]
    BY DEF FindNearby
  <1>3. PICK seq \in Sorted(Kept(rows, visit), NearerPlace) : page'.places = Slice(seq, visit.limit)
    BY <1>2
  <1>4. /\ rows \subseteq InBoxOf(visit, TRUE)
        /\ Cardinality(InBoxOf(visit, TRUE)) <= visit.limit * OverFetch => rows = InBoxOf(visit, TRUE)
    BY RowsAreInTheBox
  <1>5. PICK S : S = Kept(rows, visit)
    OBVIOUS
  <1>6. S \subseteq Places /\ IsFiniteSet(S) /\ Cardinality(S) \in Nat
    <2>1. S \subseteq Places
      BY <1>4, <1>5 DEF Kept, InBoxOf
    <2>2. QED
      BY <2>1, FS_Subset, FS_CardinalityType
  <1>7. PICK N \in Nat : N = Cardinality(S)
    BY <1>6
  <1>8. seq \in [1 .. N -> S] /\ \A i, j \in 1 .. N : i < j => seq[i] # seq[j] /\ ~(Far(seq[j]) < Far(seq[i]))
    <2>1. seq \in [1 .. N -> S]
      BY <1>5, <1>7 DEF Sorted
    <2>2. QED
      BY <1>5, <1>7, <2>1 DEF Sorted, NearerPlace
  <1>9. \A i \in 1 .. N : Far(seq[i]) \in Int
    BY <1>6, <1>8, PlacesMeasure
  <1>10. \A i, j \in 1 .. N : i < j => seq[i] # seq[j] /\ Far(seq[i]) <= Far(seq[j])
    BY <1>8, <1>9
  <1>11. PICK first : first = page'.places /\ first = Slice(seq, visit.limit)
    BY <1>3
  <1>12. PICK m \in Nat : /\ m = Len(first) /\ m <= N /\ m <= visit.limit /\ DOMAIN first = 1 .. m
                          /\ \A i \in 1 .. m : first[i] = seq[i] /\ first[i] \in S
                          /\ \A p \in S : p \in {first[i] : i \in DOMAIN first} \/
                               (m = visit.limit /\ \E k \in 1 .. N : seq[k] = p /\ k > m)
    <2>1. HeadsARow(Slice(seq, visit.limit), S, seq, visit.limit)
      BY <1>1, <1>6, <1>7, <1>8, FirstOfARow
    <2>2. QED
      BY <1>7, <1>11, <2>1 DEF HeadsARow
  <1> DEFINE eligible == {p \in InReach(TRUE, visit.radius) : OfChain(p, visit)}
             answered == {first[i] : i \in DOMAIN first}
  <1>13. answered \subseteq eligible
    <2>1. S \subseteq eligible
      BY <1>4, <1>5 DEF Kept, InReach, InBoxOf
    <2>2. QED
      BY <1>12, <2>1
  <1>14. \A i, j \in DOMAIN first : i < j => first[i] # first[j] /\ Far(first[i]) <= Far(first[j])
    <2>1. \A i \in 1 .. m : i \in 1 .. N /\ first[i] = seq[i]
      BY <1>12
    <2>2. QED
      BY <1>10, <1>12, <2>1
  <1>15. ASSUME Cardinality(InBoxOf(visit, TRUE)) <= visit.limit * OverFetch,
                NEW p \in (eligible \cap InReach(TRUE, Surely(visit.radius))) \ answered
         PROVE  Len(first) = visit.limit /\ \A q \in answered : Far(q) <= Far(p)
    <2>1. /\ p \in Places /\ VisibleTo(place[p], TRUE)
          /\ WithinRadius(place[p].spot, Surely(visit.radius)) /\ OfChain(p, visit)
      BY <1>15 DEF InReach
    <2>2. InsideBox(place[p].spot, visit.radius) /\ WithinRadius(place[p].spot, visit.radius)
      BY <1>1, <2>1, PlacesMeasure, SurelyInBox
    <2>3. p \in S
      BY <1>4, <1>5, <1>15, <2>1, <2>2 DEF Kept, InBoxOf
    <2>4. PICK k \in 1 .. N : seq[k] = p /\ k > m /\ m = visit.limit
      BY <1>12, <1>15, <2>3
    <2>5. \A i \in 1 .. m : i \in 1 .. N /\ i < k
      BY <1>12, <2>4
    <2>6. \A i \in 1 .. m : Far(first[i]) <= Far(p)
      BY <1>10, <1>12, <2>4, <2>5
    <2>7. QED
      BY <1>12, <2>4, <2>6
  <1>16. /\ InReach(TRUE, visit.radius)' = InReach(TRUE, visit.radius)
         /\ InReach(TRUE, Surely(visit.radius))' = InReach(TRUE, Surely(visit.radius))
         /\ InBoxOf(visit, TRUE)' = InBoxOf(visit, TRUE)
         /\ \A p : OfChain(p, visit)' <=> OfChain(p, visit)
         /\ \A p : Far(p)' = Far(p)
         /\ visit' = visit
    BY DEF FindNearby, InReach, Surely, InBoxOf, OfChain, Far
  <1>17. {p \in InReach(TRUE, visit.radius)' : OfChain(p, visit)'} = eligible
    BY <1>16
  <1>18. {page'.places[i] : i \in DOMAIN page'.places} = answered
    BY <1>11
  <1> HIDE DEF eligible, answered
  <1>19. QED
    BY <1>11, <1>13, <1>14, <1>15, <1>16, <1>17, <1>18 DEF NearestFirst

\* Open is what the clock of the place says.
LEMMA StoresAreOpen ==
  ASSUME IsFiniteSet(Places), NearbyTyped, visit.asks = "stores", FindNearby
  PROVE  OpenWhenTheClockSays'
  <1>1. visit.limit \in Nat /\ visit.now \in Int
    BY DEF NearbyTyped, NearbyStoresQueryDto, NearbyPriceDropsQueryDto
  <1>2. PICK rows \in FindWithinBox(visit, TRUE, visit.limit * OverFetch) :
          \E seq \in Sorted(Kept(rows, visit), NearerPlace) :
            page' = [ready |-> TRUE, places |-> Slice(seq, visit.limit),
                     open |-> {p \in rows : IsOpenAt(place[p].hours, visit.now, place[p].zone)}]
    BY DEF FindNearby
  <1>3. PICK seq \in Sorted(Kept(rows, visit), NearerPlace) : page'.places = Slice(seq, visit.limit)
    BY <1>2
  <1>4. PICK S : S = Kept(rows, visit)
    OBVIOUS
  <1>5. S \subseteq rows /\ rows \subseteq Places /\ IsFiniteSet(S)
    <2>1. S \subseteq rows /\ rows \subseteq Places
      BY <1>4, RowsAreInTheBox DEF Kept, InBoxOf
    <2>2. QED
      BY <2>1, FS_Subset
  <1>6. seq \in [1 .. Cardinality(S) -> S]
    BY <1>4 DEF Sorted
  <1>7. PICK N \in Nat : N = Cardinality(S)
    BY <1>5, FS_CardinalityType
  <1>8. PICK first : first = page'.places /\ first = Slice(seq, visit.limit)
    BY <1>3
  <1>9. \A i \in DOMAIN first : first[i] \in rows \cap Places
    <2>1. seq \in [1 .. N -> S]
      BY <1>6, <1>7
    <2>2. PICK m \in Nat : m <= N /\ DOMAIN first = 1 .. m /\ \A i \in 1 .. m : first[i] = seq[i]
      <3>1. seq \in Seq(S) /\ Len(seq) = N
        BY <2>1
      <3>2. StartsWith(seq, N, visit.limit)
        BY <1>1, <3>1, FirstOnes
      <3>3. QED
        BY <1>1, <1>8, <3>2 DEF StartsWith
    <2>3. \A i \in 1 .. m : i \in 1 .. N
      BY <2>2
    <2>4. QED
      BY <1>5, <2>1, <2>2, <2>3
  <1>10. ASSUME NEW p \in rows \cap Places
        PROVE  p \in page'.open <=>
                 \E h \in place[p].hours : /\ Malformed \notin {h.opens, h.closes}
                                           /\ InsideInterval(h, visit.now, place[p].zone)
    <2>1. place[p].hours \subseteq OpeningHours /\ place[p].zone \in Int
      BY PlacesMeasure
    <2>2. \A h \in place[p].hours :
            OpenIn(h, WallClock(visit.now, place[p].zone)) <=>
              Malformed \notin {h.opens, h.closes} /\ InsideInterval(h, visit.now, place[p].zone)
      <3>1. ASSUME NEW h \in place[p].hours, Malformed \notin {h.opens, h.closes}
            PROVE  OpenIn(h, WallClock(visit.now, place[p].zone)) <=> InsideInterval(h, visit.now, place[p].zone)
        BY <1>1, <2>1, <3>1, OpenByTheClock
      <3>2. \A h, clock : OpenIn(h, clock) => Malformed \notin {h.opens, h.closes}
        BY DEF OpenIn
      <3>3. QED
        BY <3>1, <3>2
    <2>3. QED
      BY <1>2, <2>2 DEF IsOpenAt
  <1>11. place' = place /\ visit' = visit
    BY DEF FindNearby
  <1>12. QED
    BY <1>8, <1>9, <1>10, <1>11 DEF OpenWhenTheClockSays, InsideInterval

\* Of the falls of a product that are read, one is its biggest.
LEMMA OneIsBiggest ==
  ASSUME NEW n \in Nat, NEW read, DOMAIN read = 1 .. n, \A i \in 1 .. n : fall[read[i]].percent \in Nat,
         NEW k \in 1 .. n, fall[read[k]].percent >= MinDropPercent
  PROVE  \E i \in 1 .. n : /\ read[i] \in BiggestFalls(read) /\ read[i][1] = read[k][1]
                           /\ fall[read[i]].percent >= fall[read[k]].percent
  <1> DEFINE percent(i) == fall[read[i]].percent
             rivals == {i \in 1 .. n : read[i][1] = read[k][1]}
             heights == {percent(i) : i \in rivals}
  <1>1. rivals \in SUBSET Nat /\ IsFiniteSet(rivals) /\ k \in rivals
    <2>1. IsFiniteSet(1 .. n)
      BY FS_Interval, 1 \in Int, n \in Int
    <2>2. QED
      BY <2>1, FS_Subset, rivals \subseteq 1 .. n
  <1>2. PICK top \in heights : \A h \in heights : h <= top
    <2>1. heights \in SUBSET Nat /\ heights # {}
      BY <1>1
    <2>2. IsFiniteSet(heights)
      <3>1. [i \in rivals |-> percent(i)] \in Surjection(rivals, heights)
        BY DEF Surjection
      <3>2. QED
        BY <1>1, <3>1, FS_Surjection
    <2>3. QED
      BY <2>1, <2>2, GreatestNatural
  <1> DEFINE highest == {i \in rivals : percent(i) = top}
  <1>3. PICK first \in highest : \A i \in highest : first <= i
    <2>1. highest \in SUBSET Nat /\ highest # {}
      BY <1>1, <1>2
    <2>2. QED
      BY <2>1, LeastNatural
  <1>4. \A i \in rivals : percent(i) \in Nat /\ percent(i) <= top
    BY <1>2
  <1>5. first \in 1 .. n /\ read[first][1] = read[k][1] /\ percent(first) = top /\ top \in Nat
    BY <1>3
  <1>6. percent(k) <= percent(first)
    BY <1>1, <1>4, <1>5
  <1>7. \A j \in 1 .. n : read[j][1] = read[first][1] =>
          percent(j) < percent(first) \/ (percent(j) = percent(first) /\ first <= j)
    <2>1. SUFFICES ASSUME NEW j \in 1 .. n, read[j][1] = read[first][1]
                   PROVE percent(j) < percent(first) \/ (percent(j) = percent(first) /\ first <= j)
      OBVIOUS
    <2>2. j \in rivals
      BY <1>5, <2>1
    <2>3. CASE percent(j) = top
      BY <1>3, <1>5, <2>2, <2>3
    <2>4. CASE percent(j) # top
      BY <1>4, <1>5, <2>2, <2>4
    <2>5. QED
      BY <2>3, <2>4
  <1>8. percent(first) >= MinDropPercent
    BY <1>5, <1>6, NearbyAssumption, SMTT(60) DEF NearbyAssumption
  <1>9. read[first] \in BiggestFalls(read)
    BY <1>5, <1>7, <1>8 DEF BiggestFalls
  <1>10. QED
    BY <1>5, <1>6, <1>9

\* No two falls of a product are its biggest.
LEMMA BiggestIsOne ==
  ASSUME NEW n \in Nat, NEW read, DOMAIN read = 1 .. n, \A i \in 1 .. n : fall[read[i]].percent \in Nat,
         NEW f \in BiggestFalls(read), NEW g \in BiggestFalls(read), f[1] = g[1]
  PROVE  f = g
  <1>1. PICK i \in 1 .. n : /\ f = read[i]
                            /\ \A j \in 1 .. n : read[j][1] = read[i][1] =>
                                 \/ fall[read[j]].percent < fall[read[i]].percent
                                 \/ fall[read[j]].percent = fall[read[i]].percent /\ i <= j
    BY DEF BiggestFalls
  <1>2. PICK k \in 1 .. n : /\ g = read[k]
                            /\ \A j \in 1 .. n : read[j][1] = read[k][1] =>
                                 \/ fall[read[j]].percent < fall[read[k]].percent
                                 \/ fall[read[j]].percent = fall[read[k]].percent /\ k <= j
    BY DEF BiggestFalls
  <1>3. fall[read[i]].percent \in Nat /\ fall[read[k]].percent \in Nat
    OBVIOUS
  <1>4. i <= k /\ k <= i
    BY <1>1, <1>2, <1>3
  <1>5. QED
    BY <1>1, <1>2, <1>4

\* One fall for each product, the biggest, and nothing bigger left out.
LEMMA FallsAreBiggest ==
  ASSUME IsFiniteSet(Places), NearbyTyped, FindNearbyPriceDrops
  PROVE  BiggestFirst'
  <1>1. visit.limit \in Nat \ {0} /\ visit.radius \in Nat
    BY DEF NearbyTyped, NearbyStoresQueryDto, NearbyPriceDropsQueryDto
  <1>2. PICK rows \in FindWithinBox(visit, FALSE, NearbyCandidates) :
          \E read \in FindRecentAtStores({p \in rows : WithinRadius(place[p].spot, visit.radius)}, visit.now) :
          \E seq \in Sorted({f \in BiggestFalls(read) : f[1] \notin retired}, BiggerFall) :
            page' = [ready |-> TRUE, falls |-> Slice(seq, visit.limit)]
    BY DEF FindNearbyPriceDrops
  <1>2a. PICK read \in FindRecentAtStores({p \in rows : WithinRadius(place[p].spot, visit.radius)}, visit.now) :
          \E seq \in Sorted({f \in BiggestFalls(read) : f[1] \notin retired}, BiggerFall) :
            page' = [ready |-> TRUE, falls |-> Slice(seq, visit.limit)]
    BY <1>2
  <1>2b. PICK seq \in Sorted({f \in BiggestFalls(read) : f[1] \notin retired}, BiggerFall) :
            page' = [ready |-> TRUE, falls |-> Slice(seq, visit.limit)]
    BY <1>2a
  <1>3. /\ rows \subseteq InBoxOf(visit, FALSE)
        /\ Cardinality(InBoxOf(visit, FALSE)) <= NearbyCandidates => rows = InBoxOf(visit, FALSE)
    BY RowsAreInTheBox
  <1>4. PICK R : R = {f \in DOMAIN fall : /\ f[2] \in {p \in rows : WithinRadius(place[p].spot, visit.radius)}
                                          /\ fall[f].at >= visit.now - DropWindow}
    OBVIOUS
  <1>5. PICK newest \in Sorted(R, NewerFall) : read = Slice(newest, DropCandidates)
    BY <1>4 DEF FindRecentAtStores
  <1>6. IsFiniteSet(R) /\ Cardinality(R) \in Nat /\ R \subseteq DOMAIN fall
    BY <1>4, FS_Subset, FS_CardinalityType DEF NearbyTyped
  <1>7. newest \in [1 .. Cardinality(R) -> R] /\ \A i, j \in 1 .. Cardinality(R) : i < j => newest[i] # newest[j]
    <2>1. newest \in [1 .. Cardinality(R) -> R]
      BY DEF Sorted
    <2>2. QED
      BY <2>1 DEF Sorted
  <1>8. PICK n \in Nat : /\ n = Len(read) /\ DOMAIN read = 1 .. n
                         /\ \A i \in 1 .. n : read[i] \in R
                         /\ \A f \in R : f \in {read[i] : i \in DOMAIN read} \/
                              (n = DropCandidates /\ n < Cardinality(R))
    <2>1. DropCandidates \in Nat
      BY NearbyAssumption DEF NearbyAssumption
    <2>2. /\ Len(read) \in Nat /\ DOMAIN read = 1 .. Len(read)
          /\ \A i \in 1 .. Len(read) : read[i] \in R
          /\ \A f \in R : f \in {read[i] : i \in DOMAIN read} \/
               (Len(read) = DropCandidates /\ \E k \in 1 .. Cardinality(R) : newest[k] = f /\ k > Len(read))
      <3>1. HeadsARow(Slice(newest, DropCandidates), R, newest, DropCandidates)
        BY <1>6, <1>7, <2>1, FirstOfARow
      <3>2. QED
        BY <1>5, <3>1 DEF HeadsARow
    <2>3. \A k \in 1 .. Cardinality(R) : k > Len(read) => Len(read) < Cardinality(R)
      BY <1>6, <2>2
    <2>4. QED
      BY <2>2, <2>3
  <1>9. \A f \in R : fall[f].percent \in Nat
    BY <1>6 DEF NearbyTyped, PriceDrop
  <1>10. PICK B : B = BiggestFalls(read)
    OBVIOUS
  <1>11. /\ \A f \in B : f \in R /\ fall[f].percent >= MinDropPercent
         /\ \A f, g \in B : f[1] = g[1] => f = g
    <2>1. \A f \in B : f \in R /\ fall[f].percent >= MinDropPercent
      BY <1>8, <1>10 DEF BiggestFalls
    <2>2. \A i \in 1 .. n : fall[read[i]].percent \in Nat
      BY <1>8, <1>9
    <2>3. QED
      BY <1>8, <1>10, <2>1, <2>2, BiggestIsOne
  <1>12. PICK T : T = {f \in B : f[1] \notin retired}
    OBVIOUS
  <1>13. T \subseteq R /\ IsFiniteSet(T) /\ Cardinality(T) \in Nat
    BY <1>6, <1>11, <1>12, FS_Subset, FS_CardinalityType
  <1>14. /\ seq \in [1 .. Cardinality(T) -> T]
         /\ \A i, j \in 1 .. Cardinality(T) : i < j => seq[i] # seq[j] /\ ~(fall[seq[j]].percent > fall[seq[i]].percent)
    <2>1. seq \in Sorted(T, BiggerFall)
      BY <1>10, <1>12
    <2>2. seq \in [1 .. Cardinality(T) -> T]
      BY <2>1 DEF Sorted
    <2>3. QED
      BY <2>1, <2>2 DEF Sorted, BiggerFall
  <1>15. PICK first : first = page'.falls /\ first = Slice(seq, visit.limit)
    BY <1>2b
  <1>16. PICK m \in Nat : /\ m = Len(first) /\ m <= Cardinality(T) /\ DOMAIN first = 1 .. m
                          /\ \A i \in 1 .. m : first[i] = seq[i] /\ first[i] \in T
                          /\ \A f \in T : f \in {first[i] : i \in DOMAIN first} \/
                               (m = visit.limit /\ \E k \in 1 .. Cardinality(T) : seq[k] = f /\ k > m)
    <2>1. HeadsARow(Slice(seq, visit.limit), T, seq, visit.limit)
      BY <1>1, <1>13, <1>14, FirstOfARow
    <2>2. QED
      BY <1>15, <2>1 DEF HeadsARow
  <1> DEFINE answered == {first[i] : i \in DOMAIN first}
  <1>17. answered \subseteq BargainsWithin(visit.radius)
    <2>1. R \subseteq FallenLately(visit.radius)
      BY <1>3, <1>4 DEF InReach, InBoxOf, FallenLately
    <2>2. T \subseteq BargainsWithin(visit.radius)
      BY <1>11, <1>12, <1>13, <2>1 DEF BargainsWithin
    <2>3. QED
      BY <1>16, <2>2
  <1>18. Cardinality({f[1] : f \in answered}) = Len(first)
    <2> DEFINE products == {f[1] : f \in answered}
               named == [i \in 1 .. m |-> first[i][1]]
    <2>1. \A i, j \in 1 .. m : first[i][1] = first[j][1] => i = j
      <3>1. SUFFICES ASSUME NEW i \in 1 .. m, NEW j \in 1 .. m, first[i][1] = first[j][1], i # j PROVE FALSE
        OBVIOUS
      <3>2. seq[i] = seq[j] /\ i \in 1 .. Cardinality(T) /\ j \in 1 .. Cardinality(T)
        <4>1. first[i] = first[j]
          BY <1>11, <1>12, <1>16, <3>1
        <4>2. QED
          BY <1>13, <1>16, <4>1
      <3>3. i < j \/ j < i
        BY <3>1
      <3>4. QED
        BY <1>14, <3>2, <3>3
    <2>2. named \in Bijection(1 .. m, products)
      BY <1>16, <2>1 DEF Bijection, Injection, Surjection, IsInjective
    <2>3. IsFiniteSet(1 .. m) /\ Cardinality(1 .. m) = m
      BY FS_Interval, 1 \in Int, m \in Int
    <2>4. Cardinality(products) = m
      BY <2>2, <2>3, FS_Bijection DEF ExistsBijection
    <2>5. QED
      BY <1>16, <2>4
  <1>19. ASSUME Cardinality(InBoxOf(visit, FALSE)) <= NearbyCandidates,
                Cardinality(FallenLately(visit.radius)) <= DropCandidates,
                NEW f \in BargainsWithin(Surely(visit.radius)) \ answered
         PROVE  \/ \E g \in answered : g[1] = f[1] /\ fall[g].percent >= fall[f].percent
                \/ /\ Len(first) = visit.limit
                   /\ \A g \in answered : fall[g].percent >= fall[f].percent
    <2>1. f \in R
      <3>1. /\ f \in DOMAIN fall /\ f[2] \in Places /\ VisibleTo(place[f[2]], FALSE)
            /\ WithinRadius(place[f[2]].spot, Surely(visit.radius)) /\ fall[f].at >= visit.now - DropWindow
        BY <1>19 DEF InReach, BargainsWithin, FallenLately
      <3>2. InsideBox(place[f[2]].spot, visit.radius) /\ WithinRadius(place[f[2]].spot, visit.radius)
        BY <1>1, <3>1, PlacesMeasure, SurelyInBox
      <3>3. QED
        BY <1>3, <1>4, <1>19, <3>1, <3>2 DEF InBoxOf
    <2>2. Cardinality(R) <= DropCandidates
      <3>1. R \subseteq FallenLately(visit.radius)
        BY <1>3, <1>4 DEF InReach, InBoxOf, FallenLately
      <3>2. IsFiniteSet(FallenLately(visit.radius))
        BY FS_Subset, FallenLately(visit.radius) \subseteq DOMAIN fall DEF NearbyTyped, FallenLately
      <3>3. Cardinality(R) <= Cardinality(FallenLately(visit.radius)) /\ Cardinality(FallenLately(visit.radius)) \in Nat
        BY <3>1, <3>2, FS_Subset, FS_CardinalityType
      <3>4. QED
        BY <1>6, <1>19, <3>3, NearbyAssumption DEF NearbyAssumption
    <2>3. PICK k \in 1 .. n : read[k] = f
      BY <1>6, <1>8, <2>1, <2>2, NearbyAssumption DEF NearbyAssumption
    <2>4. PICK g \in B : g[1] = f[1] /\ fall[g].percent >= fall[f].percent
      <3>1. \A i \in 1 .. n : fall[read[i]].percent \in Nat
        BY <1>8, <1>9
      <3>2. fall[read[k]].percent >= MinDropPercent
        BY <1>19, <2>3 DEF BargainsWithin
      <3>3. QED
        BY <1>8, <1>10, <2>3, <3>1, <3>2, OneIsBiggest
    <2>5. g \in T
      BY <1>12, <1>19, <2>4 DEF BargainsWithin
    <2>6. CASE g \in answered
      BY <2>4, <2>6
    <2>7. CASE g \notin answered
      <3>1. PICK l \in 1 .. Cardinality(T) : seq[l] = g /\ l > m /\ m = visit.limit
        BY <1>16, <2>5, <2>7
      <3>2. ASSUME NEW i \in 1 .. m PROVE fall[first[i]].percent >= fall[f].percent
        <4>1. i \in 1 .. Cardinality(T) /\ i < l
          BY <1>13, <1>16, <3>1
        <4>2. ~(fall[g].percent > fall[first[i]].percent)
          <5>1. ~(fall[seq[l]].percent > fall[seq[i]].percent)
            BY <1>14, <3>1, <4>1
          <5>2. first[i] = seq[i] /\ seq[l] = g
            BY <1>16, <3>1
          <5>3. QED
            BY <5>1, <5>2
        <4>3. first[i] \in R /\ g \in R
          BY <1>13, <1>16, <2>5
        <4>4. fall[first[i]].percent \in Nat /\ fall[g].percent \in Nat /\ fall[f].percent \in Nat
          BY <1>9, <2>1, <4>3
        <4>5. QED
          BY <2>4, <4>2, <4>4
      <3>3. QED
        BY <1>16, <3>1, <3>2
    <2>8. QED
      BY <2>6, <2>7
  <1>20. /\ BargainsWithin(visit.radius)' = BargainsWithin(visit.radius)
         /\ BargainsWithin(Surely(visit.radius))' = BargainsWithin(Surely(visit.radius))
         /\ FallenLately(visit.radius)' = FallenLately(visit.radius)
         /\ InBoxOf(visit, FALSE)' = InBoxOf(visit, FALSE)
         /\ fall' = fall /\ visit' = visit
    BY DEF FindNearbyPriceDrops, BargainsWithin, FallenLately, InReach, Surely, InBoxOf
  <1>21. {page'.falls[i] : i \in DOMAIN page'.falls} = answered
    BY <1>15
  <1> HIDE DEF answered
  <1>22. QED
    BY <1>15, <1>17, <1>18, <1>19, <1>20, <1>21 DEF BiggestFirst

\* A page answers what was asked, and is what it says.
LEMMA NearbyStep ==
  ASSUME IsFiniteSet(Places), NearbyHolds, NearbyNext
  PROVE  NearbyHolds'
  <1>1. NearbyTyped'
    BY DEF NearbyHolds, NearbyTyped, NearbyNext, FindNearby, FindNearbyPriceDrops
  <1>2. CASE FindNearby
    <2>1. visit.asks = "stores" /\ visit' = visit
      BY <1>2 DEF FindNearby
    <2>2. NearestFirst' /\ OpenWhenTheClockSays'
      BY <1>2, <2>1, StoresAreNearest, StoresAreOpen DEF NearbyHolds
    <2>3. QED
      BY <1>1, <2>1, <2>2 DEF NearbyHolds, NearbyIsTrue
  <1>3. CASE FindNearbyPriceDrops
    <2>1. visit.asks = "falls" /\ visit' = visit
      BY <1>3 DEF FindNearbyPriceDrops
    <2>2. BiggestFirst'
      BY <1>3, FallsAreBiggest DEF NearbyHolds
    <2>3. QED
      BY <1>1, <2>1, <2>2 DEF NearbyHolds, NearbyIsTrue
  <1>4. QED
    BY <1>2, <1>3 DEF NearbyNext

\* What stands still stays true.
LEMMA NearbyRests == NearbyHolds /\ UNCHANGED nearbyVars => NearbyHolds'
  <1> SUFFICES ASSUME NearbyHolds, UNCHANGED nearbyVars PROVE NearbyHolds'
    OBVIOUS
  <1>1. UNCHANGED <<place, fall, retired, visit, page>>
    BY DEF nearbyVars
  <1>2. NearbyTyped'
    BY <1>1 DEF NearbyHolds, NearbyTyped
  <1>3. NearestFirst' = NearestFirst
    BY <1>1 DEF NearestFirst, InReach, InBoxOf, Surely, OfChain, Far
  <1>4. OpenWhenTheClockSays' = OpenWhenTheClockSays
    BY <1>1 DEF OpenWhenTheClockSays
  <1>5. BiggestFirst' = BiggestFirst
    BY <1>1 DEF BiggestFirst, BargainsWithin, FallenLately, InReach, Surely, InBoxOf
  <1>6. QED
    BY <1>1, <1>2, <1>3, <1>4, <1>5 DEF NearbyHolds, NearbyIsTrue

\* Of any shops, hours and falls, and whatever is asked: shops are visible, in
\* reach, nearest first and open by the clock of the place, and of each product
\* its biggest fall is told; what is left out is no nearer and no bigger, as far
\* as the database is read.
THEOREM AroundIsTrue == NearbySpec => []NearbyIsTrue
  <1>1. NearbyInit => NearbyHolds
    <2>1. SUFFICES ASSUME NearbyInit PROVE NearbyHolds
      OBVIOUS
    <2>2. PICK there \in SUBSET (Offers \X Places) : fall \in [there -> PriceDrop]
      BY <2>1 DEF NearbyInit
    <2>3. IsFiniteSet(DOMAIN fall)
      <3>1. IsFiniteSet(Offers \X Places)
        BY NearbyAssumption, FS_Product DEF NearbyAssumption
      <3>2. QED
        BY <2>2, <3>1, FS_Subset
    <2>4. NearbyTyped
      BY <2>1, <2>2, <2>3 DEF NearbyInit, NearbyTyped
    <2>5. ~page.ready
      BY <2>1 DEF NearbyInit, NoPage
    <2>6. QED
      BY <2>4, <2>5 DEF NearbyHolds, NearbyIsTrue
  <1>2. NearbyHolds /\ [NearbyNext]_nearbyVars => NearbyHolds'
    BY NearbyStep, NearbyRests, NearbyAssumption DEF NearbyAssumption
  <1>3. QED
    BY <1>1, <1>2, PTL DEF NearbySpec, NearbyHolds

-----------------------------------------------------------------------------
(***************************************************************************)
(* Totals.                                                                 *)
(***************************************************************************)
\* An item at the price of the plan or the store, where they have one.
StartPrice(i) == IF charged[i] # Unpriced THEN charged[i] ELSE planned[i].expected
AtQuotes == [i \in Lines |-> IF charged[i] = Unpriced THEN planned[i]
                             ELSE [planned[i] EXCEPT !.expected = charged[i]]]

\* A line keeps the price it was started at, and the totals told are those of
\* the lines.
TotalsHold ==
    /\ planned \in [Lines -> ShoppingListItem]
    /\ charged \in [Lines -> Paid \cup {Unpriced}]
    /\ bought # NoTrip =>
         /\ bought \in [Lines -> ShoppingSessionItem]
         /\ \A i \in Lines : bought[i].expected = StartPrice(i)
         /\ told = CalculateSessionTotals(bought)

\* Rounding is off by half a cent at most.
HalfACent(t, n) ==
    /\ t \in Int /\ n \in Int
    /\ QuantityScale * t - n <= 500 /\ n - QuantityScale * t <= 500

LEMMA LineIsRounded ==
  ASSUME NEW q \in Nat, NEW p \in Nat
  PROVE  HalfACent(LineTotal(q, p), q * p)
  <1>1. q * p \in Nat
    BY Z3
  <1>2. PICK n \in Nat : n = q * p
    BY <1>1
  <1>3. LineTotal(q, p) = (n + 500) \div 1000
    BY <1>2 DEF LineTotal, QuantityScale
  <1>4. /\ (n + 500) \div 1000 \in Int
        /\ 1000 * ((n + 500) \div 1000) - n <= 500 /\ n - 1000 * ((n + 500) \div 1000) <= 500
    BY Z3
  <1>5. QED
    BY <1>2, <1>3, <1>4 DEF QuantityScale, HalfACent

\* A trip that has begun, whatever its lines are.
PaidOf(lines) == {i \in Lines : lines[i].purchased}
KnownOf(lines) == {i \in Lines : lines[i].expected # Unpriced}
PaidAt(lines) == {i \in PaidOf(lines) : PaidUnitPrice(lines[i]) # Unpriced}
Cost(lines, i) == LineTotal(lines[i].quantity, PaidUnitPrice(lines[i]))
Exact(lines, i, price) == IF price = Unpriced THEN 0 ELSE lines[i].quantity * price
Drift(lines, i) == Exact(lines, i, PaidUnitPrice(lines[i])) - Exact(lines, i, lines[i].expected)

\* What a bought line adds to what is spent, and what it was to add.
Spent(lines) == [i \in PaidOf(lines) |-> IF i \in PaidAt(lines) THEN Cost(lines, i) ELSE 0]
Meant(lines) == [i \in PaidOf(lines) |-> IF i \in KnownOf(lines) THEN Expected(lines[i]) ELSE 0]
Drifts(lines) == [i \in PaidOf(lines) |-> Drift(lines, i)]
Rest(lines) ==
    [i \in PaidOf(lines) |-> QuantityScale * Spent(lines)[i] - QuantityScale * Meant(lines)[i] - Drift(lines, i)]

LEMMA LinesAreNumbers ==
  ASSUME NEW lines \in [Lines -> ShoppingSessionItem], NEW i \in Lines
  PROVE  /\ lines[i].quantity \in Nat
         /\ lines[i].expected # Unpriced => lines[i].expected \in Nat /\ Expected(lines[i]) \in Int
         /\ PaidUnitPrice(lines[i]) # Unpriced => PaidUnitPrice(lines[i]) \in Nat /\ Cost(lines, i) \in Int
         /\ Drift(lines, i) \in Int
  <1>1. /\ lines[i].quantity \in Nat
        /\ lines[i].expected # Unpriced => lines[i].expected \in Nat
        /\ PaidUnitPrice(lines[i]) # Unpriced => PaidUnitPrice(lines[i]) \in Nat
    BY TotalsAssumption DEF ShoppingSessionItem, PaidUnitPrice
  <1>2. lines[i].expected # Unpriced =>
          Expected(lines[i]) \in Int /\ lines[i].quantity * lines[i].expected \in Int
    BY <1>1, LineIsRounded, ZenonT(60) DEF Expected, HalfACent
  <1>3. PaidUnitPrice(lines[i]) # Unpriced =>
          Cost(lines, i) \in Int /\ lines[i].quantity * PaidUnitPrice(lines[i]) \in Int
    BY <1>1, LineIsRounded, ZenonT(60) DEF Cost, HalfACent
  <1>4. Drift(lines, i) \in Int
    BY <1>2, <1>3 DEF Drift, Exact
  <1>5. QED
    BY <1>1, <1>2, <1>3, <1>4

LEMMA RestIsSmall ==
  ASSUME NEW lines \in [Lines -> ShoppingSessionItem], NEW i \in PaidOf(lines)
  PROVE  -QuantityScale <= Rest(lines)[i] /\ Rest(lines)[i] <= QuantityScale
  <1> DEFINE q == lines[i].quantity
             p == PaidUnitPrice(lines[i])
             e == lines[i].expected
  <1>1. i \in Lines /\ q \in Nat /\ (e # Unpriced => e \in Nat) /\ (p # Unpriced => p \in Nat)
    BY LinesAreNumbers DEF PaidOf
  <1>2. PICK s : s = Spent(lines)[i]
    OBVIOUS
  <1>3. PICK t : t = Meant(lines)[i]
    OBVIOUS
  <1>4. /\ p # Unpriced => HalfACent(s, q * p)
        /\ p = Unpriced => s = 0
    <2>1. p # Unpriced => s = LineTotal(q, p)
      BY <1>2 DEF Spent, PaidAt, Cost
    <2>2. p = Unpriced => s = 0
      BY <1>2 DEF Spent, PaidAt
    <2> HIDE DEF q, p, e
    <2>3. ASSUME p # Unpriced PROVE HalfACent(s, q * p)
      BY <1>1, <2>1, <2>3, LineIsRounded
    <2>4. QED
      BY <2>2, <2>3
  <1>5. /\ e # Unpriced => HalfACent(t, q * e)
        /\ e = Unpriced => t = 0
    <2>1. e # Unpriced => t = LineTotal(q, e)
      BY <1>1, <1>3 DEF Meant, KnownOf, Expected
    <2>2. e = Unpriced => t = 0
      BY <1>1, <1>3 DEF Meant, KnownOf
    <2> HIDE DEF q, p, e
    <2>3. ASSUME e # Unpriced PROVE HalfACent(t, q * e)
      BY <1>1, <2>1, <2>3, LineIsRounded
    <2>4. QED
      BY <2>2, <2>3
  <1>6. PICK u : u = Exact(lines, i, p)
    OBVIOUS
  <1>7. PICK v : v = Exact(lines, i, e)
    OBVIOUS
  <1>8. u = (IF p = Unpriced THEN 0 ELSE q * p) /\ v = (IF e = Unpriced THEN 0 ELSE q * e)
    BY <1>6, <1>7 DEF Exact
  <1>9. Rest(lines)[i] = QuantityScale * s - QuantityScale * t - (u - v)
    BY <1>2, <1>3, <1>6, <1>7 DEF Rest, Drift
  <1> HIDE DEF q, p, e
  <1>10. HalfACent(s, u)
    BY <1>4, <1>8 DEF QuantityScale, HalfACent
  <1>11. HalfACent(t, v)
    BY <1>5, <1>8 DEF QuantityScale, HalfACent
  <1>12. QED
    BY <1>9, <1>10, <1>11 DEF QuantityScale, HalfACent

LEMMA Balance ==
  ASSUME NEW a \in Int, NEW c \in Int, NEW d \in Int, NEW r \in Int, NEW u \in Int, NEW v, NEW z,
         u = 1 * d + r, v = 1000 * c + u, v = 1000 * a + z, z = 0
  PROVE  r = 1000 * (a - c) - d
  OBVIOUS

LEMMA RestAddsUp ==
  ASSUME NEW lines \in [Lines -> ShoppingSessionItem]
  PROVE  LET P == PaidOf(lines)
             off == QuantityScale * (Sum(Spent(lines)) - Sum(Meant(lines))) - Sum(Drifts(lines)) IN
         -QuantityScale * Cardinality(P) <= off /\ off <= QuantityScale * Cardinality(P)
  <1> DEFINE P == PaidOf(lines)
  <1>1. IsFiniteSet(P)
    BY TotalsAssumption, FS_Subset DEF PaidOf
  <1>2. PICK a : a = Spent(lines)
    OBVIOUS
  <1>3. PICK c : c = Meant(lines)
    OBVIOUS
  <1>4. PICK d : d = Drifts(lines)
    OBVIOUS
  <1>5. PICK r : r = Rest(lines)
    OBVIOUS
  <1>6. a \in Numbers(P) /\ c \in Numbers(P) /\ d \in Numbers(P)
    BY <1>2, <1>3, <1>4, LinesAreNumbers DEF Spent, Meant, Drifts, Numbers, PaidOf, PaidAt, KnownOf
  <1>7. \A i \in P : a[i] \in Int /\ c[i] \in Int /\ d[i] \in Int
    BY <1>6 DEF Numbers
  <1>8. \A i \in P : r[i] = 1000 * a[i] - 1000 * c[i] - d[i]
    BY <1>2, <1>3, <1>4, <1>5 DEF Rest, Drifts, QuantityScale
  <1>9. r \in Numbers(P)
    BY <1>5, <1>7, <1>8 DEF Rest, Numbers
  <1> HIDE DEF P
  <1>a. \A i \in P : r[i] \in Int
    BY <1>9 DEF Numbers
  <1>10. PICK u : u = [i \in P |-> d[i] + r[i]]
    OBVIOUS
  <1>11. PICK v : v = [i \in P |-> 1000 * a[i]]
    OBVIOUS
  <1>12. PICK z : z = [i \in P |-> 0]
    OBVIOUS
  <1>b. u \in Numbers(P) /\ v \in Numbers(P) /\ z \in Numbers(P)
    BY <1>7, <1>a, <1>10, <1>11, <1>12 DEF Numbers
  <1>13. Sum(d) \in Int /\ Sum(r) \in Int /\ Sum(u) = 1 * Sum(d) + Sum(r)
    <2>1. \A i \in P : u[i] = 1 * d[i] + r[i]
      BY <1>7, <1>10, <1>a
    <2>2. QED
      BY <1>1, <1>6, <1>9, <2>1, <1>b, SumLinear
  <1>14. Sum(c) \in Int /\ Sum(u) \in Int /\ Sum(v) = 1000 * Sum(c) + Sum(u)
    <2>2. \A i \in P : v[i] = 1000 * c[i] + u[i]
      BY <1>7, <1>8, <1>10, <1>11, <1>a
    <2>3. QED
      BY <1>1, <1>6, <2>2, <1>b, SumLinear
  <1>15. Sum(a) \in Int /\ Sum(z) \in Int /\ Sum(v) = 1000 * Sum(a) + Sum(z)
    <2>1. \A i \in P : v[i] = 1000 * a[i] + z[i]
      BY <1>7, <1>11, <1>12
    <2>2. QED
      BY <1>1, <1>6, <2>1, <1>b, SumLinear
  <1>16. Sum(z) = 0
    <2>1. \A i \in P : z[i] = 0
      BY <1>12
    <2>2. Cardinality(P) \in Nat /\ Sum(z) = 0 * Cardinality(P)
      BY <1>1, <1>b, <2>1, SumConstant
    <2>3. QED
      BY <2>2
  <1>17. Cardinality(P) \in Nat /\ (-1000) * Cardinality(P) <= Sum(r) /\ Sum(r) <= 1000 * Cardinality(P)
    <2>1. \A i \in P : -1000 <= r[i] /\ r[i] <= 1000
      BY <1>5, RestIsSmall DEF P, QuantityScale
    <2>2. QED
      BY <1>1, <1>9, <2>1, SumBetween
  <1>18. Sum(r) = 1000 * (Sum(a) - Sum(c)) - Sum(d)
    BY <1>13, <1>14, <1>15, <1>16, Balance
  <1>19. QED
    BY <1>2, <1>3, <1>4, <1>17, <1>18 DEF P, QuantityScale

\* The totals in these terms.
Expectations(lines) == [i \in KnownOf(lines) |-> Expected(lines[i])]
Remaining(lines) == [i \in KnownOf(lines) \ PaidOf(lines) |-> Expected(lines[i])]
Costs(lines) == [i \in PaidAt(lines) |-> Cost(lines, i)]

LEMMA TotalsTold ==
  ASSUME NEW lines
  PROVE  CalculateSessionTotals(lines) =
           [expected |-> Sum(Expectations(lines)), actual |-> Sum(Costs(lines)),
            remaining |-> Sum(Remaining(lines)),
            projected |-> Sum(Costs(lines)) + Sum(Remaining(lines)),
            purchased |-> Cardinality(PaidOf(lines)), items |-> Cardinality(Lines),
            unpriced |-> Cardinality(PaidOf(lines) \ PaidAt(lines))
                         + Cardinality(Lines \ (KnownOf(lines) \cup PaidOf(lines)))]
  BY DEF CalculateSessionTotals, Expectations, Remaining, Costs, Cost, PaidOf, KnownOf, PaidAt

LEMMA TotalsInParts ==
  ASSUME NEW lines \in [Lines -> ShoppingSessionItem]
  PROVE  /\ Sum(Expectations(lines)) = Sum(Remaining(lines)) + Sum(Meant(lines))
         /\ Sum(Costs(lines)) = Sum(Spent(lines))
         /\ Sum(Remaining(lines)) \in Int /\ Sum(Meant(lines)) \in Int /\ Sum(Spent(lines)) \in Int
  <1> DEFINE K == KnownOf(lines)
             P == PaidOf(lines)
             R == PaidAt(lines)
  <1>1. IsFiniteSet(K) /\ IsFiniteSet(P) /\ R \in SUBSET P /\ K \cap P \in SUBSET P /\ K \ P \in SUBSET K
    BY TotalsAssumption, FS_Subset DEF PaidOf, KnownOf, PaidAt
  <1>2. PICK a : a = Expectations(lines)
    OBVIOUS
  <1>3. PICK c : c = Meant(lines)
    OBVIOUS
  <1>4. PICK s : s = Spent(lines)
    OBVIOUS
  <1>5. a \in Numbers(K) /\ c \in Numbers(P) /\ s \in Numbers(P)
    BY <1>2, <1>3, <1>4, LinesAreNumbers
       DEF Expectations, Meant, Spent, Numbers, PaidOf, PaidAt, KnownOf
  <1>6. Over(a, K \ P) \in Int /\ Sum(a) = Over(a, K \ P) + Over(a, K \ (K \ P))
    BY <1>1, <1>5, SumInParts
  <1>7. [e \in K \ P |-> a[e]] = Remaining(lines)
    BY <1>2 DEF Expectations, Remaining
  <1>8. [e \in K \ (K \ P) |-> a[e]] = [e \in K \cap P |-> c[e]]
    <2>1. K \ (K \ P) = K \cap P
      OBVIOUS
    <2>2. \A e \in K \cap P : a[e] = c[e]
      BY <1>2, <1>3 DEF Expectations, Meant
    <2>3. QED
      BY <2>1, <2>2
  <1>9. Sum(c) = Sum([e \in K \cap P |-> c[e]]) /\ Sum(c) \in Int
    <2>1. \A e \in P \ (K \cap P) : c[e] = 0
      BY <1>3 DEF Meant
    <2>2. QED
      BY <1>1, <1>5, <2>1, SumOfSome
  <1>10. Sum(s) = Sum([e \in R |-> s[e]]) /\ Sum(s) \in Int
    <2>1. \A e \in P \ R : s[e] = 0
      BY <1>4 DEF Spent
    <2>2. QED
      BY <1>1, <1>5, <2>1, SumOfSome
  <1>11. [e \in R |-> s[e]] = Costs(lines)
    BY <1>1, <1>4 DEF Spent, Costs
  <1>12. QED
    BY <1>2, <1>3, <1>4, <1>6, <1>7, <1>8, <1>9, <1>10, <1>11 DEF Over

LEMMA NothingToSum ==
  ASSUME NEW a \in Numbers({})
  PROVE  Sum(a) = 0
  <1>1. PartsAddUp(a, {})
    BY SumOver, FS_EmptySet
  <1>2. QED
    BY <1>1 DEF PartsAddUp

LEMMA TripAddsUp == TotalsHold => FiguresAddUp
  <1> SUFFICES ASSUME TotalsHold, bought # NoTrip PROVE FiguresAddUp
    BY DEF FiguresAddUp
  <1>1. /\ planned \in [Lines -> ShoppingListItem] /\ bought \in [Lines -> ShoppingSessionItem]
        /\ charged \in [Lines -> Paid \cup {Unpriced}]
        /\ \A i \in Lines : bought[i].expected = StartPrice(i)
        /\ told = CalculateSessionTotals(bought)
    BY DEF TotalsHold
  <1> DEFINE P == PaidOf(bought)
             K == KnownOf(bought)
             R == PaidAt(bought)
             quoted == {i \in Lines : StartPrice(i) # Unpriced}
             unquoted == {i \in Lines : planned[i].expected # Unpriced}
  <1>0. PICK items : items = AtQuotes
    OBVIOUS
  <1>a. \A i \in Lines : items[i].quantity = planned[i].quantity /\ items[i].expected = StartPrice(i)
    BY <1>0, <1>1 DEF AtQuotes, StartPrice, ShoppingListItem
  <1>2. /\ told.expected = Sum(Expectations(bought)) /\ told.actual = Sum(Costs(bought))
        /\ told.remaining = Sum(Remaining(bought))
        /\ told.projected = Sum(Costs(bought)) + Sum(Remaining(bought))
        /\ told.unpriced = Cardinality(P \ R) + Cardinality(Lines \ (K \cup P))
    BY <1>1, TotalsTold
  <1>3. CalculateListTotals(items).expected = Sum([i \in quoted |-> Expected(items[i])])
        /\ CalculateListTotals(items).unpriced = Cardinality(Lines \ quoted)
    <2>1. {i \in Lines : items[i].expected # Unpriced} = quoted
      BY <1>a
    <2> HIDE DEF quoted
    <2>2. QED
      BY <2>1 DEF CalculateListTotals
  <1>b. CalculateListTotals(planned).unpriced = Cardinality(Lines \ unquoted)
    BY DEF CalculateListTotals
  <1>4. K = quoted
    BY <1>1 DEF KnownOf
  <1>5. told.projected - told.expected = Sum(Spent(bought)) - Sum(Meant(bought))
        /\ told.actual \in Int /\ told.remaining \in Int /\ told.expected \in Int
    BY <1>1, <1>2, TotalsInParts
  <1>6. ASSUME \A i \in Lines : bought[i].quantity = planned[i].quantity
        PROVE  told.expected = CalculateListTotals(items).expected
    <2>1. \A i \in K : Expected(bought[i]) = Expected(items[i])
      BY <1>1, <1>6, <1>a DEF Expected, KnownOf
    <2>2. Expectations(bought) = [i \in quoted |-> Expected(items[i])]
      BY <1>4, <2>1 DEF Expectations
    <2>3. QED
      BY <1>2, <1>3, <2>2
  <1>7. LET off == QuantityScale * (told.projected - told.expected) - Sum(Drifts(bought)) IN
        -QuantityScale * Cardinality(P) <= off /\ off <= QuantityScale * Cardinality(P)
    BY <1>1, <1>5, RestAddsUp
  <1>8. ASSUME \A i \in P : bought[i].actual = Unpriced
        PROVE  told.projected = told.expected
    <2>1. \A i \in P : PaidUnitPrice(bought[i]) = bought[i].expected
      BY <1>8 DEF PaidUnitPrice
    <2>2. \A i \in P : i \in R <=> i \in K
      BY <2>1 DEF PaidAt, KnownOf, PaidOf
    <2>3. \A i \in P : Cost(bought, i) = Expected(bought[i])
      BY <2>1 DEF Cost, Expected
    <2>4. Spent(bought) = Meant(bought)
      BY <2>2, <2>3 DEF Spent, Meant
    <2>5. QED
      BY <1>1, <1>2, <1>5, <2>4, TotalsInParts
  <1>9. ASSUME P = Lines
        PROVE  told.remaining = 0 /\ told.projected = told.actual
    <2>1. K \ P = {}
      BY <1>9 DEF KnownOf
    <2>2. Remaining(bought) \in Numbers({})
      BY <2>1 DEF Remaining, Numbers
    <2>3. told.remaining = 0
      BY <1>2, <2>2, NothingToSum
    <2>4. QED
      BY <1>2, <1>5, <2>3
  <1>10. ASSUME P = {}
         PROVE  /\ told.actual = 0 /\ told.unpriced = CalculateListTotals(items).unpriced
                /\ told.unpriced <= CalculateListTotals(planned).unpriced
    <2>1. R = {}
      BY <1>10 DEF PaidAt
    <2>2. told.actual = 0
      <3>1. Costs(bought) \in Numbers({})
        BY <2>1 DEF Costs, Numbers
      <3>2. QED
        BY <1>2, <3>1, NothingToSum
    <2>3. P \ R = {} /\ Lines \ (K \cup P) = Lines \ quoted
      BY <1>4, <1>10
    <2>4. told.unpriced = 0 + Cardinality(Lines \ quoted) /\ Cardinality(Lines \ quoted) \in Nat
      BY <1>2, <2>3, TotalsAssumption, FS_EmptySet, FS_Subset, FS_CardinalityType
    <2>5. Cardinality(Lines \ quoted) <= Cardinality(Lines \ unquoted)
      <3>1. Lines \ quoted \in SUBSET (Lines \ unquoted)
        BY DEF StartPrice
      <3>2. IsFiniteSet(Lines \ unquoted)
        BY TotalsAssumption, FS_Subset
      <3> HIDE DEF quoted, unquoted
      <3>3. QED
        BY <3>1, <3>2, FS_Subset
    <2>6. told.unpriced = Cardinality(Lines \ quoted)
      BY <2>4
    <2>7. QED
      BY <1>3, <1>b, <2>2, <2>5, <2>6
  <1>11. P = {i \in Lines : bought[i].purchased}
    BY DEF PaidOf
  <1>12. Drifts(bought) = [i \in P |-> (IF PaidUnitPrice(bought[i]) = Unpriced THEN 0 ELSE bought[i].quantity * PaidUnitPrice(bought[i]))
                                      - (IF bought[i].expected = Unpriced THEN 0 ELSE bought[i].quantity * bought[i].expected)]
    BY DEF Drifts, Drift, Exact
  <1> HIDE DEF P, K, R, quoted, unquoted
  <1>13. QED
    BY <1>0, <1>6, <1>7, <1>8, <1>9, <1>10, <1>11, <1>12 DEF FiguresAddUp, AtQuotes

LEMMA TotalsStart == TotalsInit => TotalsHold
  BY DEF TotalsInit, TotalsHold, NoQuotes

LEMMA TotalsStep == TotalsHold /\ TotalsNext => TotalsHold'
  <1> SUFFICES ASSUME TotalsHold, TotalsNext PROVE TotalsHold'
    OBVIOUS
  <1>1. CASE CopyItems
    <2>1. PICK quotes \in [Lines -> Paid \cup {Unpriced}] :
            /\ charged' = quotes
            /\ bought' = [i \in Lines |->
                 [quantity |-> planned[i].quantity, purchased |-> FALSE, actual |-> Unpriced,
                  expected |-> IF quotes[i] # Unpriced THEN quotes[i] ELSE planned[i].expected]]
      BY <1>1 DEF CopyItems
    <2>2. /\ bought' \in [Lines -> ShoppingSessionItem] /\ charged' \in [Lines -> Paid \cup {Unpriced}]
          /\ UNCHANGED planned
      BY <1>1, <2>1 DEF CopyItems, TotalsHold, ShoppingSessionItem, ShoppingListItem
    <2>3. \A i \in Lines : bought'[i].expected = StartPrice(i)'
      BY <2>1, <2>2 DEF StartPrice
    <2>4. QED
      BY <1>1, <2>2, <2>3 DEF CopyItems, TotalsHold, CalculateSessionTotals
  <1>2. ASSUME NEW i \in Lines, NEW body \in UpdateSessionItemRequest, RecordItemProgress(i, body)
        PROVE  TotalsHold'
    <2>1. bought \in [Lines -> ShoppingSessionItem] /\ \A j \in Lines : bought[j].expected = StartPrice(j)
      BY <1>2 DEF RecordItemProgress, TotalsHold
    <2>2. bought' \in [Lines -> ShoppingSessionItem] /\ \A j \in Lines : bought'[j].expected = bought[j].expected
      BY <1>2, <2>1 DEF RecordItemProgress, ShoppingSessionItem, UpdateSessionItemRequest
    <2>3. \A j \in Lines : bought'[j].expected = StartPrice(j)'
      BY <1>2, <2>1, <2>2 DEF RecordItemProgress, StartPrice
    <2>4. told' = CalculateSessionTotals(bought')
      BY <1>2 DEF RecordItemProgress
    <2>5. QED
      BY <1>2, <2>2, <2>3, <2>4, ZenonT(60) DEF RecordItemProgress, TotalsHold, CalculateSessionTotals
  <1>3. QED
    BY <1>1, <1>2 DEF TotalsNext

LEMMA TotalsRest == TotalsHold /\ UNCHANGED totalsVars => TotalsHold'
  BY DEF TotalsHold, totalsVars, CalculateSessionTotals, StartPrice

\* A trip is started at what its list comes to at the prices of the plan or the
\* store, and at its own where they have none, and, however its lines are bought,
\* corrected and put back, its totals are off by no more than rounding.
THEOREM TripTotals == TotalsSpec => []FiguresAddUp
  <1>1. TotalsHold /\ [TotalsNext]_totalsVars => TotalsHold'
    BY TotalsStep, TotalsRest
  <1>2. QED
    BY <1>1, TotalsStart, TripAddsUp, PTL DEF TotalsSpec

-----------------------------------------------------------------------------
(***************************************************************************)
(* PriceHistory.                                                           *)
(***************************************************************************)
LEMMA LeastIs ==
  ASSUME NEW S \in SUBSET Nat, S # {}
  PROVE  Min(S) \in S /\ \A n \in S : Min(S) <= n
  BY LeastNatural DEF Min

LEMMA GreatestIs ==
  ASSUME NEW S \in SUBSET Nat, IsFiniteSet(S), S # {}
  PROVE  Max(S) \in S /\ \A n \in S : n <= Max(S)
  <1>1. PICK m \in S : \A n \in S : n <= m
    BY GreatestNatural
  <1>2. \E k \in S : \A n \in S : k >= n
    BY <1>1
  <1>3. Max(S) \in S /\ \A n \in S : Max(S) >= n
    BY <1>2 DEF Max
  <1>4. QED
    BY <1>3

\* A product grows with its factors.
LEMMA ProductGrows ==
  ASSUME NEW a \in Int, NEW b \in Int, NEW d \in Nat, a <= b
  PROVE  d * a \in Int /\ d * b \in Int /\ d * a <= d * b /\ a * d = d * a /\ b * d = d * b
  <1>1. d * (b - a) = d * b - d * a /\ d * a \in Int /\ d * b \in Int
    BY Z3
  <1>2. b - a \in Nat /\ d * (b - a) \in Nat
    BY Z3
  <1>3. QED
    BY <1>1, <1>2, Z3

\* What lies between two whole numbers still does when it is rounded.
LEMMA RoundedBetween ==
  ASSUME NEW n \in Int, NEW d \in Nat \ {0}, NEW lo \in Int, NEW hi \in Int, lo * d <= n, n <= hi * d
  PROVE  Rounded(n, d) \in Int /\ lo <= Rounded(n, d) /\ Rounded(n, d) <= hi
  <1>1. PICK q : q = Rounded(n, d)
    OBVIOUS
  <1>2. PICK r : r = (2 * n + d) % (2 * d)
    OBVIOUS
  <1>3. q \in Int /\ r \in 0 .. 2 * d - 1 /\ 2 * n + d = (2 * d) * q + r
    <2>1. PICK m \in Int : m = 2 * n + d
      OBVIOUS
    <2>2. PICK e \in Nat \ {0} : e = 2 * d
      OBVIOUS
    <2>3. q = m \div e /\ r = m % e
      BY <1>1, <1>2, <2>1, <2>2 DEF Rounded
    <2>4. q \in Int /\ r \in 0 .. e - 1 /\ m = e * q + r
      BY <2>3, Division
    <2>5. QED
      BY <2>1, <2>2, <2>4
  <1>4. d * q \in Int /\ (2 * d) * q = 2 * (d * q)
    BY <1>3, Z3
  <1>5. ASSUME q <= lo - 1 PROVE FALSE
    <2>1. d * q <= d * (lo - 1) /\ d * (lo - 1) \in Int
      BY <1>3, <1>5, ProductGrows
    <2>2. d * (lo - 1) = lo * d - d /\ lo * d \in Int
      BY Z3
    <2>3. QED
      BY <1>3, <1>4, <2>1, <2>2
  <1>6. ASSUME hi + 1 <= q PROVE FALSE
    <2>1. d * (hi + 1) <= d * q /\ d * (hi + 1) \in Int
      BY <1>3, <1>6, ProductGrows
    <2>2. d * (hi + 1) = hi * d + d /\ hi * d \in Int
      BY Z3
    <2>3. QED
      BY <1>3, <1>4, <2>1, <2>2
  <1>7. QED
    BY <1>1, <1>3, <1>5, <1>6

\* Cells of the history with their rows.
RowsTyped(cells) == IsFiniteSet(cells) /\ \A c \in cells : recorded[c] \in DailyPricePoint
Counts(cells) == [c \in cells |-> recorded[c].count]

LEMMA RowIs ==
  ASSUME NEW cells, RowsTyped(cells), NEW c \in cells
  PROVE  /\ recorded[c].average \in Nat /\ recorded[c].min \in Nat /\ recorded[c].max \in Nat
         /\ recorded[c].count \in Nat \ {0} /\ recorded[c].anomalous \in BOOLEAN
         /\ recorded[c].min <= recorded[c].average /\ recorded[c].average <= recorded[c].max
  BY DEF RowsTyped, DailyPricePoint

\* Something is observed wherever there are rows.
LEMMA ObservedIs ==
  ASSUME NEW cells, RowsTyped(cells)
  PROVE  Counts(cells) \in Numbers(cells) /\ Observed(cells) = Sum(Counts(cells))
         /\ Observed(cells) \in Int /\ (cells # {} => Observed(cells) \in Nat \ {0})
  <1>1. PICK a : a = Counts(cells)
    OBVIOUS
  <1>2. a \in Numbers(cells) /\ \A c \in cells : a[c] \in Nat \ {0}
    BY <1>1, RowIs DEF Counts, Numbers
  <1>3. Observed(cells) = Sum(a)
    BY <1>1 DEF Observed, Counts
  <1>4. PICK b : b = [c \in cells |-> 1]
    OBVIOUS
  <1>5. b \in Numbers(cells) /\ \A c \in cells : b[c] = 1 /\ b[c] <= a[c]
    BY <1>2, <1>4 DEF Numbers
  <1>6. IsFiniteSet(cells)
    BY DEF RowsTyped
  <1>7. Sum(a) \in Int /\ Sum(b) <= Sum(a)
    BY <1>2, <1>5, <1>6, SumMonotone
  <1>8. Cardinality(cells) \in Nat /\ Sum(b) = 1 * Cardinality(cells)
    BY <1>5, <1>6, SumConstant
  <1>9. cells # {} => Cardinality(cells) # 0
    BY <1>6, FS_EmptySet
  <1>10. QED
    BY <1>1, <1>2, <1>3, <1>7, <1>8, <1>9

\* A weighted mean lies between what bounds every row's average.
LEMMA MeanBetween ==
  ASSUME NEW cells, RowsTyped(cells), cells # {}, NEW lo \in Int, NEW hi \in Int,
         \A c \in cells : lo <= recorded[c].average /\ recorded[c].average <= hi
  PROVE  LET mean == Rounded(Sum([c \in cells |-> recorded[c].average * recorded[c].count]), Observed(cells)) IN
         mean \in Int /\ lo <= mean /\ mean <= hi
  <1>1. PICK a : a = Counts(cells)
    OBVIOUS
  <1>2. PICK b : b = [c \in cells |-> recorded[c].average * recorded[c].count]
    OBVIOUS
  <1>3. PICK d : d = Observed(cells)
    OBVIOUS
  <1>4. IsFiniteSet(cells) /\ a \in Numbers(cells) /\ d = Sum(a) /\ d \in Nat \ {0}
    BY <1>1, <1>3, ObservedIs DEF RowsTyped
  <1>5. ASSUME NEW c \in cells
        PROVE  /\ a[c] \in Nat /\ b[c] \in Int /\ lo * a[c] \in Int /\ hi * a[c] \in Int
               /\ lo * a[c] <= b[c] /\ b[c] <= hi * a[c]
    <2>1. PICK k \in Nat : k = recorded[c].count
      BY RowIs
    <2>2. PICK m \in Nat : m = recorded[c].average
      BY RowIs
    <2>3. lo <= m /\ m <= hi /\ a[c] = k /\ b[c] = m * k
      BY <1>1, <1>2, <2>1, <2>2 DEF Counts
    <2>4. k * lo \in Int /\ k * m \in Int /\ k * lo <= k * m /\ lo * k = k * lo /\ m * k = k * m
      BY <2>3, ProductGrows
    <2>5. k * hi \in Int /\ k * m <= k * hi /\ hi * k = k * hi
      BY <2>3, ProductGrows
    <2>6. QED
      BY <2>3, <2>4, <2>5
  <1>6. PICK z : z = [c \in cells |-> 0]
    OBVIOUS
  <1>7. PICK l : l = [c \in cells |-> lo * a[c]]
    OBVIOUS
  <1>8. PICK u : u = [c \in cells |-> hi * a[c]]
    OBVIOUS
  <1>9. b \in Numbers(cells) /\ z \in Numbers(cells) /\ l \in Numbers(cells) /\ u \in Numbers(cells)
    BY <1>2, <1>5, <1>6, <1>7, <1>8 DEF Numbers
  <1>10. Cardinality(cells) \in Nat /\ Sum(z) = 0 * Cardinality(cells)
    <2>1. \A c \in cells : z[c] = 0
      BY <1>6
    <2>2. QED
      BY <1>4, <1>9, <2>1, SumConstant
  <1>11. Sum(z) = 0
    BY <1>10
  <1>12. Sum(l) = lo * Sum(a) + Sum(z)
    <2>1. \A c \in cells : l[c] = lo * a[c] + z[c]
      BY <1>5, <1>6, <1>7
    <2>2. lo \in Int /\ IsFiniteSet(cells) /\ a \in Numbers(cells)
      BY <1>4
    <2>3. QED
      BY <2>1, <2>2, <1>9, SumLinear
  <1>13. Sum(u) = hi * Sum(a) + Sum(z)
    <2>1. \A c \in cells : u[c] = hi * a[c] + z[c]
      BY <1>5, <1>6, <1>8
    <2>2. QED
      BY <1>4, <1>9, <2>1, SumLinear
  <1>14. Sum(b) \in Int /\ Sum(l) \in Int /\ Sum(l) <= Sum(b)
    <2>1. \A c \in cells : l[c] <= b[c]
      BY <1>5, <1>7
    <2>2. QED
      BY <1>4, <1>9, <2>1, SumMonotone
  <1>15. Sum(u) \in Int /\ Sum(b) <= Sum(u)
    <2>1. \A c \in cells : b[c] <= u[c]
      BY <1>5, <1>8
    <2>2. QED
      BY <1>4, <1>9, <2>1, SumMonotone
  <1>16. PICK n \in Int : n = Sum(b)
    BY <1>14
  <1>17. lo * d \in Int /\ hi * d \in Int
    BY <1>4, Z3
  <1>18. lo * d <= n /\ n <= hi * d
    BY <1>4, <1>11, <1>12, <1>13, <1>14, <1>15, <1>16, <1>17
  <1>19. Rounded(n, d) \in Int /\ lo <= Rounded(n, d) /\ Rounded(n, d) <= hi
    BY <1>4, <1>18, RoundedBetween
  <1>20. QED
    BY <1>2, <1>3, <1>16, <1>19

DayOf(cells, d) == {c \in cells : c[1] = d}
DaysOf(cells) == {c[1] : c \in cells}
DayPoint(cells, d) == MergeDay(DayOf(cells, d), d)

LEMMA PointsAre ==
  ASSUME NEW cells
  PROVE  /\ \A d \in DaysOf(cells) : DayPoint(cells, d) \in MergeByDate(cells)
         /\ \A p \in MergeByDate(cells) : \E d \in DaysOf(cells) : p = DayPoint(cells, d)
  BY DEF MergeByDate, DaysOf, DayPoint, DayOf

\* What the point of some rows of one day says.
LEMMA DayMerges ==
  ASSUME NEW cells, RowsTyped(cells), cells # {}, NEW d, NEW p, p = MergeDay(cells, d)
  PROVE  /\ p.day = d /\ p.count = Observed(cells) /\ p.count \in Int
         /\ p.average \in Nat /\ p.min \in Nat /\ p.max \in Nat
         /\ p.min <= p.average /\ p.average <= p.max
         /\ \E c \in cells : p.min = recorded[c].min
         /\ \E c \in cells : p.max = recorded[c].max
         /\ \A c \in cells : p.min <= recorded[c].min /\ recorded[c].max <= p.max
         /\ p.anomalous <=> \E c \in cells : recorded[c].anomalous
  <1> DEFINE mins == {recorded[c].min : c \in cells}
             maxs == {recorded[c].max : c \in cells}
  <1>1. mins \in SUBSET Nat /\ maxs \in SUBSET Nat /\ mins # {} /\ maxs # {}
    BY RowIs
  <1>2. IsFiniteSet(maxs)
    <2>1. PICK f : f = [c \in cells |-> recorded[c].max]
      OBVIOUS
    <2>2. IsFiniteSet(cells) /\ f = [c \in cells |-> f[c]] /\ maxs = {f[c] : c \in cells}
      BY <2>1 DEF RowsTyped
    <2>3. QED
      BY <2>2, ImageIsFinite
  <1>3. Min(mins) \in mins /\ \A n \in mins : Min(mins) <= n
    BY <1>1, LeastIs
  <1>4. Max(maxs) \in maxs /\ \A n \in maxs : n <= Max(maxs)
    BY <1>1, <1>2, GreatestIs
  <1>5. /\ p.day = d /\ p.count = Observed(cells) /\ p.min = Min(mins) /\ p.max = Max(maxs)
        /\ p.average = Rounded(Sum([c \in cells |-> recorded[c].average * recorded[c].count]), Observed(cells))
        /\ p.anomalous = \E c \in cells : recorded[c].anomalous
    BY DEF MergeDay
  <1>6. p.min \in Nat /\ p.max \in Nat
    BY <1>1, <1>3, <1>4, <1>5
  <1>7. /\ \E c \in cells : p.min = recorded[c].min
        /\ \E c \in cells : p.max = recorded[c].max
    BY <1>3, <1>4, <1>5
  <1>8. \A c \in cells : p.min <= recorded[c].min /\ recorded[c].max <= p.max
    BY <1>3, <1>4, <1>5
  <1>9. \A c \in cells : p.min <= recorded[c].average /\ recorded[c].average <= p.max
    BY <1>6, <1>8, RowIs
  <1>10. p.average \in Int /\ p.min <= p.average /\ p.average <= p.max
    <2>1. PICK lo \in Int : lo = p.min
      BY <1>6
    <2>2. PICK hi \in Int : hi = p.max
      BY <1>6
    <2>3. \A c \in cells : lo <= recorded[c].average /\ recorded[c].average <= hi
      BY <1>9, <2>1, <2>2
    <2>4. QED
      BY <1>5, <2>1, <2>2, <2>3, MeanBetween
  <1>11. p.average \in Nat /\ p.count \in Int
    BY <1>5, <1>6, <1>10, ObservedIs
  <1>12. QED
    BY <1>5, <1>6, <1>7, <1>8, <1>10, <1>11

\* The point of a day of some rows.
LEMMA DayIs ==
  ASSUME NEW cells, RowsTyped(cells), NEW d \in DaysOf(cells)
  PROVE  RowsTyped(DayOf(cells, d)) /\ DayOf(cells, d) # {}
  BY FS_Subset DEF RowsTyped, DayOf, DaysOf

\* The observations of the days are those of their rows.
LEMMA CountsOfDays ==
  ASSUME NEW cells, RowsTyped(cells)
  PROVE  LET points == MergeByDate(cells) IN
         IsFiniteSet(points) /\ Sum([p \in points |-> p.count]) = Observed(cells)
  <1> DEFINE days == DaysOf(cells)
             points == MergeByDate(cells)
             Points(D) == {DayPoint(cells, d) : d \in D}
             Lot(D) == {c \in cells : c[1] \in D}
  <1>1. IsFiniteSet(cells) /\ IsFiniteSet(days)
    <2>1. PICK f : f = [c \in cells |-> c[1]]
      OBVIOUS
    <2>2. IsFiniteSet(cells) /\ f = [c \in cells |-> f[c]] /\ days = {f[c] : c \in cells}
      BY <2>1 DEF RowsTyped, DaysOf
    <2>3. QED
      BY <2>2, ImageIsFinite
  <1>2. points = Points(days)
    BY PointsAre
  <1>3. IsFiniteSet(points)
    <2>1. PICK f : f = [d \in days |-> DayPoint(cells, d)]
      OBVIOUS
    <2>2. f = [d \in days |-> f[d]] /\ points = {f[d] : d \in days}
      BY <1>2, <2>1
    <2>3. QED
      BY <1>1, <2>2, ImageIsFinite
  <1>4. \A d \in days : LET p == DayPoint(cells, d) IN
          p.day = d /\ p.count = Observed(DayOf(cells, d)) /\ p.count \in Int
    BY DayIs, DayMerges DEF DayPoint
  <1>5. PICK a : a = [p \in points |-> p.count]
    OBVIOUS
  <1>6. a \in Numbers(points)
    BY <1>2, <1>4, <1>5 DEF Numbers
  <1>7. PICK b : b = Counts(cells)
    OBVIOUS
  <1>8. b \in Numbers(cells) /\ Observed(cells) = Sum(b)
    BY <1>7, ObservedIs
  <1> DEFINE Good == {D \in SUBSET days : Over(a, Points(D)) = Over(b, Lot(D))}
  <1>9. PartsAddUp(a, points) /\ PartsAddUp(b, cells)
    BY <1>1, <1>3, <1>6, <1>8, SumOver
  <1>10. {} \in Good
    <2>1. Points({}) = {} /\ Lot({}) = {}
      OBVIOUS
    <2>2. QED
      BY <1>9, <2>1 DEF PartsAddUp
  <1>11. ASSUME NEW D \in SUBSET days, NEW d \in D, D \ {d} \in Good PROVE D \in Good
    <2>1. PICK E \in SUBSET days : E = D \ {d}
      OBVIOUS
    <2>2. PICK p : p = DayPoint(cells, d)
      OBVIOUS
    <2>3. d \in days /\ p.day = d /\ p.count = Observed(DayOf(cells, d)) /\ p.count \in Int
      BY <1>4, <2>2
    <2>4. PICK R \in SUBSET cells : R = Lot(D)
      OBVIOUS
    <2>5. PICK T \in SUBSET R : T = DayOf(cells, d)
      BY <2>4 DEF DayOf
    <2>6. R \ T = Lot(E)
      BY <2>1, <2>4, <2>5 DEF DayOf
    <2>7. PICK S \in SUBSET points : S = Points(D)
      BY <1>2
    <2>8. p \in S
      BY <2>2, <2>7
    <2>9. S \ {p} = Points(E)
      <3>1. \A e \in E : DayPoint(cells, e) # p
        BY <1>4, <2>1, <2>3
      <3>2. QED
        BY <2>1, <2>2, <2>7, <3>1
    <2>10. Over(a, S) = a[p] + Over(a, S \ {p}) /\ a[p] = p.count
      BY <1>5, <1>9, <2>7, <2>8 DEF PartsAddUp, StepFits
    <2>11. Over(b, R) = Over(b, T) + Over(b, R \ T)
      <3>1. PICK g : g = [c \in R |-> b[c]]
        OBVIOUS
      <3>2. IsFiniteSet(R) /\ g \in Numbers(R)
        BY <1>1, <1>8, <3>1, FS_Subset DEF Numbers
      <3>3. Sum(g) = Over(g, T) + Over(g, R \ T)
        BY <3>2, SumInParts
      <3>4. [c \in T |-> g[c]] = [c \in T |-> b[c]] /\ [c \in R \ T |-> g[c]] = [c \in R \ T |-> b[c]]
        BY <3>1
      <3>5. QED
        BY <3>1, <3>3, <3>4 DEF Over
    <2>12. Over(b, T) = p.count
      <3>1. [c \in T |-> b[c]] = Counts(T)
        BY <1>7, <2>4, <2>5 DEF Counts
      <3>2. RowsTyped(T)
        BY <2>3, <2>5, DayIs
      <3>3. QED
        BY <2>3, <2>5, <3>1, <3>2, ObservedIs DEF Over
    <2>13. Over(a, Points(E)) = Over(b, Lot(E))
      BY <1>11, <2>1
    <2>14. Over(a, S) = Over(b, R)
      BY <2>6, <2>9, <2>10, <2>11, <2>12, <2>13
    <2>15. QED
      BY <2>4, <2>7, <2>14
  <1> HIDE DEF Good
  <1>12. \A D \in SUBSET days : D \in Good
    BY <1>1, <1>10, <1>11, OneByOne
  <1>13. Over(a, Points(days)) = Over(b, Lot(days))
    BY <1>12 DEF Good
  <1>14. Lot(days) = cells
    BY DEF DaysOf
  <1>15. Sum(a) = Sum(b)
    BY <1>2, <1>9, <1>13, <1>14 DEF PartsAddUp
  <1>16. QED
    BY <1>3, <1>5, <1>8, <1>15

OddDays(cells) == {c[1] : c \in {c \in cells : recorded[c].anomalous}}
Calm(cells) == {c \in cells : c[1] \notin OddDays(cells)}

\* The points a trend leans on are those of the rows of calm days.
LEMMA CalmPointsAre ==
  ASSUME NEW cells, RowsTyped(cells)
  PROVE  /\ CalmPoints(MergeByDate(cells)) = MergeByDate(Calm(cells))
         /\ CalmPoints(MergeByDate(Calm(cells))) = MergeByDate(Calm(cells))
         /\ RowsTyped(Calm(cells))
         /\ Calm(cells) = {} <=> MergeByDate(Calm(cells)) = {}
  <1> DEFINE days == DaysOf(cells)
             calm == Calm(cells)
  <1>1. \A d \in days : DayPoint(cells, d).anomalous <=> d \in OddDays(cells)
    <2>1. ASSUME NEW d \in days
          PROVE  DayPoint(cells, d).anomalous <=> \E c \in DayOf(cells, d) : recorded[c].anomalous
      <3>1. RowsTyped(DayOf(cells, d)) /\ DayOf(cells, d) # {}
        BY DayIs
      <3>2. QED
        BY <3>1, DayMerges DEF DayPoint
    <2>2. QED
      BY <2>1 DEF OddDays, DayOf
  <1>2. RowsTyped(calm)
    BY FS_Subset DEF RowsTyped, Calm
  <1>3. DaysOf(calm) = days \ OddDays(cells)
    BY DEF DaysOf, Calm
  <1>4. \A d \in DaysOf(calm) : DayOf(calm, d) = DayOf(cells, d)
    BY <1>3 DEF DayOf, Calm
  <1>5. \A d \in DaysOf(calm) : DayPoint(calm, d) = DayPoint(cells, d) /\ ~DayPoint(cells, d).anomalous
    BY <1>1, <1>3, <1>4 DEF DayPoint
  <1>6. \A p \in MergeByDate(calm) : p \in MergeByDate(cells) /\ ~p.anomalous
    <2>1. SUFFICES ASSUME NEW p \in MergeByDate(calm) PROVE p \in MergeByDate(cells) /\ ~p.anomalous
      OBVIOUS
    <2>2. PICK d \in DaysOf(calm) : p = DayPoint(calm, d)
      BY PointsAre
    <2>3. d \in days
      BY <1>3
    <2>4. QED
      BY <1>5, <2>2, <2>3, PointsAre
  <1>7. \A p \in MergeByDate(cells) : ~p.anomalous => p \in MergeByDate(calm)
    <2>1. SUFFICES ASSUME NEW p \in MergeByDate(cells), ~p.anomalous PROVE p \in MergeByDate(calm)
      OBVIOUS
    <2>2. PICK d \in days : p = DayPoint(cells, d)
      BY PointsAre
    <2>3. d \in DaysOf(calm)
      BY <1>1, <1>3, <2>1, <2>2
    <2>4. p = DayPoint(calm, d)
      BY <1>5, <2>2, <2>3
    <2>5. QED
      BY <2>3, <2>4, PointsAre
  <1>8. calm = {} <=> MergeByDate(calm) = {}
    <2>1. calm = {} <=> DaysOf(calm) = {}
      BY DEF DaysOf
    <2>2. DaysOf(calm) = {} <=> MergeByDate(calm) = {}
      BY PointsAre
    <2>3. QED
      BY <2>1, <2>2
  <1>9. QED
    BY <1>2, <1>6, <1>7, <1>8 DEF CalmPoints

\* What a trend over some rows of calm days says.
LEMMA TrendIs ==
  ASSUME NEW cells, RowsTyped(cells), cells # {}
  PROVE  LET trend == TrendOf(MergeByDate(cells)) IN
         /\ trend.lowest = Min({recorded[c].min : c \in cells})
         /\ trend.highest = Max({recorded[c].max : c \in cells})
         /\ trend.lowest <= trend.average /\ trend.average <= trend.highest
         /\ trend # NoTrend
  <1> DEFINE points == MergeByDate(cells)
             mins == {recorded[c].min : c \in cells}
             maxs == {recorded[c].max : c \in cells}
             lows == {p.min : p \in points}
             highs == {p.max : p \in points}
  <1>1. PICK trend : trend = TrendOf(points)
    OBVIOUS
  <1>2. /\ trend.lowest = Min(lows) /\ trend.highest = Max(highs)
        /\ trend.average = Rounded(Sum([p \in points |-> p.average]), Cardinality(points))
        /\ trend.direction \in {"stable", "up", "down"}
    BY <1>1 DEF TrendOf
  <1>3. ASSUME NEW p \in points
        PROVE  /\ p.average \in Nat /\ p.min \in Nat /\ p.max \in Nat
               /\ p.min <= p.average /\ p.average <= p.max
               /\ \E c \in cells : p.min = recorded[c].min
               /\ \E c \in cells : p.max = recorded[c].max
    <2>1. PICK d \in DaysOf(cells) : p = MergeDay(DayOf(cells, d), d)
      BY PointsAre DEF DayPoint
    <2>2. RowsTyped(DayOf(cells, d)) /\ DayOf(cells, d) # {} /\ DayOf(cells, d) \subseteq cells
      BY DayIs DEF DayOf
    <2>3. PICK S : S = DayOf(cells, d)
      OBVIOUS
    <2>4. /\ p.average \in Nat /\ p.min \in Nat /\ p.max \in Nat
          /\ p.min <= p.average /\ p.average <= p.max
          /\ \E c \in S : p.min = recorded[c].min
          /\ \E c \in S : p.max = recorded[c].max
      BY <2>1, <2>2, <2>3, DayMerges
    <2>5. QED
      BY <2>2, <2>3, <2>4
  <1>4. ASSUME NEW c \in cells
        PROVE  \E p \in points : p.min <= recorded[c].min /\ recorded[c].max <= p.max
    <2>1. PICK d \in DaysOf(cells) : c \in DayOf(cells, d)
      BY DEF DaysOf, DayOf
    <2>2. PICK S : S = DayOf(cells, d)
      OBVIOUS
    <2>3. RowsTyped(S) /\ S # {} /\ c \in S
      BY <2>1, <2>2, DayIs
    <2>4. PICK p : p = MergeDay(S, d)
      OBVIOUS
    <2>5. p.min <= recorded[c].min /\ recorded[c].max <= p.max
      BY <2>3, <2>4, DayMerges
    <2>6. p \in points
      BY <2>2, <2>4, PointsAre DEF DayPoint
    <2>7. QED
      BY <2>5, <2>6
  <1>5. IsFiniteSet(points) /\ points # {}
    BY <1>4, CountsOfDays
  <1>6. mins \in SUBSET Nat /\ maxs \in SUBSET Nat /\ mins # {} /\ maxs # {}
    BY RowIs
  <1>7. lows \in SUBSET Nat /\ highs \in SUBSET Nat /\ lows # {} /\ highs # {}
    BY <1>3, <1>5
  <1>8. IsFiniteSet(maxs)
    <2>1. PICK f : f = [c \in cells |-> recorded[c].max]
      OBVIOUS
    <2>2. IsFiniteSet(cells) /\ f = [c \in cells |-> f[c]] /\ maxs = {f[c] : c \in cells}
      BY <2>1 DEF RowsTyped
    <2>3. QED
      BY <2>2, ImageIsFinite
  <1>9. IsFiniteSet(highs)
    <2>1. PICK f : f = [p \in points |-> p.max]
      OBVIOUS
    <2>2. f = [p \in points |-> f[p]] /\ highs = {f[p] : p \in points}
      BY <2>1
    <2>3. QED
      BY <1>5, <2>2, ImageIsFinite
  <1>10. Min(mins) \in mins /\ \A n \in mins : Min(mins) <= n
    BY <1>6, LeastIs
  <1>11. Min(lows) \in lows /\ \A n \in lows : Min(lows) <= n
    BY <1>7, LeastIs
  <1>12. Max(maxs) \in maxs /\ \A n \in maxs : n <= Max(maxs)
    BY <1>6, <1>8, GreatestIs
  <1>13. Max(highs) \in highs /\ \A n \in highs : n <= Max(highs)
    BY <1>7, <1>9, GreatestIs
  <1>14. Min(lows) = Min(mins) /\ Min(lows) \in Int
    <2>1. lows \in SUBSET mins
      BY <1>3
    <2>2. PICK c \in cells : Min(mins) = recorded[c].min
      BY <1>10
    <2>3. PICK p \in points : p.min <= recorded[c].min
      BY <1>4
    <2>4. p.min \in lows
      OBVIOUS
    <2>5. Min(lows) <= p.min /\ Min(mins) <= Min(lows) /\ Min(lows) \in Nat /\ Min(mins) \in Nat /\ p.min \in Nat
      BY <1>6, <1>7, <1>10, <1>11, <2>1, <2>4
    <2>6. QED
      BY <2>2, <2>3, <2>5
  <1>15. Max(highs) = Max(maxs) /\ Max(highs) \in Int
    <2>1. highs \in SUBSET maxs
      BY <1>3
    <2>2. PICK c \in cells : Max(maxs) = recorded[c].max
      BY <1>12
    <2>3. PICK p \in points : recorded[c].max <= p.max
      BY <1>4
    <2>4. p.max \in highs
      OBVIOUS
    <2>5. p.max <= Max(highs) /\ Max(highs) <= Max(maxs) /\ Max(highs) \in Nat /\ Max(maxs) \in Nat /\ p.max \in Nat
      BY <1>6, <1>7, <1>12, <1>13, <2>1, <2>4
    <2>6. QED
      BY <2>2, <2>3, <2>5
  <1>16. trend.lowest <= trend.average /\ trend.average <= trend.highest
    <2>1. PICK lo \in Int : lo = Min(lows)
      BY <1>14
    <2>2. PICK hi \in Int : hi = Max(highs)
      BY <1>15
    <2>3. PICK a : a = [p \in points |-> p.average]
      OBVIOUS
    <2>4. ASSUME NEW p \in points PROVE a[p] \in Int /\ lo <= a[p] /\ a[p] <= hi
      <3>1. p.min \in lows /\ p.max \in highs
        OBVIOUS
      <3>2. lo <= p.min /\ p.max <= hi
        BY <1>11, <1>13, <2>1, <2>2, <3>1
      <3>3. QED
        BY <1>3, <2>3, <3>2
    <2>5. a \in Numbers(points)
      BY <2>3, <2>4 DEF Numbers
    <2>6. PICK n : n = Cardinality(points)
      OBVIOUS
    <2>7. n \in Nat /\ Sum(a) \in Int /\ lo * n <= Sum(a) /\ Sum(a) <= hi * n
      BY <1>5, <2>4, <2>5, <2>6, SumBetween
    <2>8. n # 0
      BY <1>5, <2>6, FS_EmptySet
    <2>9. lo <= Rounded(Sum(a), n) /\ Rounded(Sum(a), n) <= hi
      BY <2>7, <2>8, RoundedBetween
    <2>10. trend.average = Rounded(Sum(a), n)
      BY <1>2, <2>3, <2>6
    <2>11. QED
      BY <1>2, <2>1, <2>2, <2>9, <2>10
  <1>17. trend # NoTrend
    BY <1>2 DEF NoTrend
  <1>18. QED
    BY <1>1, <1>2, <1>14, <1>15, <1>16, <1>17

\* What is shown is what some rows that were read come to.
ShownFrom(rows, currency) ==
    /\ shown.points = MergeByDate(In(rows, currency))
    /\ shown.trend = SummarizeTrend(shown.points)
HistoryHolds ==
    /\ RowsTyped(DOMAIN recorded)
    /\ shown.ready /\ shown.points # {} =>
         \E rows \in FindRange : \E currency \in HistoryCurrency(rows, asks.currency) :
            ShownFrom(rows, currency)

LEMMA ShownIsTrue == HistoryHolds => HistoryIsTrue
  <1> SUFFICES ASSUME HistoryHolds, shown.ready, shown.points # {} PROVE HistoryIsTrue
    BY DEF HistoryIsTrue
  <1>1. PICK rows \in FindRange : \E currency \in HistoryCurrency(rows, asks.currency) : ShownFrom(rows, currency)
    BY DEF HistoryHolds
  <1>2. PICK currency \in HistoryCurrency(rows, asks.currency) : ShownFrom(rows, currency)
    BY <1>1
  <1>3. PICK cells : cells = In(rows, currency)
    OBVIOUS
  <1>4. cells \in SUBSET DOMAIN recorded
    BY <1>3 DEF In, FindRange, InRange
  <1>5. RowsTyped(cells)
    BY <1>4, FS_Subset DEF HistoryHolds, RowsTyped
  <1>6. shown.points = MergeByDate(cells) /\ shown.trend = SummarizeTrend(shown.points)
    BY <1>2, <1>3 DEF ShownFrom
  <1> DEFINE calm == Calm(cells)
             trend == shown.trend
  <1>7. {p.day : p \in shown.points} = {c[1] : c \in cells}
    <2>1. \A d \in DaysOf(cells) : DayPoint(cells, d).day = d
      BY DEF DayPoint, MergeDay
    <2>2. QED
      BY <1>6, <2>1, PointsAre DEF DaysOf
  <1>8. Sum([p \in shown.points |-> p.count]) = Observed(cells)
    BY <1>5, <1>6, CountsOfDays
  <1>9. ASSUME NEW p \in shown.points PROVE p.min <= p.average /\ p.average <= p.max
    <2>1. PICK d \in DaysOf(cells) : p = MergeDay(DayOf(cells, d), d)
      BY <1>6, PointsAre DEF DayPoint
    <2>2. RowsTyped(DayOf(cells, d)) /\ DayOf(cells, d) # {}
      BY <1>5, DayIs
    <2>3. QED
      BY <2>1, <2>2, DayMerges
  <1>10. /\ CalmPoints(shown.points) = MergeByDate(calm)
         /\ CalmPoints(MergeByDate(calm)) = MergeByDate(calm)
         /\ RowsTyped(calm)
         /\ calm = {} <=> MergeByDate(calm) = {}
    BY <1>5, <1>6, CalmPointsAre
  <1>11. calm = {} => trend = NoTrend
    BY <1>6, <1>10 DEF SummarizeTrend
  <1>12. ASSUME calm # {}
         PROVE  /\ trend = TrendOf(MergeByDate(calm)) /\ trend # NoTrend
                /\ trend.lowest = Min({recorded[c].min : c \in calm})
                /\ trend.highest = Max({recorded[c].max : c \in calm})
                /\ trend.lowest <= trend.average /\ trend.average <= trend.highest
    <2>1. trend = TrendOf(MergeByDate(calm))
      BY <1>6, <1>10, <1>12 DEF SummarizeTrend
    <2> HIDE DEF calm, trend
    <2>2. QED
      BY <1>10, <1>12, <2>1, TrendIs
  <1>13. calm # {} => trend = SummarizeTrend(MergeByDate(calm))
    BY <1>10, <1>12 DEF SummarizeTrend
  <1>14. calm = {c \in cells : c[1] \notin {e[1] : e \in {e \in cells : recorded[e].anomalous}}}
    BY DEF Calm, OddDays
  <1> HIDE DEF calm
  <1>15. QED
    BY <1>3, <1>7, <1>8, <1>9, <1>11, <1>12, <1>13, <1>14, ZenonT(60) DEF HistoryIsTrue

LEMMA HistoryStarts == HistoryInit => HistoryHolds
  <1> SUFFICES ASSUME HistoryInit PROVE HistoryHolds
    OBVIOUS
  <1>1. PICK cells \in SUBSET ((0 .. Today) \X Outlets) : recorded \in [cells -> DailyPricePoint]
    BY DEF HistoryInit
  <1>2. IsFiniteSet((0 .. Today) \X Outlets)
    <2>1. IsFiniteSet(0 .. Today)
      BY HistoryAssumption, FS_Interval
    <2>2. QED
      BY <2>1, HistoryAssumption, FS_Product
  <1>3. IsFiniteSet(cells)
    BY <1>2, FS_Subset
  <1>4. ~shown.ready
    BY DEF HistoryInit, NotShown
  <1>5. QED
    BY <1>1, <1>3, <1>4 DEF HistoryHolds, RowsTyped

LEMMA HistoryStep == HistoryHolds /\ GetPriceHistory => HistoryHolds'
  <1> SUFFICES ASSUME HistoryHolds, GetPriceHistory PROVE HistoryHolds'
    OBVIOUS
  <1>1. recorded' = recorded /\ asks' = asks
    BY DEF GetPriceHistory
  <1>2. RowsTyped(DOMAIN recorded)'
    BY <1>1 DEF HistoryHolds, RowsTyped
  <1>3. ASSUME NEW rows \in FindRange, NEW currency \in HistoryCurrency(rows, asks.currency),
               NEW points, points = MergeByDate(In(rows, currency)),
               shown' = [ready |-> TRUE, points |-> points, trend |-> SummarizeTrend(points)]
        PROVE  HistoryHolds'
    <2>1. FindRange' = FindRange /\ InRange' = InRange
      BY <1>1 DEF FindRange, InRange
    <2>2. HistoryCurrency(rows, asks.currency)' = HistoryCurrency(rows, asks.currency)
      BY <1>1 DEF HistoryCurrency, Observed, In
    <2>3. shown'.points = points /\ shown'.trend = SummarizeTrend(points)
      BY <1>3
    <2>4. ShownFrom(rows, currency)'
      <3>1. MergeByDate(In(rows, currency))' = MergeByDate(In(rows, currency))
        BY <1>1 DEF MergeByDate, MergeDay, Observed, In
      <3>2. QED
        BY <1>3, <2>3, <3>1 DEF ShownFrom
    <2>5. rows \in FindRange' /\ currency \in HistoryCurrency(rows, asks.currency)'
      BY <2>1, <2>2
    <2>6. QED
      BY <1>2, <2>4, <2>5 DEF HistoryHolds
  <1>4. ASSUME shown' = [ready |-> TRUE, points |-> {}, trend |-> NoTrend]
        PROVE  HistoryHolds'
    BY <1>2, <1>4 DEF HistoryHolds
  <1>5. QED
    BY <1>3, <1>4 DEF GetPriceHistory

LEMMA HistoryRests == HistoryHolds /\ UNCHANGED historyVars => HistoryHolds'
  <1> SUFFICES ASSUME HistoryHolds, UNCHANGED historyVars PROVE HistoryHolds'
    OBVIOUS
  <1>1. recorded' = recorded /\ asks' = asks /\ shown' = shown
    BY DEF historyVars
  <1>2. RowsTyped(DOMAIN recorded)'
    BY <1>1 DEF HistoryHolds, RowsTyped
  <1>3. FindRange' = FindRange
    BY <1>1 DEF FindRange, InRange
  <1>4. ASSUME NEW rows, NEW currency \in HistoryCurrency(rows, asks.currency), ShownFrom(rows, currency)
        PROVE  currency \in HistoryCurrency(rows, asks.currency)' /\ ShownFrom(rows, currency)'
    <2>1. HistoryCurrency(rows, asks.currency)' = HistoryCurrency(rows, asks.currency)
      BY <1>1 DEF HistoryCurrency, Observed, In
    <2>2. ShownFrom(rows, currency)'
      BY <1>1, <1>4 DEF ShownFrom, MergeByDate, MergeDay, Observed, In, SummarizeTrend
    <2>3. QED
      BY <1>4, <2>1, <2>2
  <1>5. QED
    BY <1>1, <1>2, <1>3, <1>4 DEF HistoryHolds

\* What a shopper reads of a history is what the rows read for it come to.
THEOREM HistoryTold == HistorySpec => []HistoryIsTrue
  <1>1. HistoryHolds /\ [GetPriceHistory]_historyVars => HistoryHolds'
    BY HistoryStep, HistoryRests
  <1>2. QED
    BY <1>1, HistoryStarts, ShownIsTrue, PTL DEF HistorySpec

-----------------------------------------------------------------------------
(***************************************************************************)
(* All of them together, as they are checked: whichever of them moves.     *)
(* What is not looked at stands still, the tree and the feed in no state   *)
(* of theirs.                                                              *)
(***************************************************************************)
ShelfHolds == CommunityTyped /\ CatalogHolds /\ ShopsHold /\ TripsTyped /\ StartsApart

BesideHolds ==
    /\ AccountsHold /\ SettingsHold /\ FactsHold
    /\ focus = "nearby" => NearbyHolds
    /\ focus = "history" => HistoryHolds
    /\ focus = "totals" => TotalsHold
    /\ focus = "tree" => TreeHolds
    /\ focus = "feed" => FeedHolds

\* The scenes in which shops, hours and falls are looked at are of their types.
LEMMA RowsOfScenes == {Unlisted, Listed, Mine} \subseteq StoreLocation
  <1>1. <<0, 1>> \in Int \X Int /\ {} \in SUBSET OpeningHours /\ 0 \in Int
    OBVIOUS
  <1>2. "ACTIVE" \in {"ACTIVE", "UNDER_REVIEW", "HIDDEN"} /\ "near" \in {"near", "far"}
    OBVIOUS
  <1>3. Unlisted \in StoreLocation
    BY <1>1, <1>2, Zenon DEF Unlisted, StoreLocation
  <1>4. Listed \in StoreLocation
    BY <1>3 DEF Listed, StoreLocation
  <1>5. Mine \in StoreLocation
    BY <1>3 DEF Mine, StoreLocation
  <1>6. QED
    BY <1>3, <1>4, <1>5

LEMMA RowsApart == Apart \subseteq StoreLocation
  <1>1. Listed \in StoreLocation /\ Mine \in StoreLocation /\ Unlisted \in StoreLocation
    BY RowsOfScenes
  <1>2. /\ [Listed EXCEPT !.chain = "far"] \in StoreLocation
        /\ [Listed EXCEPT !.active = FALSE] \in StoreLocation
    BY <1>1 DEF StoreLocation
  <1>3. [Mine EXCEPT !.status = "HIDDEN"] \in StoreLocation
    BY <1>1 DEF StoreLocation
  <1>4. {Listed, [Listed EXCEPT !.chain = "far"], [Listed EXCEPT !.active = FALSE],
         Mine, [Mine EXCEPT !.status = "HIDDEN"], Unlisted} \in SUBSET StoreLocation
    BY <1>1, <1>2, <1>3, Zenon
  <1>5. <<0, 1>> \in Int \X Int /\ <<1, -1>> \in Int \X Int /\ <<2, 0>> \in Int \X Int
    OBVIOUS
  <1>6. {<<0, 1>>, <<1, -1>>, <<2, 0>>} \in SUBSET (Int \X Int)
    BY <1>5, Zenon
  <1>7. \A R \in SUBSET StoreLocation, S \in SUBSET (Int \X Int) :
          UNION {{[r EXCEPT !.spot = spot] : spot \in S} : r \in R} \subseteq StoreLocation
    <2>1. \A r \in StoreLocation, spot \in Int \X Int : [r EXCEPT !.spot = spot] \in StoreLocation
      BY DEF StoreLocation
    <2>2. QED
      BY <2>1
  <1>8. QED
    BY <1>4, <1>6, <1>7, Zenon DEF Apart

LEMMA ScenesAreTyped == NearbyScenes => NearbyHolds
  <1>1. SUFFICES ASSUME NearbyScenes PROVE NearbyTyped
    BY DEF NearbyScenes, NoPage, NearbyHolds, NearbyIsTrue
  <1>2. NoFalls = [f \in {} |-> f] /\ DOMAIN NoFalls = {} /\ IsFiniteSet({})
    BY FS_EmptySet DEF NoFalls
  <1>3. Listed \in StoreLocation /\ Mine \in StoreLocation
    BY RowsOfScenes
  <1>4. CASE Geography
    <2>1. visit \in NearbyStoresQueryDto
      BY <1>4 DEF Geography, Radii, NearbyStoresQueryDto
    <2>2. place \in [Places -> StoreLocation]
      BY <1>4, RowsApart DEF Geography
    <2>3. QED
      BY <1>2, <1>4, <2>1, <2>2 DEF Geography, NearbyTyped
  <1>5. CASE Hours
    <2>1. PICK h \in OpeningHours, i \in OpeningHours : place = OpenAt(h, i)
      BY <1>5 DEF Hours
    <2>2. /\ visit \in [asks : {"stores"}, radius : {11200}, limit : {3}, chain : {"any"}, now : Week]
          /\ fall = NoFalls
      BY <1>5 DEF Hours
    <2>3. place \in [Places -> StoreLocation]
      <3>1. PICK zone \in Int : zone = -4
        BY -4 \in Int
      <3>2. [Listed EXCEPT !.hours = {h, i}, !.zone = zone] \in StoreLocation
        BY <1>3 DEF StoreLocation
      <3>3. QED
        BY <1>3, <2>1, <3>1, <3>2 DEF OpenAt
    <2>4. visit \in NearbyStoresQueryDto
      <3>1. DaysPerWeek * MinutesPerDay \in Nat
        BY NearbyAssumption DEF NearbyAssumption
      <3>2. Week \subseteq Int
        BY <3>1 DEF Week
      <3>3. PICK now \in Week : visit = [asks |-> "stores", radius |-> 11200, limit |-> 3, chain |-> "any", now |-> now]
        BY <2>2
      <3>4. now \in Int
        BY <3>2
      <3>5. QED
        BY <3>3, <3>4 DEF NearbyStoresQueryDto
    <2>5. QED
      BY <1>2, <2>2, <2>3, <2>4 DEF NearbyTyped
  <1>6. CASE Bargains
    <2>1. place \in [Places -> StoreLocation]
      <3>1. [Listed EXCEPT !.spot = <<1, 1>>] \in StoreLocation
        BY <1>3, <<1, 1>> \in Int \X Int DEF StoreLocation
      <3>2. QED
        BY <1>3, <1>6, <3>1 DEF Bargains
    <2>2. IsFiniteSet(DOMAIN fall) /\ \A f \in DOMAIN fall : fall[f] \in PriceDrop
      <3>1. PICK there \in (SUBSET {<<g1, s1>>, <<g1, s2>>, <<g2, s1>>}) \cup {{<<g2, s3>>}} :
              fall \in [there -> [percent : {2, 5, 7}, at : 0 .. 2]]
        BY <1>6 DEF Bargains
      <3>2. PICK all : all = {<<g1, s1>>} \cup {<<g1, s2>>} \cup {<<g2, s1>>} \cup {<<g2, s3>>}
        OBVIOUS
      <3>3. there \subseteq all
        BY <3>1, <3>2
      <3>4. IsFiniteSet(there)
        <4>1. PICK A, B, C, D : A = <<g1, s1>> /\ B = <<g1, s2>> /\ C = <<g2, s1>> /\ D = <<g2, s3>>
          OBVIOUS
        <4>2. IsFiniteSet({A}) /\ all = {A} \cup {B} \cup {C} \cup {D}
          BY <3>2, <4>1, FS_Singleton
        <4>3. IsFiniteSet({A} \cup {B})
          BY <4>2, FS_AddElement
        <4>4. IsFiniteSet({A} \cup {B} \cup {C})
          BY <4>3, FS_AddElement
        <4>5. IsFiniteSet({A} \cup {B} \cup {C} \cup {D})
          BY <4>4, FS_AddElement
        <4>6. QED
          BY <3>3, <4>2, <4>5, FS_Subset
      <3>5. QED
        BY <3>1, <3>4 DEF PriceDrop
    <2>3. visit \in NearbyPriceDropsQueryDto
      BY <1>6 DEF Bargains, NearbyPriceDropsQueryDto
    <2>4. QED
      BY <2>1, <2>2, <2>3 DEF NearbyTyped
  <1>7. QED
    BY <1>1, <1>4, <1>5, <1>6 DEF NearbyScenes

\* So are the rows of which histories are told, and those of several days are finite.
LEMMA RowsAreDays ==
  /\ RowsOf(s1) \subseteq DailyPricePoint /\ RowsOf(s2) \subseteq DailyPricePoint
  /\ (CHOOSE r \in RowsOf(s2) : ~r.anomalous) \in DailyPricePoint
  <1>1. \A o : RowsOf(o) \subseteq DailyPricePoint
    <2>1. SUFFICES ASSUME NEW o, NEW r \in RowsOf(o) PROVE r \in DailyPricePoint
      OBVIOUS
    <2>2. r.min \in Nat /\ r.max \in Nat /\ r.average \in Nat /\ r.count \in Nat \ {0}
      BY DEF RowsOf
    <2>3. r.min <= r.average /\ r.average <= r.max
      BY <2>2 DEF RowsOf
    <2>4. QED
      BY <2>2, <2>3 DEF RowsOf, DailyPricePoint
  <1>2. \E r \in RowsOf(s2) : ~r.anomalous
    <2>1. PICK m \in Monies : TRUE
      BY HistoryAssumption DEF HistoryAssumption
    <2>2. PICK k : k = IF s2 = s1 THEN 3 ELSE 1
      OBVIOUS
    <2>3. PICK r : r = [currency |-> m, average |-> 25, min |-> 24, max |-> 26, anomalous |-> FALSE, count |-> k]
      OBVIOUS
    <2>4. r \in RowsOf(s2) /\ ~r.anomalous
      BY <2>2, <2>3 DEF RowsOf
    <2>5. QED
      BY <2>4
  <1>3. QED
    BY <1>1, <1>2

LEMMA HistoriesAreTyped == Histories => HistoryHolds
  <1> SUFFICES ASSUME Histories PROVE HistoryHolds
    OBVIOUS
  <1>1. PICK near \in SUBSET {1, 2}, far \in SUBSET {1, 2}, long \in SUBSET {0} :
          \E f \in [near -> RowsOf(s1)], g \in [far -> RowsOf(s2)] :
            recorded = [c \in (near \X {s1}) \cup (far \X {s2}) \cup (long \X {s1}) |->
                           IF c \in near \X {s1} THEN f[c[1]]
                           ELSE IF c \in far \X {s2} THEN g[c[1]]
                           ELSE CHOOSE r \in RowsOf(s2) : ~r.anomalous]
    BY DEF Histories
  <1> DEFINE A == near \X {s1}
             B == far \X {s2}
             C == long \X {s1}
             z == CHOOSE r \in RowsOf(s2) : ~r.anomalous
  <1>2. DOMAIN recorded = A \cup B \cup C /\ \A c \in DOMAIN recorded : recorded[c] \in DailyPricePoint
    <2>1. PICK f \in [near -> RowsOf(s1)], g \in [far -> RowsOf(s2)] :
            recorded = [c \in A \cup B \cup C |->
                           IF c \in A THEN f[c[1]] ELSE IF c \in B THEN g[c[1]] ELSE z]
      BY <1>1, Zenon
    <2>2. (\A c \in A : f[c[1]] \in DailyPricePoint) /\ (\A c \in B : g[c[1]] \in DailyPricePoint)
      <3>1. (\A c \in A : c[1] \in near) /\ (\A c \in B : c[1] \in far)
        OBVIOUS
      <3>2. QED
        BY <3>1, RowsAreDays
    <2>3. z \in DailyPricePoint
      BY RowsAreDays
    <2> HIDE DEF A, B, C, z
    <2>4. QED
      BY <2>1, <2>2, <2>3
  <1>3. IsFiniteSet(A \cup B \cup C)
    <2>1. IsFiniteSet({0}) /\ IsFiniteSet({1, 2}) /\ IsFiniteSet({s1}) /\ IsFiniteSet({s2})
      <3>1. IsFiniteSet({0}) /\ IsFiniteSet({1}) /\ IsFiniteSet({s1}) /\ IsFiniteSet({s2})
        BY FS_Singleton
      <3>2. IsFiniteSet({1} \cup {2})
        BY <3>1, FS_AddElement
      <3>3. {1} \cup {2} = {1, 2}
        OBVIOUS
      <3>4. QED
        BY <3>1, <3>2, <3>3
    <2>2. IsFiniteSet(near) /\ IsFiniteSet(far) /\ IsFiniteSet(long)
      BY <2>1, FS_Subset
    <2>3. IsFiniteSet(A) /\ IsFiniteSet(B) /\ IsFiniteSet(C)
      BY <2>1, <2>2, FS_Product
    <2>4. QED
      BY <2>3, FS_Union
  <1>4. RowsTyped(DOMAIN recorded)
    BY <1>2, <1>3 DEF RowsTyped
  <1>5. ~shown.ready
    BY DEF Histories, NotShown
  <1>6. QED
    BY <1>4, <1>5 DEF HistoryHolds

LEMMA ShelfStarts == Init => ShelfHolds /\ BesideHolds
  <1> SUFFICES ASSUME Init PROVE ShelfHolds /\ BesideHolds
    OBVIOUS
  <1>1. ShelfHolds
    BY CommunityStartsTyped, CatalogStarts, ShopsStart, ListStarts DEF Init, ShelfHolds
  <1>2. AccountsHold /\ SettingsHold /\ FactsHold
    BY AccountsStart, SettingsStart, FactsStart DEF Init
  <1>3. (focus = "tree" => TreeInit) /\ (focus = "feed" => FeedInit)
    BY DEF Init, Trees, Feeds
  <1>4. focus = "nearby" => NearbyHolds
    BY ScenesAreTyped DEF Init
  <1>5. (focus = "history" => HistoryHolds) /\ (focus = "totals" => TotalsHold)
    BY HistoriesAreTyped, TotalsStart DEF Init, Lists
  <1>6. QED
    BY <1>1, <1>2, <1>3, <1>4, <1>5, TreeStarts, FeedStarts DEF BesideHolds

LEMMA OneMoves ==
  ASSUME [Next]_<<parts, focus>>
  PROVE  /\ [CommunityNext]_communityVars /\ [CatalogNext]_catalogVars
         /\ [ShopsNext]_shopVars /\ [ListNext]_listVars /\ [NearbyNext]_nearbyVars
         /\ [GetPriceHistory]_historyVars /\ [TotalsNext]_totalsVars
         /\ [AccountsNext]_accountVars /\ [SettingsNext]_settingsVars /\ [FactsNext]_factsVars
         /\ [TreeNext]_treeVars /\ [FeedNext]_feedVars /\ focus' = focus
  <1>1. CASE CatalogMoves /\ UNCHANGED <<otherParts, focus>>
    BY <1>1 DEF CatalogMoves, otherParts
  <1>2. CASE OthersMove /\ UNCHANGED <<catalogParts, focus>>
    BY <1>2 DEF OthersMove, catalogParts
  <1>3. CASE UNCHANGED <<parts, focus>>
    BY <1>3 DEF parts, catalogParts, otherParts
  <1>4. QED
    BY <1>1, <1>2, <1>3 DEF Next

LEMMA ShelfKeeps ==
  ASSUME ShelfHolds, [Next]_<<parts, focus>>
  PROVE  ShelfHolds'
  <1>1. CommunityTyped'
    BY OneMoves, CommunityKeepsTypes DEF ShelfHolds
  <1>2. CatalogHolds'
    BY OneMoves, CatalogKeeps DEF ShelfHolds
  <1>3. ShopsHold'
    BY OneMoves, ShopsKeep DEF ShelfHolds
  <1>4. TripsTyped' /\ StartsApart'
    BY OneMoves, ListKeepsTrips DEF ShelfHolds
  <1>5. QED
    BY <1>1, <1>2, <1>3, <1>4 DEF ShelfHolds

LEMMA BesideKeeps ==
  ASSUME BesideHolds, [Next]_<<parts, focus>>
  PROVE  BesideHolds'
  <1>1. AccountsHold' /\ SettingsHold' /\ FactsHold'
    BY OneMoves, AccountsKeep, SettingsKeep, FactsKeep DEF BesideHolds
  <1>2. focus = "tree" => TreeHolds'
    BY OneMoves, TreeKeeps DEF BesideHolds
  <1>3. focus = "feed" => FeedHolds'
    BY OneMoves, FeedKeeps DEF BesideHolds
  <1>4. focus = "nearby" => NearbyHolds'
    BY OneMoves, NearbyStep, NearbyRests, NearbyAssumption DEF BesideHolds, NearbyAssumption
  <1>5. focus = "history" => HistoryHolds'
    BY OneMoves, HistoryStep, HistoryRests DEF BesideHolds
  <1>6. focus = "totals" => TotalsHold'
    BY OneMoves, TotalsStep, TotalsRest DEF BesideHolds
  <1>7. QED
    BY <1>1, <1>2, <1>3, <1>4, <1>5, <1>6, OneMoves DEF BesideHolds

\* Whatever moves keeps its types, and nothing else is touched.
THEOREM ShelfIsTyped == Spec => []TypeOK
  <1>1. ShelfHolds /\ BesideHolds => TypeOK
    <2> SUFFICES ASSUME ShelfHolds, BesideHolds PROVE TypeOK
      OBVIOUS
    <2>1. CommunityTypeOK /\ CatalogTypeOK /\ ShopsTypeOK /\ ListTypeOK
      BY CommunityTypes, CatalogTypes, ShopsTypes, ListTypes DEF ShelfHolds
    <2>2. AccountsTypeOK /\ SettingsTypeOK /\ FactsTypeOK
      BY AccountsAreRight, SettingsAreRight, FactsAreRight DEF BesideHolds
    <2>3. (focus = "tree" => TreeTypeOK) /\ (focus = "feed" => FeedTypeOK)
      BY TreeIsRight, FeedIsRight DEF BesideHolds
    <2>4. QED
      BY <2>1, <2>2, <2>3 DEF TypeOK
  <1>2. QED
    BY ShelfStarts, ShelfKeeps, BesideKeeps, <1>1, PTL DEF Spec

\* Products and shops that look alike, more additions in a day than are allowed,
\* a token exchanged twice, a code used twice, half a place and stamps that do
\* not tell come of requests that overlap, and of nothing else.  The rate of a
\* source is kept in any case, and an older answer only after such an overlap or
\* a failure of Redis.
THEOREM OnlyRaces == Spec => []OnlyRacesGetPast
  <1>1. ShelfHolds /\ BesideHolds => OnlyRacesGetPast
    <2> SUFFICES ASSUME ShelfHolds, BesideHolds PROVE OnlyRacesGetPast
      OBVIOUS
    <2>1. ProductTwinsWereRaced /\ ProductLimitWasRaced /\ ShopTwinsWereRaced /\ ShopLimitWasRaced
      BY DEF ShelfHolds, CatalogHolds, RoomIsLeft, ProductLimitWasRaced, ShopsHold, StreetHasRoom,
             ShopLimitWasRaced
    <2>2. SessionsRestOnThePassword /\ TokensAreExchangedOnce /\ CodesAreLimited
      BY AccountsAreRight DEF BesideHolds
    <2>3. PlaceIsWhole /\ StampsTellConsent /\ RateIsKept /\ LastAnswerIsKept
      BY SettingsAreRight, FactsAreRight DEF BesideHolds
    <2>4. QED
      BY <2>1, <2>2, <2>3 DEF OnlyRacesGetPast
  <1>2. QED
    BY ShelfStarts, ShelfKeeps, BesideKeeps, <1>1, PTL DEF Spec

\* What they do together is what each does alone: a step of one leaves the
\* state of the others.
THEOREM ShelfIsItsParts ==
    Spec => /\ CommunitySpec /\ CatalogSpec /\ ShopsSpec /\ ListSpec
            /\ AccountsSpec /\ SettingsSpec /\ FactsSpec
  <1>1. Init => /\ CommunityInit /\ CatalogInit /\ ShopsInit /\ ListInit
                /\ AccountsInit /\ SettingsInit /\ FactsInit
    BY DEF Init
  <1>2. [Next]_<<parts, focus>> => /\ [CommunityNext]_communityVars /\ [CatalogNext]_catalogVars
                                   /\ [ShopsNext]_shopVars /\ [ListNext]_listVars
                                   /\ [AccountsNext]_accountVars /\ [SettingsNext]_settingsVars
                                   /\ [FactsNext]_factsVars
    BY OneMoves
  <1>3. QED
    BY <1>1, <1>2, PTL DEF Spec, CommunitySpec, CatalogSpec, ShopsSpec, ListSpec, AccountsSpec, SettingsSpec, FactsSpec

\* Whichever of them moves: a standing is what was said, the tenth price
\* publishes, only races get past the guards, and one trip is open at a time.
THEOREM ShelfIsSafe ==
    Spec => [](/\ StandingIsTrue /\ TenthPricePublishes /\ OnlyRacesGetPast /\ OneOpenTrip)
  BY ShelfIsItsParts, StandingsTold, TenthPriceCounts, OnlyRaces, OneTripAtATime, PTL

\* Whatever scenes they start in: what is answered of shops around is so; the
\* history of a price is told in one currency, within what was paid; the totals
\* of a trip are off by no more than rounding; the tree has no cycles, what is
\* applied of the file stands, and a search finds what is filed below; and what
\* is passed on of a feed is what its pages held.
THEOREM AnswersHold == Spec => []AnswersAreTrue
  <1>1. BesideHolds => AnswersAreTrue
    <2> SUFFICES ASSUME BesideHolds PROVE AnswersAreTrue
      OBVIOUS
    <2>1. focus = "nearby" => NearbyIsTrue
      BY DEF BesideHolds, NearbyHolds
    <2>2. (focus = "history" => HistoryIsTrue) /\ (focus = "totals" => FiguresAddUp)
      BY ShownIsTrue, TripAddsUp DEF BesideHolds
    <2>3. /\ focus = "tree" => TreeHasNoCycles /\ FileIsApplied /\ SubtreeIsWhole
          /\ focus = "feed" => FeedIsRead
      BY TreeIsRight, FeedIsRight DEF BesideHolds
    <2>4. QED
      BY <2>1, <2>2, <2>3 DEF AnswersAreTrue
  <1>2. QED
    BY ShelfStarts, BesideKeeps, <1>1, PTL DEF Spec
=============================================================================
