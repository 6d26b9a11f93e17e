------------------------------- MODULE SourceFeed -------------------------------
(***************************************************************************)
(* How a supermarket's feed is read: JSON over HTTP, page after page, or a *)
(* file of the sandbox; and what becomes of its items.  The source may     *)
(* publish something else meanwhile.                                       *)
(***************************************************************************)
EXTENDS Integers

CONSTANTS
    Pages,          \* page numbers
    FirstPage,
    NoNext,
    MaxPages,       \* maxPages, the most an import reads
    FeedItems,      \* items a feed may have
    Absent,         \* a field that is not there, or is blank
    DefaultCurrency,
    InMajorUnits,   \* priceInMajorUnits: the source quotes 1.25 rather than 125
    MaxPublished    \* bound on what the source publishes meanwhile

PriceKinds == {"NUMBER", "BLANK", "WORDS", "ABSENT"}

ASSUME FeedAssumption ==
    /\ FirstPage \in Pages /\ NoNext \notin Pages
    /\ MaxPages \in Nat \ {0} /\ InMajorUnits \in BOOLEAN /\ MaxPublished \in Nat
    /\ \A i \in FeedItems : i.price.kind \in PriceKinds /\ i.price.thousandths \in Int

VARIABLES
    feed,           \* for each page, what the source answers
    reading,        \* fetchAllPages, or a file as it is read
    published       \* what the source may still publish

feedVars == <<feed, reading, published>>

\* A page that is no list of items counts as an empty one.
Page == [items : SUBSET FeedItems, next : Pages \cup {NoNext}]

FeedTypeOK ==
    /\ feed \in [Pages -> Page]
    /\ reading.pc \in {"new", "page", "done", "failed"} /\ reading.of \in {"products", "prices"}
    /\ reading.page \in Pages \cup {NoNext}
    /\ reading.fetched \in 0 .. MaxPages
    /\ reading.asked \subseteq Pages /\ reading.collected \subseteq FeedItems
    /\ reading.changed \in BOOLEAN
    /\ published \in 0 .. MaxPublished

FeedInit ==
    /\ feed \in [Pages -> Page]
    /\ \E of \in {"products", "prices"} :
         reading = [pc |-> "new", of |-> of, page |-> FirstPage, fetched |-> 0, asked |-> {},
                    collected |-> {}, result |-> {}, changed |-> FALSE]
    /\ published = MaxPublished

-----------------------------------------------------------------------------
(***************************************************************************)
(* Items.                                                                  *)
(***************************************************************************)
\* "A product without an identity or a name cannot be matched or shown."
ExternalProducts(items) ==
    {[externalId |-> j.id, name |-> j.name] :
        j \in {i \in items : i.id # Absent /\ i.name # Absent}}

\* A number, in thousandths, as such or as text; text that is blank reads as 0.
ReadNumber(price) == IF price.kind = "BLANK" THEN 0 ELSE price.thousandths
IsNumber(price) == price.kind \in {"NUMBER", "BLANK"}

\* Math.round: halves go up.
RoundThousandths(n) == (n + 500) \div 1000
Quoted(price) == ReadNumber(price) * (IF InMajorUnits THEN 100 ELSE 1)
PriceCents(price) == RoundThousandths(Quoted(price))

ExternalPrices(items) ==
    {[externalProductId |-> j.id, externalStoreId |-> j.store, priceCents |-> PriceCents(j.price),
      currency |-> IF j.currency = Absent THEN DefaultCurrency ELSE j.currency] :
        j \in {i \in items : i.id # Absent /\ i.store # Absent /\ IsNumber(i.price)}}

-----------------------------------------------------------------------------
(***************************************************************************)
(* JsonHttpAdapter.fetchAllPages.                                          *)
(***************************************************************************)
StartReading ==
    /\ reading.pc = "new"
    /\ reading' = [reading EXCEPT !.pc = "page"]
    /\ UNCHANGED <<feed, published>>

\* "A source that returns an empty page, or stops advancing, is done."
GoesOn(p) == feed[p].items # {} /\ feed[p].next \notin {NoNext, p}

Usable(of, items) == IF of = "products" THEN ExternalProducts(items) ELSE ExternalPrices(items)
ReadOut(r) == [r EXCEPT !.pc = "done", !.result = Usable(r.of, r.collected)]

FetchPage ==
    /\ reading.pc = "page"
    /\ LET p == reading.page
           r == [reading EXCEPT !.fetched = @ + 1, !.asked = @ \cup {p},
                                !.collected = @ \cup feed[p].items, !.page = feed[p].next] IN
       reading' = IF GoesOn(p) /\ r.fetched < MaxPages THEN r ELSE ReadOut(r)
    /\ UNCHANGED <<feed, published>>

\* A request that is late, is refused or is not JSON fails the import.
FetchFails ==
    /\ reading.pc = "page"
    /\ reading' = [reading EXCEPT !.pc = "failed"]
    /\ UNCHANGED <<feed, published>>

\* SandboxFileAdapter.read: one item that is not of the expected shape fails
\* the whole file.  Its prices are in cents, and no setting says otherwise.
WellShaped(of, i) ==
    /\ i.id # Absent
    /\ of = "products" => i.name # Absent
    /\ of = "prices" => /\ i.store # Absent /\ i.currency # Absent
                        /\ i.price.kind = "NUMBER" /\ i.price.thousandths % 1000 = 0
AsTheyAre(of, items) ==
    IF of = "products" THEN ExternalProducts(items)
    ELSE {[externalProductId |-> i.id, externalStoreId |-> i.store,
           priceCents |-> i.price.thousandths \div 1000, currency |-> i.currency] : i \in items}

ReadFile ==
    /\ reading.pc = "new" /\ ~InMajorUnits
    /\ LET items == feed[FirstPage].items IN
       reading' = IF \A i \in items : WellShaped(reading.of, i)
                  THEN [reading EXCEPT !.pc = "done", !.asked = {FirstPage},
                                       !.collected = items, !.result = AsTheyAre(reading.of, items)]
                  ELSE [reading EXCEPT !.pc = "failed"]
    /\ UNCHANGED <<feed, published>>

Publish(p, answer) ==
    /\ published > 0 /\ published' = published - 1
    /\ feed' = [feed EXCEPT ![p] = answer]
    /\ reading' = [reading EXCEPT !.changed = @ \/ reading.pc # "new"]

FeedNext ==
    \/ StartReading \/ FetchPage \/ FetchFails \/ ReadFile
    \/ \E p \in Pages, answer \in Page : Publish(p, answer)

FeedSpec == FeedInit /\ [][FeedNext]_feedVars

-----------------------------------------------------------------------------
(***************************************************************************)
(* Properties.                                                             *)
(***************************************************************************)
\* Page numbers the source leads to from the first are in each of these.
Led == {s \in SUBSET Pages : FirstPage \in s /\ \A p \in s : GoesOn(p) => feed[p].next \in s}

\* The price of an item in cents, to the nearest one.
IsNearest(r, i) ==
    /\ r.externalProductId = i.id /\ r.externalStoreId = i.store
    /\ 1000 * r.priceCents - Quoted(i.price) \in -500 .. 500

\* What is read is what the source publishes, page by page from the first: no
\* page it does not lead to and, short of the most an import reads, each page
\* it does; each item that is whole is passed on, and each price is that of an
\* item, to the nearest cent.
FeedIsRead ==
    reading.pc = "done" /\ ~reading.changed =>
        /\ \A s \in Led : reading.asked \subseteq s
        /\ reading.fetched \in 1 .. (MaxPages - 1) => reading.asked \in Led
        /\ reading.collected = UNION {feed[p].items : p \in reading.asked}
        /\ \A i \in reading.collected : WellShaped(reading.of, i) => Usable(reading.of, {i}) \subseteq reading.result
        /\ reading.of = "prices" => \A r \in reading.result : \E i \in reading.collected : IsNearest(r, i)
=============================================================================
