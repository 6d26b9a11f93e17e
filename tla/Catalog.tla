-------------------------------- MODULE Catalog --------------------------------
(***************************************************************************)
(* The products of one name in the shared catalog: additions by shoppers   *)
(* and by the team, each a sequence of reads and writes beside the others, *)
(* their brands and barcodes, and the team's corrections and merges.  A    *)
(* request that is cut off is one that takes no further step; a phone      *)
(* sends it again under the same id.                                       *)
(***************************************************************************)
EXTENDS Integers, FiniteSets

CONSTANTS
    Ids,            \* products; those that are no request's were there before
    Additions,      \* requests, each with the id its phone chose first
    Adders,         \* shoppers who add products
    Team,           \* moderators and admins, as the creator of what they add
    Codes,          \* valid barcodes
    Brands,         \* brands, none of them listed at first
    NoBrand,
    Nowhere,        \* no product
    Sizes,          \* package sizes, 0 for one that was left out
    CarefulLimit,   \* dailyCreationLimit for a product, of who is not trusted
    ProductLimit,   \* and of who is
    MaxCorrections  \* bound on what the team does to products that are there

ASSUME CatalogAssumption ==
    /\ Additions \subseteq Ids /\ IsFiniteSet(Ids)
    /\ Team \notin Adders /\ NoBrand \notin Brands /\ Nowhere \notin Ids
    /\ Sizes \subseteq Nat /\ MaxCorrections \in Nat
    /\ CarefulLimit \in Nat \ {0} /\ ProductLimit \in Nat /\ CarefulLimit <= ProductLimit

VARIABLES
    product,        \* for each id, its row in products
    carrier,        \* for each code, the product of its row in product_barcodes
    listed,         \* brands in products_brands
    addition,       \* requests that add a product or a barcode
    excused,        \* pairs of products that may be alike
    crowded,        \* shoppers who added several products at once
    corrections     \* corrections left

catalogVars == <<product, carrier, listed, addition, excused, crowded, corrections>>

ProductRow == [by : Adders \cup {Team, Nowhere}, brand : Brands \cup {NoBrand},
               size : Sizes \cup {0}, active : BOOLEAN, into : Ids \cup {Nowhere},
               status : {"NONE", "ACTIVE", "HIDDEN", "MERGED"}]
NoProductRow == [by |-> Nowhere, brand |-> NoBrand, size |-> 0,
                 active |-> FALSE, status |-> "NONE", into |-> Nowhere]
Unasked == [pc |-> "new", id |-> Nowhere, by |-> Team, brand |-> NoBrand, size |-> 0,
            codes |-> {}, code |-> Nowhere, novel |-> FALSE, missed |-> {}]
Answered == [Unasked EXCEPT !.pc = "done"]

CatalogTypeOK ==
    /\ product \in [Ids -> ProductRow]
    /\ carrier \in [Codes -> Ids \cup {Nowhere}]
    /\ listed \subseteq Brands
    /\ \A r \in Additions :
         /\ addition[r].pc \in {"new", "limit", "brand", "codes", "twin", "list", "row",
                                "find", "save", "done"}
         /\ addition[r].codes \subseteq Codes /\ addition[r].missed \subseteq Ids
    /\ excused \subseteq Ids \X Ids
    /\ crowded \subseteq Adders
    /\ corrections \in 0 .. MaxCorrections

Row(a) == [by |-> a.by, brand |-> a.brand, size |-> a.size,
           active |-> TRUE, status |-> "ACTIVE", into |-> Nowhere]

CatalogInit ==
    /\ \E made \in [Ids \ Additions ->
                    [by : Adders \cup {Team}, brand : Brands \cup {NoBrand}, size : Sizes]] :
         /\ product = [i \in Ids |-> IF i \in Additions THEN NoProductRow ELSE Row(made[i])]
         /\ listed = {made[i].brand : i \in Ids \ Additions} \ {NoBrand}
         /\ excused = (Ids \ Additions) \X (Ids \ Additions)
    /\ carrier \in [Codes -> {Nowhere} \cup (Ids \ Additions)]
    /\ \A u \in Adders : Cardinality({i \in Ids \ Additions : product[i].by = u}) <= ProductLimit
    /\ addition = [r \in Additions |-> Unasked]
    /\ crowded = {}
    /\ corrections = MaxCorrections

CreateProductRequest == [id : Ids, by : Adders \cup {Team}, brand : Brands \cup {NoBrand},
                         size : Sizes, codes : SUBSET Codes]
AddBarcodeRequest == [id : Ids, code : Codes]

There(i) == product[i].status # "NONE"
Rows == {i \in Ids : There(i)}
AddedBy(u) == {i \in Rows : product[i].by = u}
RemovedOf(u) == {i \in AddedBy(u) : product[i].status = "HIDDEN"}
\* Removed entries cost trust; whether too much of it depends on the account.
DailyLimits(u) == IF RemovedOf(u) = {} THEN {ProductLimit} ELSE {CarefulLimit, ProductLimit}
\* What productsNamed, and so anyone who searches, finds.
Shown(i) == product[i].active /\ product[i].status = "ACTIVE"

\* A size left out matches any: the name is the same for all of them.
LooksLikeSameProduct(a, b) ==
    a.brand = b.brand /\ (a.size = 0 \/ b.size = 0 \/ a.size = b.size)

To(r, pc) == addition' = [addition EXCEPT ![r].pc = pc]
Refuse(r) == addition' = [addition EXCEPT ![r] = Answered]
Reads == UNCHANGED <<product, carrier, listed, excused, corrections>>

-----------------------------------------------------------------------------
(***************************************************************************)
(* CreateProductUseCase.                                                   *)
(***************************************************************************)
\* An id that is taken is answered with its product, or refused as somebody
\* else's: either way nothing more happens.
AskToAdd(r, body) ==
    /\ addition[r].pc = "new"
    /\ body.id \in Additions \ {r} => addition[body.id].pc # "new"
    /\ addition' = [addition EXCEPT ![r] =
         IF There(body.id) THEN Answered
         ELSE [Unasked EXCEPT !.pc = IF body.by = Team THEN "brand" ELSE "limit",
                              !.id = body.id, !.by = body.by, !.brand = body.brand,
                              !.size = body.size, !.codes = body.codes]]
    /\ UNCHANGED crowded /\ Reads

Others(r) == {q \in Additions \ {r} : /\ addition[q].by = addition[r].by
                                      /\ addition[q].pc \in {"brand", "codes", "twin", "list", "row"}}

\* assertMayCreate: what was added today is counted, and the row comes later.
CheckAllowance(r) ==
    /\ addition[r].pc = "limit"
    /\ LET u == addition[r].by IN
         /\ \E limit \in DailyLimits(u) :
              IF Cardinality(AddedBy(u)) >= limit THEN Refuse(r) ELSE To(r, "brand")
         /\ crowded' = IF Others(r) # {} THEN crowded \cup {u} ELSE crowded
    /\ Reads

\* A brand by name: listed, or new with this product.
ReadBrand(r) ==
    /\ addition[r].pc = "brand"
    /\ addition' = [addition EXCEPT ![r].pc = "codes",
                      ![r].novel = addition[r].brand \notin listed \cup {NoBrand}]
    /\ UNCHANGED crowded /\ Reads

CheckCodes(r) ==
    /\ addition[r].pc = "codes"
    /\ IF \E c \in addition[r].codes : carrier[c] # Nowhere THEN Refuse(r) ELSE To(r, "twin")
    /\ UNCHANGED crowded /\ Reads

\* "A brand named but not listed has no products yet, so nothing can be a twin."
CheckTwin(r) ==
    /\ addition[r].pc = "twin"
    /\ LET a == addition[r]
           twins == IF a.novel THEN {}
                    ELSE {i \in Ids : Shown(i) /\ LooksLikeSameProduct(a, product[i])} IN
       IF twins # {} /\ a.by # Team THEN Refuse(r)
       ELSE To(r, IF a.novel THEN "list" ELSE "row")
    /\ UNCHANGED crowded /\ Reads

\* The brand's slug is unique: a brand listed meanwhile refuses the product.
ListBrand(r) ==
    /\ addition[r].pc = "list"
    /\ listed' = listed \cup {addition[r].brand}
    /\ IF addition[r].brand \in listed THEN Refuse(r) ELSE To(r, "row")
    /\ UNCHANGED <<product, carrier, excused, crowded, corrections>>

\* The id is unique.  Whoever is past the look for twins does not see this row.
CreateRow(r) ==
    /\ addition[r].pc = "row"
    /\ LET a == addition[r]
           past == {q \in Additions \ {r} : addition[q].pc \in {"list", "row"}} IN
       IF There(a.id) THEN Refuse(r) /\ UNCHANGED <<product, excused>>
       ELSE /\ product' = [product EXCEPT ![a.id] = Row(a)]
            /\ excused' = excused \cup ({a.id} \X IF a.by = Team THEN Rows ELSE a.missed)
            /\ addition' = [q \in Additions |->
                 IF q \in past THEN [addition[q] EXCEPT !.missed = @ \cup {a.id}]
                 ELSE IF q # r THEN addition[q]
                 ELSE IF a.codes = {} THEN Answered
                 ELSE [Unasked EXCEPT !.pc = "find", !.id = a.id, !.codes = a.codes]]
    /\ UNCHANGED <<carrier, listed, crowded, corrections>>

\* addBarcode looks the code up; one that is another product's is refused.
FindCode(r, c) ==
    /\ addition[r].pc = "find" /\ c \in addition[r].codes
    /\ IF carrier[c] \in Ids \ {addition[r].id} THEN Refuse(r)
       ELSE addition' = [addition EXCEPT ![r].pc = "save", ![r].code = c]
    /\ UNCHANGED crowded /\ Reads

\* A code found free is taken over from whoever added it since.
SaveCodeOver(r) ==
    /\ addition[r].pc = "save"
    /\ LET a == addition[r] IN
         /\ carrier' = [carrier EXCEPT ![a.code] = a.id]
         /\ IF a.codes = {a.code} THEN Refuse(r)
            ELSE addition' = [addition EXCEPT ![r].pc = "find", ![r].code = Nowhere,
                                              ![r].codes = @ \ {a.code}]
    /\ UNCHANGED <<product, listed, excused, crowded, corrections>>

\* The upsert: of a code that is there by now it changes isPrimary only.
SaveCode(r) ==
    /\ addition[r].pc = "save"
    /\ LET a == addition[r] IN
         /\ carrier' = [carrier EXCEPT ![a.code] = IF @ = Nowhere THEN a.id ELSE @]
         /\ IF a.codes = {a.code} THEN Refuse(r)
            ELSE addition' = [addition EXCEPT ![r].pc = "find", ![r].code = Nowhere,
                                              ![r].codes = @ \ {a.code}]
    /\ UNCHANGED <<product, listed, excused, crowded, corrections>>

-----------------------------------------------------------------------------
(***************************************************************************)
(* The team.                                                               *)
(***************************************************************************)
\* AddProductBarcodeUseCase, whatever has become of the product.
AskForCode(r, body) ==
    /\ addition[r].pc = "new" /\ There(body.id)
    /\ addition' = [addition EXCEPT ![r] =
         [Unasked EXCEPT !.pc = "find", !.id = body.id, !.codes = {body.code}]]
    /\ UNCHANGED crowded /\ Reads

\* A product that is changed or put back may come to look like any other.
Correct(i, row) ==
    /\ corrections > 0 /\ corrections' = corrections - 1
    /\ There(i) /\ row # product[i]
    /\ product' = [product EXCEPT ![i] = row]
    /\ excused' = excused \cup ({i} \X Ids)
    /\ UNCHANGED <<carrier, listed, addition, crowded>>

UpdateProductRequest == [brand : Brands \cup {NoBrand}, size : Sizes \cup {0}, active : BOOLEAN]

\* What is left out of the request is sent back as it is; the id stays.
UpdateProduct(i) ==
    \E body \in UpdateProductRequest :
        /\ body.brand \in listed \cup {NoBrand}
        /\ body.active = product[i].active \/ (body.brand = product[i].brand /\ body.size = product[i].size)
        /\ Correct(i, [product[i] EXCEPT !.brand = body.brand, !.size = body.size,
                                        !.active = body.active])

\* setModeration, and the flags that hide.
ModerateProduct(i, status) == Correct(i, [product[i] EXCEPT !.status = status])

\* One transaction: the codes move to the product that stays.
MergeProducts(from, into) ==
    /\ corrections > 0 /\ corrections' = corrections - 1
    /\ from # into /\ There(from) /\ product[from].status # "MERGED" /\ Shown(into)
    /\ product' = [product EXCEPT ![from] = [@ EXCEPT !.status = "MERGED", !.active = FALSE,
                                                      !.into = into]]
    /\ carrier' = [c \in Codes |-> IF carrier[c] = from THEN into ELSE carrier[c]]
    /\ UNCHANGED <<listed, addition, excused, crowded>>

-----------------------------------------------------------------------------
AddStep(r) ==
    \/ CheckAllowance(r) \/ ReadBrand(r) \/ CheckCodes(r) \/ CheckTwin(r)
    \/ ListBrand(r) \/ CreateRow(r) \/ SaveCode(r)
    \/ \E c \in Codes : FindCode(r, c)

CatalogNext ==
    \/ \E r \in Additions :
         \/ AddStep(r)
         \/ \E body \in CreateProductRequest : AskToAdd(r, body)
         \/ \E body \in AddBarcodeRequest : AskForCode(r, body)
    \/ \E i \in Ids : UpdateProduct(i) \/ \E s \in {"ACTIVE", "HIDDEN"} : ModerateProduct(i, s)
    \/ \E from, into \in Ids : MergeProducts(from, into)

CatalogSpec == CatalogInit /\ [][CatalogNext]_catalogVars

-----------------------------------------------------------------------------
(***************************************************************************)
(* Properties.                                                             *)
(***************************************************************************)
\* "A barcode identifies one product": once it is somebody's, no addition,
\* retry or race hands it to another product; only a merge moves it, to the
\* product that stays.
CodesStay ==
    [][\A c \in Codes : carrier[c] # Nowhere /\ carrier'[c] # carrier[c] =>
         product'[carrier[c]].status = "MERGED" /\ carrier'[c] = product'[carrier[c]].into]_catalogVars

\* Two products shown side by side that look the same: one was added while the
\* other was on its way, by the team, or was corrected or put back.
ProductTwinsWereRaced ==
    \A p, q \in Ids :
        p # q /\ Shown(p) /\ Shown(q) /\ LooksLikeSameProduct(product[p], product[q])
        => excused \cap {<<p, q>>, <<q, p>>} # {}

\* Nobody adds more in a day than they may, one product after the other.
ProductLimitWasRaced ==
    \A u \in Adders \ crowded : Cardinality(AddedBy(u)) <= ProductLimit
=============================================================================
