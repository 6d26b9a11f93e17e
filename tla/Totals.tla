-------------------------------- MODULE Totals --------------------------------
(***************************************************************************)
(* What a list and the trip started from it come to: the lines of a trip   *)
(* as they are bought, corrected and put back, and the totals the server   *)
(* sums from them.  Money is in cents, quantities in thousandths.          *)
(***************************************************************************)
EXTENDS Integers, FiniteSets, FiniteSetsExt, Sums

CONSTANTS
    Lines,          \* items of the list, and the lines of the trip
    Quantities,     \* valid quantities
    Paid,           \* valid prices
    Unpriced,       \* no price known
    Left            \* what is left out of a request stays as it is

QuantityScale == 1000

ASSUME TotalsAssumption ==
    /\ IsFiniteSet(Lines)
    /\ Quantities \subseteq Nat \ {0} /\ Paid \subseteq Nat /\ {Unpriced, Left} \cap Paid = {}

VARIABLES
    planned,        \* shopping_list_items
    charged,        \* what the store shopped, or the plan followed, asks for each line
    bought,         \* shopping_session_items, none before the trip starts
    told            \* the totals the shopper saw last

totalsVars == <<planned, charged, bought, told>>

ShoppingListItem == [quantity : Quantities, expected : Paid \cup {Unpriced}]
ShoppingSessionItem == [quantity : Quantities, expected : Paid \cup {Unpriced},
                        actual : Paid \cup {Unpriced}, purchased : BOOLEAN]

UpdateSessionItemRequest == [quantity : Quantities \cup {Left},
                             actual : Paid \cup {Unpriced, Left},
                             purchased : BOOLEAN \cup {Left}]

-----------------------------------------------------------------------------
\* Rounded half up, once for each line.
LineTotal(quantity, price) == (quantity * price + QuantityScale \div 2) \div QuantityScale

Expected(item) == LineTotal(item.quantity, item.expected)

CalculateListTotals(items) ==
    LET priced == {i \in Lines : items[i].expected # Unpriced} IN
    [expected |-> Sum([i \in priced |-> Expected(items[i])]),
     items |-> Cardinality(Lines), unpriced |-> Cardinality(Lines \ priced)]

PaidUnitPrice(line) == IF line.actual # Unpriced THEN line.actual ELSE line.expected

CalculateSessionTotals(lines) ==
    LET paid == {i \in Lines : lines[i].purchased}
        known == {i \in Lines : lines[i].expected # Unpriced}
        priced == {i \in paid : PaidUnitPrice(lines[i]) # Unpriced}
        actual == Sum([i \in priced |-> LineTotal(lines[i].quantity, PaidUnitPrice(lines[i]))])
        remaining == Sum([i \in known \ paid |-> Expected(lines[i])]) IN
    [expected |-> Sum([i \in known |-> Expected(lines[i])]),
     actual |-> actual, remaining |-> remaining, projected |-> actual + remaining,
     purchased |-> Cardinality(paid), items |-> Cardinality(Lines),
     unpriced |-> Cardinality(paid \ priced)
                  + Cardinality(Lines \ (known \cup paid))]

-----------------------------------------------------------------------------
NoTrip == [i \in {} |-> i]
NoQuotes == [i \in Lines |-> Unpriced]

TotalsInit ==
    /\ planned \in [Lines -> ShoppingListItem]
    /\ charged = NoQuotes
    /\ bought = NoTrip
    /\ told = CalculateListTotals(planned)

\* The trip copies the items.  From a plan or at one store, it expects what they
\* ask, and what the list expected where they have no price.
CopyItems ==
    /\ bought = NoTrip
    /\ \E quotes \in [Lines -> Paid \cup {Unpriced}] :
         /\ charged' = quotes
         /\ bought' = [i \in Lines |->
              [quantity |-> planned[i].quantity, purchased |-> FALSE, actual |-> Unpriced,
               expected |-> IF quotes[i] # Unpriced THEN quotes[i] ELSE planned[i].expected]]
    /\ told' = CalculateSessionTotals(bought')
    /\ UNCHANGED planned

RecordItemProgress(i, body) ==
    /\ bought # NoTrip
    /\ bought' = [bought EXCEPT
         ![i].quantity = IF body.quantity = Left THEN @ ELSE body.quantity,
         ![i].actual = IF body.actual = Left THEN @ ELSE body.actual,
         ![i].purchased = IF body.purchased = Left THEN @ ELSE body.purchased]
    /\ told' = CalculateSessionTotals(bought')
    /\ UNCHANGED <<planned, charged>>

TotalsNext == CopyItems \/ \E i \in Lines, body \in UpdateSessionItemRequest : RecordItemProgress(i, body)

TotalsSpec == TotalsInit /\ [][TotalsNext]_totalsVars

-----------------------------------------------------------------------------
(***************************************************************************)
(* Properties.                                                             *)
(***************************************************************************)
\* A trip is started at what its list would come to at the prices of the plan or
\* the store, where they have one, and at the list's own otherwise, with no more
\* lines unpriced than the list had.  However its lines are bought, corrected and
\* put back since, in whatever order: what it is projected to come to is off what
\* was meant by what each bought line cost more or less than expected and a cent
\* for each such line at most, half where it is expected and half where it is
\* paid; at the end nothing is left to spend and the projection is what was paid.
FiguresAddUp ==
    bought # NoTrip =>
        LET paid == {i \in Lines : bought[i].purchased}
            exact(i, price) == IF price = Unpriced THEN 0 ELSE bought[i].quantity * price
            drift == Sum([i \in paid |-> exact(i, PaidUnitPrice(bought[i])) - exact(i, bought[i].expected)])
            off == QuantityScale * (told.projected - told.expected) - drift
            asPlanned == \A i \in Lines : bought[i].quantity = planned[i].quantity
            atQuotes == CalculateListTotals([i \in Lines |->
                          IF charged[i] = Unpriced THEN planned[i]
                          ELSE [planned[i] EXCEPT !.expected = charged[i]]]) IN
        /\ asPlanned => told.expected = atQuotes.expected
        /\ -QuantityScale * Cardinality(paid) <= off /\ off <= QuantityScale * Cardinality(paid)
        /\ (\A i \in paid : bought[i].actual = Unpriced) => told.projected = told.expected
        /\ paid = Lines => told.remaining = 0 /\ told.projected = told.actual
        /\ paid = {} => /\ told.actual = 0 /\ told.unpriced = atQuotes.unpriced
                        /\ told.unpriced <= CalculateListTotals(planned).unpriced
=============================================================================
