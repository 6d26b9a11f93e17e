--------------------------- MODULE SubmissionPolicy ---------------------------
(***************************************************************************)
(* The rules of the pricing module that take no state: what can be a price *)
(* at all (price-plausibility.ts), how far one lies from recent prices     *)
(* (price-deviation.ts), and how much benefit of the doubt a submission    *)
(* gets (submission-policy.ts).                                            *)
(***************************************************************************)
EXTENDS Integers, Sequences, TLC

CONSTANTS
    MaxPrice,       \* MAX_PRICE_CENTS
    MaxSkew,        \* MAX_CLOCK_SKEW_MS
    ShelfAge,       \* how old a report or a feed's price may be
    PurchaseAge,    \* how old a purchase may be
    NewAccountAge,  \* NEW_ACCOUNT_AGE_MS
    SoftAccount, SoftTarget, SoftProduct, SoftStore,    \* SOFT_LIMITS
    RepeatedDeviations,                                 \* its threshold
    StoreSamples, AnySamples                            \* fewest samples of each tier

ASSUME PolicyAssumption ==
    /\ {MaxPrice, MaxSkew, ShelfAge, PurchaseAge, NewAccountAge} \subseteq Nat
    /\ {SoftAccount, SoftTarget, SoftProduct, SoftStore, RepeatedDeviations} \subseteq Nat
    /\ {StoreSamples, AnySamples} \subseteq Nat \ {0}

Sources == {"USER_REPORTED", "USER_WITH_EVIDENCE", "PURCHASE_CONFIRMED", "EXTERNAL_API"}
IsUserSubmitted(source) == source \in {"USER_REPORTED", "USER_WITH_EVIDENCE"}

MaxAge(source) == IF source = "PURCHASE_CONFIRMED" THEN PurchaseAge ELSE ShelfAge

\* The first problem found; a currency is three capitals, or it is not.
CheckPlausibility(price, source, wellFormed, observed, now) ==
    CASE price <= 0 -> "PRICE_NOT_POSITIVE_INTEGER"
      [] price > MaxPrice -> "PRICE_TOO_HIGH"
      [] price \in 1 .. MaxPrice /\ ~wellFormed -> "CURRENCY_INVALID"
      [] price \in 1 .. MaxPrice /\ wellFormed /\ observed > now + MaxSkew -> "OBSERVED_IN_FUTURE"
      [] price \in 1 .. MaxPrice /\ wellFormed /\ now - observed > MaxAge(source) -> "OBSERVED_TOO_LONG_AGO"
      [] OTHER -> "PLAUSIBLE"

\* Twice the median, which the mean of the two middle values makes a half.
TwiceMedian(samples) ==
    LET sorted == SortSeq(samples, <)
        middle == Len(sorted) \div 2 IN
    IF Len(sorted) % 2 = 0 THEN sorted[middle] + sorted[middle + 1]
    ELSE 2 * sorted[middle + 1]

\* How unusual a price is by the ratio moderate/2 and extreme/1 to the median,
\* in either direction.
AssessDeviation(price, samples, fewest, moderate, extreme) ==
    IF Len(samples) < fewest THEN "unknown"
    ELSE LET median == TwiceMedian(samples)
             Beyond(times, over) == \/ 2 * price * over >= times * median
                                    \/ median * over >= times * 2 * price IN
         IF Beyond(extreme, 1) THEN "extreme"
         ELSE IF Beyond(moderate, 2) THEN "moderate"
         ELSE "consistent"

\* The store's own prices when there are enough of them, every store's if not.
AssessAgainstHistory(price, sameStore, anyStore) ==
    LET here == AssessDeviation(price, sameStore, StoreSamples, 3, 3) IN
    IF here # "unknown" THEN here
    ELSE AssessDeviation(price, anyStore, AnySamples, 4, 4)

RejectReasons(s) ==
    IF s.deviation = "extreme" /\ IsUserSubmitted(s.source)
    THEN {"EXTREME_PRICE_DEVIATION"} ELSE {}

FlagReasons(s) ==
    {reason \in {"EXTREME_PRICE_DEVIATION", "PRICE_DEVIATION", "NEW_ACCOUNT",
                 "REPEATED_SUBMISSION", "HIGH_ACCOUNT_VOLUME", "PRODUCT_VOLUME_SPIKE",
                 "STORE_VOLUME_SPIKE", "REPEATED_DEVIATIONS"} :
        CASE reason = "EXTREME_PRICE_DEVIATION" ->
                s.deviation = "extreme" /\ ~IsUserSubmitted(s.source)
          [] reason = "PRICE_DEVIATION" ->
                s.deviation = "moderate" /\ s.source = "USER_REPORTED"
          [] OTHER ->
                /\ IsUserSubmitted(s.source)
                /\ CASE reason = "NEW_ACCOUNT" -> s.age < NewAccountAge
                     [] reason = "REPEATED_SUBMISSION" -> s.target >= SoftTarget
                     [] reason = "HIGH_ACCOUNT_VOLUME" -> s.account > SoftAccount
                     [] reason = "PRODUCT_VOLUME_SPIKE" -> s.product > SoftProduct
                     [] reason = "STORE_VOLUME_SPIKE" -> s.store > SoftStore
                     [] OTHER -> s.deviations >= RepeatedDeviations}

DecideTrust(s) ==
    [status |-> IF RejectReasons(s) # {} THEN "REJECTED"
                ELSE IF FlagReasons(s) # {} THEN "FLAGGED" ELSE "ACCEPTED",
     reasons |-> RejectReasons(s) \cup FlagReasons(s)]
=============================================================================
