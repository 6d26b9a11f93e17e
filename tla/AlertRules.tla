------------------------------ MODULE AlertRules ------------------------------
(***************************************************************************)
(* domain/alert-rules.ts: when a price change is worth telling someone     *)
(* about, and when the message may go out.  An hour is Quarters moments    *)
(* long and a day has DayHours hours.                                      *)
(***************************************************************************)
EXTENDS Integers

CONSTANTS
    Absent,         \* null or undefined
    DayHours,       \* hours in a day
    Quarters        \* moments in an hour

ASSUME RulesAssumption ==
    /\ Absent \notin Int
    /\ DayHours \in Nat \ {0}
    /\ Quarters \in Nat \ {0}

No(reason) == [triggered |-> FALSE, reason |-> reason]
Yes(alert) == [triggered |-> TRUE, reason |-> alert.type]

\* Told already, at this price or a lower one.
AlreadyKnown(alert, change) ==
    alert.lastNotified # Absent /\ change.price >= alert.lastNotified

BelowThreshold(alert, change) ==
    IF alert.threshold = Absent \/ change.price > alert.threshold THEN No("NOT_ENOUGH")
    ELSE IF AlreadyKnown(alert, change) THEN No("ALREADY_KNOWN")
    ELSE Yes(alert)

PriceDrop(alert, change) ==
    IF \/ alert.dropPercent = Absent \/ change.previous = Absent
       \/ change.previous <= 0
       \/ (change.previous - change.price) * 100 < alert.dropPercent * change.previous
    THEN No("NOT_ENOUGH")
    ELSE IF AlreadyKnown(alert, change) THEN No("ALREADY_KNOWN")
    ELSE Yes(alert)

CheaperNearby(alert, change) ==
    IF \/ alert.radius = Absent \/ change.distance = Absent
       \/ change.distance > alert.radius
    THEN No("NOT_MATCHED")
    ELSE IF change.bestNearby = Absent \/ change.price >= change.bestNearby
    THEN No("NOT_ENOUGH")
    ELSE IF AlreadyKnown(alert, change) THEN No("ALREADY_KNOWN")
    ELSE Yes(alert)

EvaluateAlert(alert, change) ==
    IF \/ ~alert.enabled \/ alert.product # change.product
       \/ alert.store \notin {Absent, change.store}
       \/ /\ Absent \notin {alert.currency, change.currency}
          /\ alert.currency # change.currency
       \/ /\ Absent \notin {alert.radius, change.distance}
          /\ change.distance > alert.radius
    THEN No("NOT_MATCHED")
    ELSE CASE alert.type = "BELOW_THRESHOLD" -> BelowThreshold(alert, change)
           [] alert.type = "PRICE_DROP" -> PriceDrop(alert, change)
           [] alert.type = "CHEAPER_NEARBY" -> CheaperNearby(alert, change)

IsThrottled(lastTriggered, minMinutes, now) ==
    lastTriggered # Absent /\ now - lastTriggered < minMinutes

Hour(at) == (at \div Quarters) % DayHours

\* The quiet hours may wrap midnight.
IsQuietHour(quiet, at) ==
    /\ quiet.start # Absent /\ quiet.end # Absent /\ quiet.start # quiet.end
    /\ IF quiet.start < quiet.end
       THEN quiet.start <= Hour(at) /\ Hour(at) < quiet.end
       ELSE quiet.start <= Hour(at) \/ Hour(at) < quiet.end

Midnight(at) == at - (at % (Quarters * DayHours))

\* The end hour of today, even when it has passed.
DeliveryTimeToday(quiet, now) ==
    IF ~IsQuietHour(quiet, now) THEN now
    ELSE Midnight(now) + quiet.end * Quarters

\* Now, or the end hour of today, or of tomorrow once it has passed.
DeliveryTime(quiet, now) ==
    IF ~IsQuietHour(quiet, now) THEN now
    ELSE LET end == Midnight(now) + quiet.end * Quarters IN
         IF end <= now THEN end + Quarters * DayHours ELSE end

(***************************************************************************)
(* Properties.                                                             *)
(***************************************************************************)
\* What is due now goes out the next moment the person may be spoken to:
\* outside the quiet hours, with nothing but quiet hours before it, and less
\* than a day away.
DueWhenAwake(quiet, now) ==
    LET due == DeliveryTime(quiet, now) IN
    /\ due \in now .. now + Quarters * DayHours - 1
    /\ ~IsQuietHour(quiet, due)
    /\ \A earlier \in now .. due - 1 : IsQuietHour(quiet, earlier)
=============================================================================
