------------------------------ MODULE MCShoppers ------------------------------
(***************************************************************************)
(* What shoppers do and are told: alerts, price reports, the days' prices  *)
(* and the search for a plan.  The modules share no state;                 *)
(* focus says which of them moves.                                         *)
(***************************************************************************)
EXTENDS PriceAlerts, PriceIngestion, DailyPrices, MCPlanSearch

CONSTANTS a, b, x, y    \* two of whatever a module has two of

\* What two contributors may see of the product.
Sightings ==
    {[source |-> "EXTERNAL_API", by |-> "feed", status |-> "ACCEPTED", currency |-> 1, price |-> 10],
     [source |-> "USER_REPORTED", by |-> "ana", status |-> "ACCEPTED", currency |-> 1, price |-> 16]}

VARIABLES
    focus,
    evening     \* quiet hours and a moment at which a message is due

vars == <<alertVars, ingestVars, dailyVars, searchVars, evening, focus>>

Symmetry == Permutations({a, b}) \cup Permutations({x, y})

\* What is reported and what is fed are looked at apart.
OneKind == \/ \A c \in Feeds : call'[c].pc = "new"
           \/ \A c \in Reports : call'[c].pc = "new"

Hours == {Absent} \cup 0 .. DayHours - 1
Evenings == [start : Hours, end : Hours, now : 0 .. Quarters * DayHours - 1]
NoEvening == [start |-> Absent, end |-> Absent, now |-> 0]

\* A module that is not looked at starts in one state only.
Init ==
    /\ focus \in {"alerts", "evening", "ingestion", "history", "search"}
    /\ AlertsInit /\ (focus = "alerts" \/ (shop.public /\ shop.mine
                                           /\ alert.type = "PRICE_DROP" /\ alert.store # Absent))
    /\ evening \in (IF focus = "evening" THEN Evenings ELSE {NoEvening})
    /\ IngestInit /\ (focus = "ingestion" \/ row[1].status = "ACCEPTED")
    /\ DailyInit
    /\ result = NoResult /\ IF focus = "search" THEN question \in Question ELSE question = NoResult

Next ==
    /\ \/ /\ focus = "alerts" /\ AlertsNext
          /\ UNCHANGED <<ingestVars, dailyVars, searchVars>>
       \/ /\ focus = "ingestion" /\ IngestNext /\ OneKind
          /\ UNCHANGED <<alertVars, dailyVars, searchVars>>
       \/ /\ focus = "history" /\ DailyNext
          /\ UNCHANGED <<alertVars, ingestVars, searchVars>>
       \/ /\ focus = "search" /\ Search
          /\ UNCHANGED <<alertVars, ingestVars, dailyVars>>
    /\ UNCHANGED <<evening, focus>>

Spec == Init /\ [][Next]_vars

\* Every module's state has its type.
TypeOK ==
    /\ focus = "alerts" => AlertsTypeOK
    /\ focus = "ingestion" => IngestTypeOK
    /\ focus = "history" => DailyTypeOK
    /\ focus = "search" => SearchTypeOK

\* "Messages raised during quiet hours are held until the period ends, not
\* dropped": whatever the quiet hours, across midnight or not, a message waits
\* for the first moment the person may be spoken to and never longer.
HeldUntilQuietEnds == DueWhenAwake(evening, evening.now)
=============================================================================
