------------------------------ MODULE PriceAlerts ------------------------------
(***************************************************************************)
(* One person's alert on one product, and the evaluations of the product's *)
(* price changes at one store: a job for each price, workers that read the *)
(* alert, decide and raise a message, and the people who edit meanwhile.   *)
(***************************************************************************)
EXTENDS BullJob, AlertRules, FiniteSets

CONSTANTS
    AlertPrices,    \* what the product may cost at the store
    Elsewhere,      \* what it costs at the other store
    Threshold, DropPercent, Radius,     \* the figures of the alert
    MinMinutes,     \* minMinutesBetweenAlerts
    MaxMinute,      \* bound on the clock
    MaxMoves,       \* bound on price changes
    MaxEdits        \* bound on crashes and on what people change

ASSUME AlertsAssumption ==
    /\ AlertPrices \subseteq Nat \ {0} /\ AlertPrices # {}
    /\ {Elsewhere, Threshold, DropPercent, Radius, MinMinutes} \subseteq Nat
    /\ {MaxMinute, MaxMoves, MaxEdits} \subseteq Nat

VARIABLES
    minute,         \* the clock
    shelf,          \* the product's price at the store, Absent before the first
    moves,          \* price changes so far
    shop,           \* the store: whether it is public, and whether the alert's owner added it
    alert,          \* the row in price_alerts
    listening,      \* priceAlertsEnabled
    evaluation,     \* for each price, the job evaluate-alerts-<product>-<store>-<price>
    told,           \* for each price, the data the job was queued with
    evaluator,      \* executions of EvaluatePriceAlertsUseCase
    raised,         \* the messages raised: their prices (the dedupe keys)
    latest,         \* the moment of the evaluation that raised the last one
    slips,          \* messages that repeat old news or come too soon
    disturbed,      \* evaluations overlapped, or one died
    edits           \* crashes and edits left

alertVars == <<minute, shelf, moves, shop, alert, listening, evaluation, told,
               evaluator, raised, latest, slips, disturbed, edits>>

AlertKinds == {"BELOW_THRESHOLD", "PRICE_DROP", "CHEAPER_NEARBY"}
MaybePrice == AlertPrices \cup {Absent}

\* An alert with the figures its type needs (assertComplete), and an optional
\* store, place and currency.
CompleteAlert ==
    {a \in [type : AlertKinds, product : {"milk"}, store : {Absent, "here"},
            threshold : {Absent, Threshold}, dropPercent : {Absent, DropPercent},
            radius : {Absent, Radius}, currency : {Absent},
            enabled : {TRUE}, lastNotified : {Absent}, lastTriggered : {Absent}] :
        /\ (a.threshold # Absent) = (a.type = "BELOW_THRESHOLD")
        /\ (a.dropPercent # Absent) = (a.type = "PRICE_DROP")
        /\ (a.radius # Absent) = (a.type = "CHEAPER_NEARBY")
        /\ (a.store = Absent) = (a.type = "CHEAPER_NEARBY")}

Idle == [pc |-> "idle", price |-> Absent, now |-> 0, seen |-> Absent]

AlertsTypeOK ==
    /\ minute \in 0 .. MaxMinute
    /\ shelf \in MaybePrice
    /\ moves \in 0 .. MaxMoves
    /\ shop \in [public : BOOLEAN, mine : BOOLEAN]
    /\ alert = Absent \/ /\ alert.lastNotified \in MaybePrice
                         /\ alert.lastTriggered \in (0 .. MaxMinute) \cup {Absent}
                         /\ alert.enabled \in BOOLEAN
    /\ listening \in BOOLEAN
    /\ evaluation \in [AlertPrices -> Job]
    /\ told \in [AlertPrices -> MaybePrice]
    /\ \A w \in Workers :
         /\ evaluator[w].pc \in {"idle", "find", "context", "consider", "create", "mark", "enqueue"}
         /\ evaluator[w].price \in MaybePrice
    /\ raised \subseteq AlertPrices
    /\ latest \in (0 .. MaxMinute) \cup {Absent}
    /\ slips \subseteq {"repeat", "soon"}
    /\ disturbed \in BOOLEAN
    /\ edits \in 0 .. MaxEdits

AlertsInit ==
    /\ minute = 0
    /\ shelf = Absent
    /\ moves = 0
    /\ shop \in [public : BOOLEAN, mine : BOOLEAN]
    /\ alert \in CompleteAlert
    /\ listening = TRUE
    /\ evaluation = [p \in AlertPrices |-> NoJob]
    /\ told = [p \in AlertPrices |-> Absent]
    /\ evaluator = [w \in Workers |-> Idle]
    /\ raised = {}
    /\ latest = Absent
    /\ slips = {}
    /\ disturbed = FALSE
    /\ edits = MaxEdits

market == <<minute, shelf, moves>>
settings == <<shop, listening, edits>>
outcome == <<raised, latest, slips>>

-----------------------------------------------------------------------------
NextMinute ==
    /\ minute < MaxMinute
    /\ minute' = minute + 1
    /\ UNCHANGED <<shelf, moves, settings, alert, evaluation, told, evaluator, outcome, disturbed>>

\* PriceUpdatedListener: the job is keyed by the price, so a change that comes
\* back while the first still waits keeps the first one's data.
MovePrice(p) ==
    /\ moves < MaxMoves /\ p # shelf
    /\ moves' = moves + 1
    /\ shelf' = p
    /\ evaluation' = [evaluation EXCEPT ![p] = Added(@)]
    /\ told' = IF evaluation[p].state = "none" THEN [told EXCEPT ![p] = shelf] ELSE told
    /\ UNCHANGED <<minute, settings, alert, evaluator, outcome, disturbed>>

Busy(w) == evaluator[w].pc \notin {"idle", "find"}

TakeEvaluation(w, p) ==
    /\ evaluation[p].state = "waiting" /\ evaluator[w].pc = "idle"
    /\ evaluation' = [evaluation EXCEPT ![p] = Taken(@, w)]
    /\ evaluator' = [evaluator EXCEPT ![w] = [Idle EXCEPT !.pc = "find", !.price = p, !.now = minute]]
    /\ UNCHANGED <<market, settings, alert, told, outcome, disturbed>>

Finish(w) ==
    /\ evaluation' = [evaluation EXCEPT ![evaluator[w].price] = Done(@, w)]
    /\ evaluator' = [evaluator EXCEPT ![w] = Idle]

At(w, pc) == evaluator' = [evaluator EXCEPT ![w].pc = pc] /\ UNCHANGED evaluation

\* findEnabledForProduct: what every later step of the evaluation knows of the
\* alert.
FindAlert(w) ==
    /\ evaluator[w].pc = "find"
    /\ IF alert # Absent /\ alert.enabled
       THEN /\ evaluator' = [evaluator EXCEPT ![w].pc = "context", ![w].seen = alert]
            /\ disturbed' = (disturbed \/ \E v \in Workers : Busy(v))
            /\ UNCHANGED evaluation
       ELSE Finish(w) /\ UNCHANGED disturbed
    /\ UNCHANGED <<market, settings, alert, told, outcome>>

\* A shop that is not public is heard of by its creator's alerts only.
HearsOfShop(w) ==
    /\ evaluator[w].pc = "context"
    /\ IF shop.public \/ shop.mine THEN At(w, "consider") ELSE Finish(w)
    /\ UNCHANGED <<market, settings, alert, told, outcome, disturbed>>

\* The change, with the store's distance and the best price near the alert's
\* point (nearbyContext); both stores lie within the radius.
Change(w) ==
    LET located == evaluator[w].seen.radius # Absent IN
    [product |-> "milk", store |-> "here", price |-> evaluator[w].price,
     previous |-> told[evaluator[w].price], currency |-> Absent,
     distance |-> IF located THEN Radius ELSE Absent,
     bestNearby |-> IF located THEN Elsewhere ELSE Absent]

Speaks(w) ==
    /\ listening
    /\ ~IsThrottled(evaluator[w].seen.lastTriggered, MinMinutes, evaluator[w].now)
    /\ EvaluateAlert(evaluator[w].seen, Change(w)).triggered

\* considerAlert up to the message: preferences, throttle, the alert's rule.
Consider(w) ==
    /\ evaluator[w].pc = "consider"
    /\ IF Speaks(w) THEN At(w, "create") ELSE Finish(w)
    /\ UNCHANGED <<market, settings, alert, told, outcome, disturbed>>

Slips(w) ==
    (IF \E p \in raised : p <= evaluator[w].price THEN {"repeat"} ELSE {})
    \cup (IF latest # Absent /\ evaluator[w].now - latest < MinMinutes THEN {"soon"} ELSE {})

\* notifications.create: the same news is one message.
RaiseMessage(w) ==
    /\ evaluator[w].pc = "create"
    /\ IF evaluator[w].price \in raised
       THEN Finish(w) /\ UNCHANGED outcome
       ELSE /\ raised' = raised \cup {evaluator[w].price}
            /\ latest' = evaluator[w].now
            /\ slips' = slips \cup Slips(w)
            /\ At(w, "mark")
    /\ UNCHANGED <<market, settings, alert, told, disturbed>>

\* What the alert remembers is the moment only.
MarkTriggeredMoment(w) ==
    /\ evaluator[w].pc = "mark"
    /\ IF alert = Absent
       THEN /\ evaluation' = [evaluation EXCEPT ![evaluator[w].price] = Threw(@, w)]
            /\ evaluator' = [evaluator EXCEPT ![w] = Idle]
            /\ UNCHANGED alert
       ELSE /\ alert' = [alert EXCEPT !.lastTriggered = evaluator[w].now]
            /\ At(w, "enqueue")
    /\ UNCHANGED <<market, settings, told, outcome, disturbed>>

\* markTriggered: of an alert deleted meanwhile the update throws, and the job
\* with it.
MarkTriggered(w) ==
    /\ evaluator[w].pc = "mark"
    /\ IF alert = Absent
       THEN /\ evaluation' = [evaluation EXCEPT ![evaluator[w].price] = Threw(@, w)]
            /\ evaluator' = [evaluator EXCEPT ![w] = Idle]
            /\ UNCHANGED alert
       ELSE /\ alert' = [alert EXCEPT !.lastTriggered = evaluator[w].now,
                                      !.lastNotified = evaluator[w].price]
            /\ At(w, "enqueue")
    /\ UNCHANGED <<market, settings, told, outcome, disturbed>>

\* The event and the delivery job, which NotificationDelivery follows.
EnqueueDelivery(w) ==
    /\ evaluator[w].pc = "enqueue"
    /\ Finish(w)
    /\ UNCHANGED <<market, settings, alert, told, outcome, disturbed>>

-----------------------------------------------------------------------------
Edit == edits > 0 /\ edits' = edits - 1

EvaluationDies(w) ==
    /\ Edit /\ evaluator[w].pc # "idle"
    /\ evaluator' = [evaluator EXCEPT ![w] = Idle]
    /\ disturbed' = TRUE
    /\ UNCHANGED <<market, shop, listening, alert, evaluation, told, outcome>>

RecoverEvaluation(p) ==
    /\ evaluation[p].state = "active" /\ evaluator[evaluation[p].holder].price # p
    /\ evaluation' = [evaluation EXCEPT ![p] = Stalled(@)]
    /\ UNCHANGED <<market, settings, alert, told, evaluator, outcome, disturbed>>

\* PATCH and DELETE /price-alerts/:id by its owner.
UpdateAlert ==
    /\ Edit /\ alert # Absent
    /\ alert' = [alert EXCEPT !.enabled = ~@]
    /\ UNCHANGED <<market, shop, listening, evaluation, told, evaluator, outcome, disturbed>>

DeleteAlert ==
    /\ Edit /\ alert # Absent
    /\ alert' = Absent
    /\ UNCHANGED <<market, shop, listening, evaluation, told, evaluator, outcome, disturbed>>

MuteAlerts ==
    /\ Edit
    /\ listening' = ~listening
    /\ UNCHANGED <<market, shop, alert, evaluation, told, evaluator, outcome, disturbed>>

\* Enough shoppers have confirmed the shop: it never becomes private again.
PublishShop ==
    /\ Edit /\ ~shop.public
    /\ shop' = [shop EXCEPT !.public = TRUE]
    /\ UNCHANGED <<market, listening, alert, evaluation, told, evaluator, outcome, disturbed>>

-----------------------------------------------------------------------------
EvaluatorStep(w) ==
    \/ FindAlert(w) \/ HearsOfShop(w) \/ Consider(w) \/ RaiseMessage(w)
    \/ MarkTriggered(w) \/ EnqueueDelivery(w)

AlertsNext ==
    \/ NextMinute \/ \E p \in AlertPrices : MovePrice(p) \/ RecoverEvaluation(p)
    \/ \E w \in Workers, p \in AlertPrices : TakeEvaluation(w, p)
    \/ \E w \in Workers : EvaluatorStep(w) \/ EvaluationDies(w)
    \/ UpdateAlert \/ DeleteAlert \/ MuteAlerts \/ PublishShop

AlertsSpec == AlertsInit /\ [][AlertsNext]_alertVars

-----------------------------------------------------------------------------
(***************************************************************************)
(* Properties.                                                             *)
(***************************************************************************)
\* "only a new low is news", and "an alert that has just spoken stays quiet":
\* each message of an alert names a lower price than every one before it and
\* comes from an evaluation that started MinMinutes after the last one's,
\* whatever order the price's jobs run in, unless two evaluations overlapped or
\* one died between the message and its mark.
SpeaksOnlyWithNews == slips # {} => disturbed
=============================================================================
