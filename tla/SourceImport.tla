----------------------------- MODULE SourceImport -----------------------------
(***************************************************************************)
(* The daily import of one supermarket's feed: the scheduler that queues   *)
(* it, the run's row with its lease, the executions that may hold it (the  *)
(* queue's workers and an operator's "import now"), the links from the     *)
(* feed's products to ours, which people edit meanwhile, and the           *)
(* observations and the source's record it leaves behind.                  *)
(***************************************************************************)
EXTENDS BullJob, FiniteSets

CONSTANTS
    Operator,       \* the request of a person who presses "import now"
    Externals,      \* products as the feed names them
    Catalog,        \* our products
    NoProduct,
    MaxDay,         \* bound on the days that pass
    MaxHappenings   \* bound on what people press and change, and on faults

ASSUME ImportAssumption ==
    /\ Operator \notin Workers \cup {NoWorker}
    /\ NoProduct \notin Catalog /\ "undecided" \notin Catalog \cup {NoProduct}
    /\ MaxDay \in Nat \ {0}
    /\ MaxHappenings \in Nat

Runners == Workers \cup {Operator}
Days == 1 .. MaxDay

VARIABLES
    halfDay,        \* half days: before the scheduled hour, and after it
    source,         \* the row of external_price_sources
    scheduler,      \* a pass of ScheduleSourceImportsUseCase
    importJob,      \* for each day, the job run-source-import-<source>-<day>
    run,            \* for each day, its row in import_runs
    lastStarted,    \* the day of the newest row, 0 for none
    runner,         \* executions of RunSourceImportUseCase
    link,           \* rows of external_product_links
    storeLinked,    \* the feed's branch is mapped to a store
    observed,       \* for each day, and before (0), the products with a row under its key
    confirmed,      \* for each day, the products whose earlier row it confirmed
    decided,        \* what a person last decided for each product
    edits,          \* people's decisions on their way: ManagePriceSourcesUseCase.resolveLink
    merged,         \* the merges of our products so far, <<from, into>>
    folded,         \* products whose moderationStatus is MERGED
    moves,          \* merges whose links have yet to follow
    raced,          \* links edited while an import held an older reading
    overtaken,      \* executions whose run was taken over
    struck,         \* days hit by a fault
    happenings      \* presses, edits and faults left

importVars == <<halfDay, source, scheduler, importJob, run, lastStarted, runner,
                link, storeLinked, observed, confirmed, decided, edits, merged,
                folded, moves, raced, overtaken, struck, happenings>>

Resolution == Catalog \cup {NoProduct}

\* A link no import has recorded has status NONE.
Link == [status : {"NONE", "UNMATCHED", "MATCHED", "IGNORED"}, product : Resolution]

NoLink == [status |-> "NONE", product |-> NoProduct]
Unresolved == [x \in Externals |-> NoProduct]
Unread == [x \in Externals |-> NoLink]

Edit == [pc : {"check", "save"}, of : Externals, to : Resolution]

RunStatus == {"STARTED", "COMPLETED", "PARTIAL", "FAILED"}

NoRun == [status |-> "NONE", stale |-> FALSE, feed |-> {}]

AtRest == [pc |-> "idle", day |-> 1, todo |-> {}, seen |-> Unread,
           resolved |-> Unresolved, feed |-> {},
           short |-> FALSE, status |-> "STARTED"]

Today == halfDay \div 2 + 1
HourHasCome == halfDay % 2 = 1

\* Steps of importFrom, whose failures end the run as FAILED.
Importing == {"products", "link", "prices", "batch", "confirm", "ingest"}

\* Those that may outlast the lease: fetches of many pages, and the matching
\* of a whole catalog, with no heartbeat in between.
Slow == {"products", "link", "prices"}

Working(d) == {r \in Runners : runner[r].pc # "idle" /\ runner[r].day = d}
Holding(d) == {r \in Working(d) : runner[r].pc \in Importing \cup {"finish"}}

ImportTypeOK ==
    /\ halfDay \in 0 .. 2 * MaxDay - 1
    /\ source \in [enabled : BOOLEAN, lastStatus : RunStatus \cup {"NONE"}]
    /\ scheduler \in [pc : {"idle", "ask", "add"}, day : Days]
    /\ importJob \in [Days -> Job]
    /\ run \in [Days -> [status : RunStatus \cup {"NONE"}, stale : BOOLEAN, feed : SUBSET Externals]]
    /\ lastStarted \in Days \cup {0}
    /\ runner \in [Runners ->
         [pc : Importing \cup {"idle", "find", "create", "takeover", "finish", "outcome", "return"},
          day : Days, todo : SUBSET Externals, seen : [Externals -> Link],
          resolved : [Externals -> Resolution], feed : SUBSET Externals,
          short : BOOLEAN, status : RunStatus]]
    /\ link \in [Externals -> Link]
    /\ storeLinked \in BOOLEAN
    /\ observed \in [Days \cup {0} -> SUBSET Externals]
    /\ confirmed \in [Days -> SUBSET Externals]
    /\ decided \in [Externals -> Resolution \cup {"undecided"}]
    /\ edits \subseteq Edit
    /\ merged \subseteq Catalog \X Catalog
    /\ folded \subseteq Catalog
    /\ moves \subseteq Catalog \X Catalog
    /\ raced \subseteq Externals
    /\ overtaken \subseteq Runners
    /\ struck \subseteq Days
    /\ happenings \in 0 .. MaxHappenings

ImportInit ==
    /\ halfDay = 0
    /\ source = [enabled |-> TRUE, lastStatus |-> "NONE"]
    /\ scheduler = [pc |-> "idle", day |-> 1]
    /\ importJob = [d \in Days |-> NoJob]
    /\ run = [d \in Days |-> NoRun]
    /\ lastStarted = 0
    /\ runner = [r \in Runners |-> AtRest]
    /\ \/ link = Unread /\ observed = [d \in Days \cup {0} |-> {}]
       \/ \E p \in Catalog :      \* a source that has been imported before
            /\ link = [x \in Externals |-> [status |-> "MATCHED", product |-> p]]
            /\ observed = [d \in Days \cup {0} |-> IF d = 0 THEN Externals ELSE {}]
    /\ storeLinked = TRUE
    /\ confirmed = [d \in Days |-> {}]
    /\ decided = [x \in Externals |-> "undecided"]
    /\ edits = {}
    /\ merged = {}
    /\ folded = {}
    /\ moves = {}
    /\ raced = {}
    /\ overtaken = {}
    /\ struck = {}
    /\ happenings = MaxHappenings

\* Groups of variables most steps leave alone.
schedule == <<halfDay, scheduler, lastStarted>>
people == <<storeLinked, decided, edits, merged, folded, moves, raced>>
prices == <<observed, confirmed>>
faulty == <<struck, happenings>>

-----------------------------------------------------------------------------
(***************************************************************************)
(* Time, and the pass of ScheduleSourceImportsUseCase every ten minutes.   *)
(***************************************************************************)
PassTime ==
    /\ halfDay < 2 * MaxDay - 1
    /\ halfDay' = halfDay + 1
    /\ UNCHANGED <<source, scheduler, importJob, run, lastStarted, runner, link,
                   people, prices, overtaken, faulty>>

\* findEnabled and the moment of the pass.
ScheduleStart ==
    /\ scheduler.pc = "idle"
    /\ source.enabled /\ HourHasCome
    /\ scheduler' = [pc |-> "ask", day |-> Today]
    /\ UNCHANGED <<halfDay, source, importJob, run, lastStarted, runner, link,
                   people, prices, overtaken, faulty>>

\* findLastRunKey, isImportDue.
ScheduleAsk ==
    /\ scheduler.pc = "ask"
    /\ scheduler' = [scheduler EXCEPT !.pc = IF lastStarted = scheduler.day THEN "idle" ELSE "add"]
    /\ UNCHANGED <<halfDay, source, importJob, run, lastStarted, runner, link,
                   people, prices, overtaken, faulty>>

ScheduleAdd ==
    /\ scheduler.pc = "add"
    /\ scheduler' = [scheduler EXCEPT !.pc = "idle"]
    /\ importJob' = [importJob EXCEPT ![scheduler.day] = Added(@)]
    /\ UNCHANGED <<halfDay, source, run, lastStarted, runner, link,
                   people, prices, overtaken, faulty>>

\* No heartbeat for RUN_LEASE_MS.
LeaseRunsOut(d) ==
    /\ run[d].status = "STARTED" /\ ~run[d].stale
    /\ \A r \in Holding(d) : runner[r].pc \in Slow
    /\ run' = [run EXCEPT ![d].stale = TRUE]
    /\ UNCHANGED <<schedule, source, importJob, runner, link, people, prices,
                   overtaken, faulty>>

-----------------------------------------------------------------------------
(***************************************************************************)
(* Claiming the day's run.                                                 *)
(***************************************************************************)
Happen == happenings > 0 /\ happenings' = happenings - 1
\* A key made from the day after.
BeginTomorrow(r, d) == runner' = [runner EXCEPT ![r] = [AtRest EXCEPT !.pc = "find", !.day = d + 1]]
Begin(r, d) == runner' = [runner EXCEPT ![r] = [AtRest EXCEPT !.pc = "find", !.day = d]]
Go(r, pc) == runner' = [runner EXCEPT ![r].pc = pc]
\* Only the run, its execution and what follows from both change.
Aside == UNCHANGED <<halfDay, scheduler, source, importJob, link, people, prices, faulty>>

TakeImport(w, d) ==
    /\ importJob[d].state = "waiting" /\ runner[w].pc = "idle"
    /\ importJob' = [importJob EXCEPT ![d] = Taken(@, w)]
    /\ Begin(w, d)
    /\ overtaken' = overtaken \ {w}
    /\ UNCHANGED <<schedule, source, run, link, people, prices, faulty>>

\* POST /price-sources/:id/imports runs the use case in the request.
ImportNow ==
    /\ Happen
    /\ runner[Operator].pc = "idle"
    /\ Begin(Operator, Today)
    /\ overtaken' = overtaken \ {Operator}
    /\ UNCHANGED <<schedule, source, importJob, run, link, people, prices, struck>>

FindRun(r) ==
    /\ runner[r].pc = "find"
    /\ Go(r, CASE run[runner[r].day].status = "NONE" -> "create"
               [] run[runner[r].day].status = "STARTED" -> "takeover"
               [] OTHER -> "return")
    /\ UNCHANGED <<run, lastStarted, overtaken>> /\ Aside

\* The unique key lets one trigger create the row; the loser reads it again.
CreateRun(r) ==
    /\ runner[r].pc = "create"
    /\ LET d == runner[r].day IN
       \/ /\ run[d].status = "NONE"
          /\ run' = [run EXCEPT ![d].status = "STARTED"]
          /\ lastStarted' = d
          /\ Go(r, "products")
       \/ /\ run[d].status # "NONE"
          /\ Go(r, IF run[d].status = "STARTED" THEN "takeover" ELSE "return")
          /\ UNCHANGED <<run, lastStarted>>
    /\ UNCHANGED overtaken /\ Aside

NoteTakeover(d, won) ==
    IF won
    THEN overtaken' = overtaken \cup Holding(d)
    ELSE UNCHANGED overtaken

\* A takeover that trusts the staleness it read before.
TakeOverRunUnchecked(r) ==
    /\ runner[r].pc = "takeover"
    /\ LET d == runner[r].day IN
       /\ run' = [run EXCEPT ![d].stale = FALSE]
       /\ NoteTakeover(d, run[d].stale)
       /\ Go(r, "products")
    /\ UNCHANGED lastStarted /\ Aside

\* One conditional update: STARTED, and no heartbeat since staleBefore.
TakeOverRun(r) ==
    /\ runner[r].pc = "takeover"
    /\ LET d == runner[r].day
           won == run[d].status = "STARTED" /\ run[d].stale IN
       /\ run' = IF won THEN [run EXCEPT ![d].stale = FALSE] ELSE run
       /\ NoteTakeover(d, won)
       /\ Go(r, IF won THEN "products" ELSE "return")
    /\ UNCHANGED lastStarted /\ Aside

-----------------------------------------------------------------------------
(***************************************************************************)
(* importFrom.                                                             *)
(***************************************************************************)
\* What an execution near its end still knows.
Ending(r, pc, status) ==
    runner' = [runner EXCEPT ![r] =
                 [AtRest EXCEPT !.pc = pc, !.day = runner[r].day, !.status = status]]
Fail(r) == Ending(r, "finish", "FAILED")
Inside == UNCHANGED <<schedule, source, importJob, overtaken, people, faulty>>

\* The adapter is unknown, misconfigured, down or slow, or it answers; then
\* findBySource reads all the links, once, before any is decided.
FetchProducts(r) ==
    /\ runner[r].pc = "products"
    /\ \/ Fail(r)
       \/ \E feed \in SUBSET Externals :
            runner' = [runner EXCEPT ![r].pc = "link", ![r].todo = feed, ![r].seen = link]
    /\ UNCHANGED <<run, link, prices>> /\ Inside

\* In order of certainty: the link, the product with a valid barcode, the only
\* product of that name and package.
MatchExternalProduct(linked, byBarcode, identical) ==
    IF linked # NoProduct THEN linked
    ELSE IF byBarcode # NoProduct THEN byBarcode
    ELSE IF Cardinality(identical) = 1 THEN CHOOSE p \in identical : TRUE
    ELSE NoProduct

Saved(p) == [status |-> IF p = NoProduct THEN "UNMATCHED" ELSE "MATCHED", product |-> p]

\* The catalog is searched even where a link already decides.
LinkOneAfresh(r, x) ==
    /\ runner[r].pc = "link" /\ x \in runner[r].todo
    /\ \/ /\ runner[r].seen[x].status = "IGNORED"
          /\ runner' = [runner EXCEPT ![r].todo = @ \ {x}]
          /\ UNCHANGED link
       \/ /\ runner[r].seen[x].status # "IGNORED"
          /\ \E byBarcode \in Resolution, identical \in SUBSET Catalog :
               LET p == MatchExternalProduct(NoProduct, byBarcode, identical) IN
               /\ link' = [link EXCEPT ![x] = Saved(p)]
               /\ runner' = [runner EXCEPT ![r].todo = @ \ {x}, ![r].resolved[x] = p,
                                           ![r].short = @ \/ p = NoProduct]
    /\ UNCHANGED <<run, prices>> /\ Inside

\* One product of the feed: the catalog is searched only for what the source
\* is not tied to, and the decision is saved over whatever is there by now.
\* Neither search asks whether a product was merged: a barcode may be put on a
\* merged product, and one may be made active again.
LinkOne(r, x) ==
    /\ runner[r].pc = "link" /\ x \in runner[r].todo
    /\ \/ /\ runner[r].seen[x].status = "IGNORED"
          /\ runner' = [runner EXCEPT ![r].todo = @ \ {x}]
          /\ UNCHANGED link
       \/ /\ runner[r].seen[x].status # "IGNORED"
          /\ LET linked == runner[r].seen[x].product IN
             \E byBarcode \in IF linked = NoProduct THEN Resolution ELSE {NoProduct},
                identical \in IF linked = NoProduct THEN SUBSET Catalog ELSE {{}} :
               LET p == MatchExternalProduct(linked, byBarcode, identical) IN
               /\ link' = [link EXCEPT ![x] = Saved(p)]
               /\ runner' = [runner EXCEPT ![r].todo = @ \ {x}, ![r].resolved[x] = p,
                                           ![r].short = @ \/ p = NoProduct]
    /\ UNCHANGED <<run, prices>> /\ Inside

\* Only a run still STARTED is kept alive.
Beat(d) == IF run[d].status = "STARTED" THEN [run EXCEPT ![d].stale = FALSE] ELSE run

HeartbeatAfterLinks(r) ==
    /\ runner[r].pc = "link" /\ runner[r].todo = {}
    /\ run' = Beat(runner[r].day)
    /\ runner' = [runner EXCEPT ![r].pc = "prices", ![r].seen = Unread]
    /\ UNCHANGED <<link, prices>> /\ Inside

Placed(r, feed) == {x \in feed : storeLinked /\ runner[r].resolved[x] # NoProduct}

\* Prices that cannot be placed are dropped in silence.
FetchPricesUncounted(r) ==
    /\ runner[r].pc = "prices"
    /\ \/ Fail(r)
       \/ \E feed \in SUBSET Externals :
            runner' = [runner EXCEPT ![r].pc = "batch", ![r].feed = feed,
                         ![r].todo = Placed(r, feed), ![r].resolved = Unresolved]
    /\ UNCHANGED <<run, link, prices>> /\ Inside

\* The feed's prices, then mapForSource; a price of an unmatched product or an
\* unmapped branch is counted, not guessed at.
FetchPrices(r) ==
    /\ runner[r].pc = "prices"
    /\ \/ Fail(r)
       \/ \E feed \in SUBSET Externals :
            runner' = [runner EXCEPT ![r].pc = "batch", ![r].feed = feed,
                         ![r].todo = Placed(r, feed), ![r].resolved = Unresolved,
                         ![r].short = @ \/ Placed(r, feed) # feed]
    /\ UNCHANGED <<run, link, prices>> /\ Inside

HeartbeatBeforeBatch(r) ==
    /\ runner[r].pc = "batch" /\ runner[r].todo # {}
    /\ run' = Beat(runner[r].day)
    /\ Go(r, "confirm")
    /\ UNCHANGED <<link, prices>> /\ Inside

\* Only what the source has observed before can be unchanged.
ConfirmUnchanged(r) ==
    /\ runner[r].pc = "confirm"
    /\ \E same \in SUBSET {x \in runner[r].todo : \E d \in DOMAIN observed : x \in observed[d]} :
         /\ confirmed' = [confirmed EXCEPT ![runner[r].day] = @ \cup same]
         /\ runner' = [runner EXCEPT ![r].pc = "ingest", ![r].todo = @ \ same]
    /\ UNCHANGED <<run, link, observed>> /\ Inside

\* A row under the run's key, new or replayed, or a refusal of the pipeline.
IngestOne(r, x) ==
    /\ runner[r].pc = "ingest" /\ x \in runner[r].todo
    /\ \/ /\ observed' = [observed EXCEPT ![runner[r].day] = @ \cup {x}]
          /\ runner' = [runner EXCEPT ![r].todo = @ \ {x}]
       \/ /\ runner' = [runner EXCEPT ![r].todo = @ \ {x}, ![r].short = TRUE]
          /\ UNCHANGED observed
    /\ UNCHANGED <<run, link, confirmed>> /\ Inside

\* Everything the source sent was used, or some of it could not be.
Conclude(r) ==
    /\ runner[r].pc \in {"batch", "ingest"} /\ runner[r].todo = {}
    /\ runner' = [runner EXCEPT ![r].pc = "finish",
                                ![r].status = IF runner[r].short THEN "PARTIAL" ELSE "COMPLETED"]
    /\ UNCHANGED <<run, link, prices>> /\ Inside

-----------------------------------------------------------------------------
(***************************************************************************)
(* The end of a run.                                                       *)
(***************************************************************************)
\* runs.finish: by id, whatever has become of the row.
FinishRun(r) ==
    /\ runner[r].pc = "finish"
    /\ run' = [run EXCEPT ![runner[r].day].status = runner[r].status,
                          ![runner[r].day].feed =
                            IF runner[r].status = "COMPLETED" THEN runner[r].feed ELSE {}]
    /\ Ending(r, "outcome", runner[r].status)
    /\ UNCHANGED <<lastStarted, overtaken>> /\ Aside

RecordRunOutcome(r) ==
    /\ runner[r].pc = "outcome"
    /\ source' = [source EXCEPT !.lastStatus = runner[r].status]
    /\ Ending(r, "return", "STARTED")
    /\ UNCHANGED <<schedule, importJob, run, link, people, prices, overtaken, faulty>>

ReturnImport(r) ==
    /\ runner[r].pc = "return"
    /\ importJob' = [importJob EXCEPT ![runner[r].day] = Done(@, r)]
    /\ runner' = [runner EXCEPT ![r] = AtRest]
    /\ UNCHANGED <<schedule, source, run, link, people, prices, overtaken, faulty>>

-----------------------------------------------------------------------------
(***************************************************************************)
(* Faults.                                                                 *)
(***************************************************************************)
Strike(d) ==
    /\ Happen
    /\ struck' = struck \cup {d}

\* An outage inside importFrom ends the run as FAILED.
ImportBreaks(r) ==
    /\ runner[r].pc \in Importing
    /\ Strike(runner[r].day)
    /\ Fail(r)
    /\ UNCHANGED <<schedule, source, importJob, run, link, people, prices, overtaken>>

\* Outside it, the failure is the job's, or the operator's request's.
ImportThrows(r) ==
    /\ runner[r].pc \in {"find", "create", "takeover", "finish", "outcome"}
    /\ Strike(runner[r].day)
    /\ importJob' = [importJob EXCEPT ![runner[r].day] = Threw(@, r)]
    /\ runner' = [runner EXCEPT ![r] = AtRest]
    /\ UNCHANGED <<schedule, source, run, link, people, prices, overtaken>>

ImportDies(r) ==
    /\ runner[r].pc # "idle"
    /\ Strike(runner[r].day)
    /\ runner' = [runner EXCEPT ![r] = AtRest]
    /\ UNCHANGED <<schedule, source, importJob, run, link, people, prices, overtaken>>

\* BullMQ finds a job whose worker is gone.
RecoverImport(d) ==
    /\ importJob[d].state = "active" /\ importJob[d].holder \notin Working(d)
    /\ importJob' = [importJob EXCEPT ![d] = Stalled(@)]
    /\ UNCHANGED <<schedule, source, run, runner, link, people, prices, overtaken, faulty>>

\* The lock of a job still running is lost, and the job is given out again.
ImportLosesLock(d) ==
    /\ importJob[d].state = "active" /\ importJob[d].holder \in Working(d)
    /\ Strike(d)
    /\ importJob' = [importJob EXCEPT ![d] = Stalled(@)]
    /\ UNCHANGED <<schedule, source, run, runner, link, people, prices, overtaken>>

-----------------------------------------------------------------------------
(***************************************************************************)
(* People: ManagePriceSourcesUseCase, and merges of our products.          *)
(***************************************************************************)
\* Imports that will still save a decision made from an older reading of x.
HoldsOldReading(x) ==
    \E r \in Runners : runner[r].pc = "link" /\ x \in runner[r].todo

UpdateSource ==
    /\ Happen
    /\ source' = [source EXCEPT !.enabled = ~@]
    /\ UNCHANGED <<schedule, importJob, run, runner, link, people,
                   prices, overtaken, struck>>

\* A person decides about a product this source has reported (findOne): a match
\* by hand, or nothing worth matching.
ResolveLink(x, decision) ==
    /\ Happen
    /\ link[x].status # "NONE"
    /\ edits' = edits \cup {[pc |-> IF decision = NoProduct THEN "save" ELSE "check",
                              of |-> x, to |-> decision]}
    /\ UNCHANGED <<schedule, source, importJob, run, runner, link, storeLinked, decided,
                   merged, folded, moves, raced, prices, overtaken, struck>>

\* products.findById finds a merged product too.
FindDecided(e) ==
    /\ e.pc = "check"
    /\ edits' = (edits \ {e}) \cup {[e EXCEPT !.pc = "save"]}
    /\ UNCHANGED <<schedule, source, importJob, run, runner, link, storeLinked, decided,
                   merged, folded, moves, raced, prices, overtaken, faulty>>

\* links.save: over whatever is there by now.
SaveDecision(e) ==
    /\ e.pc = "save"
    /\ edits' = edits \ {e}
    /\ link' = [link EXCEPT ![e.of] =
                  [status |-> IF e.to = NoProduct THEN "IGNORED" ELSE "MATCHED",
                   product |-> e.to]]
    /\ decided' = [decided EXCEPT ![e.of] = e.to]
    /\ raced' = IF HoldsOldReading(e.of) THEN raced \cup {e.of} ELSE raced \ {e.of}
    /\ UNCHANGED <<schedule, source, importJob, run, runner, storeLinked, merged, folded,
                   moves, prices, overtaken, faulty>>

\* The request fails or dies before the save.
EditFails(e) ==
    /\ Happen
    /\ edits' = edits \ {e}
    /\ UNCHANGED <<schedule, source, importJob, run, runner, link, storeLinked, decided,
                   merged, folded, moves, raced, prices, overtaken, struck>>

LinkStore ==
    /\ Happen
    /\ ~storeLinked
    /\ storeLinked' = TRUE
    /\ UNCHANGED <<schedule, source, importJob, run, runner, link, decided, edits, merged,
                   folded, moves, raced, prices, overtaken, struck>>

UnlinkStore ==
    /\ Happen
    /\ storeLinked
    /\ storeLinked' = FALSE
    /\ UNCHANGED <<schedule, source, importJob, run, runner, link, decided, edits, merged,
                   folded, moves, raced, prices, overtaken, struck>>

\* PrismaProductMerger.merge, one transaction of another database.  The links
\* follow when the standing and the audit trail are written and the event is
\* published.
MergeProducts(from, into) ==
    /\ Happen
    /\ from # into /\ from \notin folded /\ into \notin folded
    /\ merged' = merged \cup {<<from, into>>}
    /\ folded' = folded \cup {from}
    /\ moves' = moves \cup {<<from, into>>}
    /\ UNCHANGED <<schedule, source, importJob, run, runner, link, storeLinked, decided,
                   edits, raced, prices, overtaken, struck>>

\* PrismaProductPriceMover.move, of what leads to the duplicate by now.
MoveLinks(from, into) ==
    /\ <<from, into>> \in moves
    /\ moves' = moves \ {<<from, into>>}
    /\ link' = [x \in Externals |->
                  IF link[x].product = from THEN [link[x] EXCEPT !.product = into] ELSE link[x]]
    /\ UNCHANGED <<schedule, source, importJob, run, runner, storeLinked, decided, edits,
                   merged, folded, raced, prices, overtaken, faulty>>

\* A step after the merge throws or its process dies, or the handler fails,
\* which is only logged; a second merge is refused while the duplicate stays merged.
MoveLost(from, into) ==
    /\ Happen
    /\ <<from, into>> \in moves
    /\ moves' = moves \ {<<from, into>>}
    /\ UNCHANGED <<schedule, source, importJob, run, runner, link, storeLinked, decided,
                   edits, merged, folded, raced, prices, overtaken, struck>>

\* The team restores a merged product and makes it active again
\* (ModerateUseCase.act, a correction of isActive); its links stay where they are.
ReviveProduct(p) ==
    /\ Happen
    /\ p \in folded
    /\ folded' = folded \ {p}
    /\ UNCHANGED <<schedule, source, importJob, run, runner, link, storeLinked, decided,
                   edits, merged, moves, raced, prices, overtaken, struck>>

-----------------------------------------------------------------------------
ScheduleStep == ScheduleStart \/ ScheduleAsk \/ ScheduleAdd

RunnerStep(r) ==
    \/ FindRun(r) \/ CreateRun(r) \/ TakeOverRun(r)
    \/ FetchProducts(r) \/ \E x \in Externals : LinkOne(r, x)
    \/ HeartbeatAfterLinks(r) \/ FetchPrices(r)
    \/ HeartbeatBeforeBatch(r) \/ ConfirmUnchanged(r) \/ \E x \in Externals : IngestOne(r, x)
    \/ Conclude(r) \/ FinishRun(r) \/ RecordRunOutcome(r) \/ ReturnImport(r)

HandOutImport == \E w \in Workers, d \in Days : TakeImport(w, d)
RecoverImports == \E d \in Days : RecoverImport(d)

ImportFault ==
    \/ \E r \in Runners : ImportBreaks(r) \/ ImportThrows(r) \/ ImportDies(r)
    \/ \E d \in Days : ImportLosesLock(d)

PeopleStep ==
    \/ ImportNow \/ UpdateSource \/ LinkStore \/ UnlinkStore
    \/ \E x \in Externals, p \in Resolution : ResolveLink(x, p)
    \/ \E e \in edits : FindDecided(e) \/ SaveDecision(e) \/ EditFails(e)

MergeStep ==
    \/ \E from, into \in Catalog :
         MergeProducts(from, into) \/ MoveLinks(from, into) \/ MoveLost(from, into)
    \/ \E p \in Catalog : ReviveProduct(p)

ImportNext ==
    \/ PassTime \/ ScheduleStep \/ HandOutImport \/ RecoverImports
    \/ \E d \in Days : LeaseRunsOut(d)
    \/ \E r \in Runners : RunnerStep(r)
    \/ PeopleStep \/ MergeStep \/ ImportFault

ImportSpec == ImportInit /\ [][ImportNext]_importVars

-----------------------------------------------------------------------------
(***************************************************************************)
(* Properties.                                                             *)
(***************************************************************************)
\* Of two executions at work on one day's run, one has been overtaken: the
\* unique key and the conditional takeover (startOrResume) never let two
\* triggers win the same run, however they interleave.
OneRunnerPerRun ==
    \A d \in Days : Cardinality(Holding(d) \ overtaken) <= 1

\* A run that ended COMPLETED used every price its feed sent: each has a row
\* under the day's key or confirmed an earlier one, through resumed runs,
\* replays, ignored products and branches mapped or unmapped meanwhile.
CompletedMeansUsed ==
    \A d \in Days : run[d].status = "COMPLETED" => run[d].feed \subseteq observed[d] \cup confirmed[d]

\* q is p, or what became of p by merges.
Became(p, q) ==
    \A S \in SUBSET Catalog :
        p \in S /\ (\A m \in merged : m[1] \in S => m[2] \in S) => q \in S

\* manage-price-sources.use-case.ts:147: a person's decision about a product
\* "survives later imports", whatever barcodes and names say by then and however
\* runs fail, resume and overlap: what was ignored stays ignored, and what was
\* matched leads to that product or to what it was merged into meanwhile.  Not
\* so if it was saved while an import held an older reading (raced).
DecisionsOutlastImports ==
    \A x \in Externals \ raced :
        /\ decided[x] = NoProduct => link[x].status = "IGNORED"
        /\ decided[x] \in Catalog =>
             link[x].status = "MATCHED" /\ Became(decided[x], link[x].product)

\* A started run that no fault struck has an execution that will end it,
\* however it passed from one to another.
StartedRunIsHeld ==
    \A d \in Days : run[d].status = "STARTED" /\ d \notin struck => Holding(d) # {}

\* What the record of a run says is so: done with all its prices used, or under
\* way in somebody's hands.
RunsTellTheTruth == CompletedMeansUsed /\ StartedRunIsHeld
=============================================================================
