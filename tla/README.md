# Verification of Garner's backend

TLA+ models of the core of the Garner backend (`src/`), the TLC runs that check
them on small instances, and TLAPS proofs of the results that matter most. Paths
below are relative to the repository; `sessions/` stands for
`src/shopping-sessions/`, and so on.

## The system

Garner is a NestJS monolith: one process (several later, `docs/operations.md`)
serves HTTP and runs every BullMQ worker. It keeps three PostgreSQL databases
with no transaction across them, and a Redis for queues and cache. Modules talk
through an **in-process event bus**, which awaits its handlers, logs their
failures and forgets the event if the process dies, and through **queues**,
whose jobs are retried, may be found stalled and run again, and are named by a
`jobId` so that adding a job that exists does nothing.

| Component | State it keeps | Operations | What makes it correct | Modules |
| --- | --- | --- | --- | --- |
| shopping-sessions | `shopping_sessions`, their items | start, pause, resume, complete, abandon, record a line, totals | a closed trip is final; its completion is announced once, with exactly what was bought; retries are harmless; a list has one open trip | ShoppingSession, TripPromise, ShoppingList, Totals |
| contributions | `session_contributions`, one job per trip | queue on completion, record, reconcile every 10 minutes | each priced purchase becomes one observation, announced once; no completed trip is forgotten | TripContribution, BullJob |
| pricing | `price_observations`, rate windows in Redis | ingest, confirm, prune | a call is answered with its own row; what a feed confirms stays confirmed; the hard limit holds | PriceIngestion, SubmissionPolicy |
| price-intelligence | `derived_prices`, drops, daily history, Redis cache | recompute, aggregate a day, compare, show a history | a price follows its observations; the cache never outlives a change; drops match prices; a day is weighed as it was | DerivedPrice, DailyPrices, PriceHistory |
| external-price-sources | sources, import runs, product and store links | read a feed, schedule, import, resume, link, ignore | one execution at a time owns a day; a finished run used every price; a person's decision wins; what is imported is what the feed says | SourceImport, SourceFeed, BullJob |
| optimization | `optimization_requests`, one job per request | ask, reuse, claim, compute, release, give up, prune | one worker per request; a finished request is final; every request is answered; the plan found is the best | OptimizationRequest, PlanSearch |
| notifications | alerts, notifications, channel deliveries | evaluate, raise, deliver, sweep, prune | only news is sent; each channel gets a message once; consent holds; every message settles | AlertRules, PriceAlerts, NotificationDelivery |
| community | confirmations, flags, moderation, store contributions | confirm, flag, moderate, merge, publish | standing is what people said; a store is published when its threshold is met | Community |
| products | `products`, barcodes, brands, `categories`, answers of Open Food Facts in Redis | add, correct, moderate, merge; apply the taxonomy file, search under a category; look a code up | a barcode stays with its product; look-alikes come only of races; categories are a tree and the file stands once applied; the source is not asked too often | Catalog, CategoryTree, ProductFacts |
| supermarkets | chains, branches, opening hours | add a shop, find what is around | look-alikes come only of races; what is near, open or fallen is so | Shops, NearbyStores |
| shopping-lists | lists, items, positions | add, update, remove, reorder, duplicate, delete | limits hold; client ids replay | ShoppingList, Totals |
| users | accounts, preferences, consents | update, erase | an erased account is met by running work; half a place and contradictory stamps come only of races | Settings; actions of Accounts, TripContribution, OptimizationRequest, NotificationDelivery |
| auth | `users`, `refresh_tokens`, `password_reset_codes` | register, log in and out, refresh, change and reset a password | a session rests on the account's present password; tokens and codes are used once | Accounts |
| security | rate counters | hash, limit | not modelled | |
| common | event bus, queues, databases, cache | publish, enqueue | modelled as far as the others rely on it | BullJob |

The hard behaviours are the same everywhere: a row is read, something is
awaited, and a write is made from what was read; a job runs twice, or its
process dies between two writes that no transaction joins; an event or a job is
lost; a retry finds work half done. `PROJECT.json` lists each place as a hazard
with the properties that watch it, or the reason why none does.

## Modelling conventions

An HTTP request, a worker's execution of a job or a reader is a process with a
program counter; every `await` ends a step, so two of them interleave wherever
the event loop, or a second instance, lets them. A database transaction under a
row lock, or a single conditional statement, is one step. A fault (an outage, a
lost acknowledgement, a death, a lost lock) spends one of a bounded number.
Data is cut to what a property tells apart. An operator whose comment describes
a bug (`...Unconditionally`, `...Silently`, ...) is the mutated form of the
definition after it; `PROJECT.json` says which property refutes it.

Some variables record history for a property and guard no action: `struck`,
`stale`, `raced`, `overtaken`, `disturbed`, `muddled`, `delayed`, `excused`,
`crowded`, `mixed`, `shared`, `rushed`, `late`, `tolerated`, `hurried`, `doubtful`,
`shaken`, `meddled`, `crossed`, `changed`.
Each names the cases a property makes an exception of, and a reader
should ask of each whether the exception is as narrow as it can be.

Modules that share no state are run together by composites (`MCAnswers`,
`MCExecutions`, `MCShoppers`, `MCCatalog`): a constant variable `focus` says
which module moves, and what is not looked at starts in one idle state. The
behaviours of each module are the same as if it were run alone.

## Modules

**ShoppingSession, with TripPromise.** One trip, its lines, any number of status
requests (`Changers`) and line writes (`Writers`). `RequestChange` / `Decide` /
`Apply` / `PublishCompleted` are the loop of `change-session-status.use-case.ts`,
where `Apply` is the transaction of `changeStatus`; `RequestWrite` / `LoadLine` /
`UpdateItemWhileOpen` / `Recheck` are `record-item-progress.use-case.ts`. `Die`
kills a status request, `Leave` ends a line write at any point, `Tick` moves the
clock. A line has one absolute value, its price; its quantity is written the
same way and left out. `TripPromise` is the abstract trip: lines change while it
is open, it closes once, and a completed trip is announced at most once with its
final purchases. `KeepsPromise` says ShoppingSession implements it under the
identity mapping.

**BullJob and TripContribution.** `BullJob` is what the queues rely on of
BullMQ: a named job, its attempts, one stall forgiven, completion removing it,
failure keeping it for an hour. `TripContribution` is one completed trip on its
way to the ledger: the event and its loss, the job, the runs of
`record-session-purchases.use-case.ts` (`Take` to `FinishJob`, one step per
await), the insert behind its unique key (`Create`) and the events after it
(`Announce`), the ledger (`Record`), the sweep (`SweepList`, `SweepFilter`,
`SweepEnqueue`), erasure of the account, and time: a trip enters and leaves the
sweep's window, and a purchase may grow too old to be accepted (`Outdate`).

**SourceImport.** The daily import of a feed: the scheduler that asks and adds a
day's job, the run's row with its lease, the executions that may hold it (the
queue's workers and an operator), `startOrResume` as `CreateRun` and
`TakeOverRun`, links read once and saved one by one (`LinkOne`), heartbeats
before each batch, confirmation of unchanged prices and rows for the others, and
the outcome. People decide about links and map or unmap the branch meanwhile:
`ResolveLink` (`findOne`), `FindDecided` (`findById`, which finds merged products
too) and `SaveDecision` are the three steps of one request. A merge of our
products (`MergeProducts`) is a transaction of another database, and its links
follow later (`MoveLinks`) or never (`MoveLost`); a merged product may be made
active, and merged, again (`ReviveProduct` joins the moderator's step and the
correction that makes it active, between which nothing here changes). `Became`
says what a product became by merges. What a feed sends, and what the catalog
answers to its barcodes and names, is chosen freely.

**OptimizationRequest.** A list whose owner edits and deletes it, the requests
that ask about it (`Ask`, `FindReusable`, `Create`, `Enqueue`), and the workers
(`run-optimization.use-case.ts` inside `OptimizationProcessor.handle`): claim,
compute, complete or fail, publish; release, give up and throw after a failure.
`struck` marks requests hit by a fault outside the computation (a death, a lost
lock, a failed release).

**PlanSearch.** The search itself, on a street of whole kilometres: candidate
stores, combinations, the cheapest basket of each, the shopper's limits, the
trip it would replace and the three recommendations. `NothingBetter` compares them
with every way of sharing the products out among the candidates (`Ways`). Two
things are taken as the code decides them: what a store on the way sells is not
left unbought, and a way is not counted as better if leaving one of its stops out
lengthens its drive (`NoStopShortens`), see below.

**DerivedPrice.** One product at one store. `yield` is the price its
observations yield: an arrival changes it and raises an event, age changes it in
silence. The event queues the job (a `BullJob`), whose runs are
`recompute-derived-price.use-case.ts`, one step per await: window, existing row,
then upsert or removal, invalidation, drop, announcement. The Redis cache is a
set of entries under the version in their key; `Compare`, `Get`, `ReadRows`,
`Set` are `compare-prices.use-case.ts`, with the version looked up once, before
everything else. A reader whose lookup of the version failed uses a key of its
own (`unversioned`), which no recompute invalidates: `CacheIsCurrent` leaves it
out. A key's version expires after a day unused and entries after a minute, so a
version is never reused while an entry under it lives. `stale` remembers that a
failure lost an invalidation, `struck` that a run failed. `DropInStep`, the finding
of `price_drop_step`, is asked only when no run works, no job is left to retry and
there is a price: its trace goes through the failed run and the retry that takes
the stored price as unchanged, to the end of the job.

**DailyPrices and PriceHistory.** The day's row: observations that arrive late,
are confirmed and expire, the scheduled run and an operator's, the choice and
weight of observations; and the history shown from such rows, its currency, its
points and its trend. The average of a row lies between the prices it was
weighed from, as `price-weighting.ts` makes it.

**PriceIngestion, with SubmissionPolicy.** Calls of the single entry point of
prices for one product at one store: reports with their client ids, rate window,
duplicate check and trust (`Latest` to `Create`), feeds that confirm or add, and
retention. `SubmissionPolicy` holds the rules that take no state.

**PriceAlerts, with AlertRules.** One alert, the jobs of its product's price
changes (named by the price), two executions, and its owner's edits;
`AlertRules` holds the three rules, the throttle and quiet hours.

**NotificationDelivery.** One message: its delivery job, the sweep that covers
for it, the ledger of channels, consents and the phone read for each attempt,
retention and the deletion of the account.

**Community, Catalog, Shops.** What people say of shared entries and the
standing recounted from it, in separate reads and writes; additions of products
and shops with their twin checks, allowances, brands, codes and chains; the
team's corrections, moderation and merges.

**ShoppingList, Totals, NearbyStores.** One list edited from several devices, its
copy and the trips started from it; the totals of a list and a trip in
thousandths and cents, where a start takes for each line the price of the plan it
follows or of the store it shops, and the list's where they give none
(`charged`); what lies around a point, what is open and what fell. A
shop is of the chain that is asked for or of another.

**Accounts.** Registering, signing in and out, exchanging a refresh token,
changing and resetting a password, erasing an account: an errand reads, hashes,
and writes what it read, one step per await (`FindHolder` and `Rotate` of an
exchange, `UpdatePasswordHash`, `MarkUsed` and `EndAll` of a new password). A
password is the number of times it was set; a session carries the password it
was opened with. The codes of one hour are counted.

**Settings.** The two rows of preferences, each read, merged with what a request
mentions, checked and saved, with the stamps of `consentChange`.

**CategoryTree.** `syncTaxonomy`, one write per await, over any tree it may find;
moderators adding categories and shoppers filing products beside it; and
`findSubtreeIds`, level by level. A deploy that is cut off leaves a tree as any
other, from which the next one starts.

**ProductFacts and SourceFeed.** Lookups of a scanned code: Redis, the turns
under the source's limit, the request and what is kept of its answer. A feed's
pages, followed as `fetchAllPages` follows them, or a sandbox file; which items
are passed on, and their prices in thousandths rounded to cents.

**Proof modules.** `TripContributionProofs`, `DerivedPriceProofs` and
`OptimizationRequestProofs` for the module of that name; one for each composite:
`ExecutionProofs` (SourceImport, NotificationDelivery, ShoppingSession),
`ShopperProofs` (PriceIngestion, PriceAlerts, DailyPrices, AlertRules, PlanSearch) and
`CatalogProofs` (Catalog, Shops, ShoppingList, Community, NearbyStores, Totals,
PriceHistory), which rests on `AccountProofs` (Accounts, Settings, CategoryTree, ProductFacts,
SourceFeed); and `CommonProofs`, the lemmas about jobs, numbers and sums (`Sums`)
that they share.

## Runs

| Run | Shows | Bounds and why they are enough |
| --- | --- | --- |
| `trip_races` | types, `CompletionIsFinal`, `ReplaysAreTrue`, `KeepsPromise`, `EveryChangeIsAnswered`, `CompletionIsAnnounced` | two status requests moving the trip under each other and under a line write; 2 attempts where the code has 3, as the third repeats the second. The proofs cover every number |
| `contribution` | `LedgerIsTrue`, `AnnouncedOnce`, `EveryTripContributes` | two lines of every kind, two overlapping runs, two faults anywhere |
| `optimization_runs` | types, `ClaimIsExclusive`, `AnnouncedOnce`, `FinishedIsFinal`, `EveryRequestIsAnswered`; `EveryMessageSettles` of the delivery | two contents, two workers, three faults: enough to spend both attempts and still lose a lock |
| `price_cache` | `CacheIsCurrent` | two overlapping runs, a reader that comes back, two faults |
| `price_records` | `RecordsAgree`, `WaitingPriceIsShown` | three prices, so that drops merge and partly recover; four arrivals, one ageing, one fault |
| `executions` | types, `OneRunnerPerRun`, `RunsTellTheTruth`, `DecisionsOutlastImports`, `ConsentHolds`, `CopiesAreBounded`, `MomentsAreSane` | a worker and an operator on one day, one product of the feed and two of ours, two happenings, so that two decisions, a decision and a merge, or a merge and the loss of its move meet an import; a job and the sweep on one message, one crash; two line writes with moments before, within and beyond the tolerance |
| `shoppers` | types, `SpeaksOnlyWithNews`, `HeldUntilQuietEnds`, `HardLimitHolds`, `AnswersAreTheCallers`, `ConfirmationsLast`, `DayIsTrue`, `NothingBetter` | three changes among prices on both sides of a 10 % fall; two reports or two feeds over three rows; days of four hours in two halves, with every pair of quiet hours; two sightings over three days; three shops and two products |
| `catalog` | types, `StandingIsTrue`, `TenthPricePublishes`, `OnlyRacesGetPast`, `OneOpenTrip`, `AnswersAreTrue`, `CodesStay` | two requests beside each other on two products, shops or items; thresholds of two for three flags and ten products; a shop counts as the same within one step for 50 m; `OverFetch` 2 for the code's limit x 4; days of three minutes and weeks of three days; two accounts, three tokens and four requests, with one code an hour and one guess, so that each race of two requests happens and is met by a third; two changes of settings at a time, four in all; every tree of three categories that two of them may form, one deploy of a file that replaces and moves them; two lookups of one code at two a minute; a list with one item or none and four requests of it; totals of two lines of half a piece, the list's prices known or not and any price of a store, a plan and the till; three pages that lead anywhere, changed once while they are read |
| `optimization_spinner` | a claim outlives its dead worker (finding) | one death |
| `optimization_reuse` | an answer is reused for other contents (finding) | no fault at all |
| `price_drop_step` | once a failed run was retried and no job is left, the drop is behind (finding) | one fault |
| `price_follows` | an observation is not counted (finding) | no fault at all |

Symmetry is used in runs without liveness only, over names that no definition
tells apart. Deadlock is not checked where requests, faults or the clock are
bounded, as the model then stops where the system does not.

**Fairness.** Weak fairness of a process's own steps (the server keeps working
on what it holds), of handing out, recovering and releasing jobs (BullMQ's own
timers), of the sweeps (repeatable jobs) and of time. `EveryMessageSettles` rests
on the five-minute sweep, on time and on the steps of an execution, and not on
the delivery job, which may be lost; it says that a message comes to rest for
good (`<>[]`), so that one marked failed after it was sent is settled again. Never of a person's action, a fault or an
edit.

## Proofs

A theorem is about the component's own specification (`ImportSpec`,
`IngestSpec`, ...), for every value of its constants that the module's named
assumption allows: any number of processes, requests, prices, days and faults.
TLC checks the property on the instance of its run, and all theorems of
`PROJECT.json` follow one pattern: an inductive invariant, its initial case, its
step by action, and PTL. What follows says which invariant, and why the property
alone does not do.

**TripContributionProofs**: type correctness, `AnnouncedOnce` and `LedgerIsTrue`.
`Counted` bounds what a run has counted by the lines it has passed;
`AnnouncedOnce` is inductive given it, because the insert behind the unique key
admits one run to a line. `LedgerIsTrue` needs `RunsTally`, a loop invariant of
every run on its way through the lines: the priced ones it has passed are
stored, what it counted lies between the priced and the stored, and every bought
one was counted or skipped. Other runs only add rows, so they disturb none of
it. That the ledger is written only past the last line turns the tally into the
truth of the entry; cardinalities of the lines before a number carry the count.

**DerivedPriceProofs**: type correctness, `CacheIsCurrent` and `RecordsAgree`.
`Typed` adds to the types that a job still to be done has attempts left
(`SoundJob`) and that a run tracking a drop has a price to drop to
(`DropsToAPrice`). `CacheIsCurrent` is inductive given `Typed`: a row changes only
under a run that owes an invalidation, and the version an invalidation installs
is beyond every entry's and every reader's. `RecordsAgree` speaks of the moments
between runs; `InStep` says what holds within one: short of a failure only one
run is under way (`Solo`), and its step tells how far the row, the drop and the
last announcement have moved from the old price to the new (`Follows`).

**OptimizationRequestProofs**: `TypeOK`, `ClaimIsExclusive`, `AnnouncedOnce` and
the action property `FinishedIsFinal`, from one invariant, `Custody`. `Claims`:
a claimed request has a row past PENDING, one run and no announcement. `Answers`:
what is completed or announced was computed. `Queueing`: a request has no job
and no run before its row is there and its asker has queued it. `Quiet`: the run
of a request that no fault struck holds its job, knows whether it is the last
attempt and finds the row as it left it, which is why its release or giving up
never touches another run's outcome. `Requests` is assumed not to be empty, as an
idle worker's record names one.

**ExecutionProofs**, in three parts.
*ShoppingSession*: type correctness (`TripKeepsTypes`), `CompletionIsFinal`,
`StampsTellStatus`, `MomentsAreSane`, `ReplaysAreTrue` and the refinement
`Spec => KeepsPromise`. `StatusInv` adds to the stated properties what a request
about to write knows (`DecidedFromOpen`: it decided from a status its verb may
leave), without which a write could close a trip twice. `LineInv` adds what a
line write in flight carries (`PendingMomentsAreSane`: the moment computed from
a stale read is still sane, as the clock only grows) and that a request is
rechecked only against a closed trip (`RecheckedWhenClosed`). The refinement maps
each step to a purchase, a move, an announcement or a stutter.
*SourceImport*: type correctness, `OneRunnerPerRun`, `RunsTellTheTruth`
and `DecisionsOutlastImports`. `Custody` ties the holders of a day to its row: a
held run exists, of two holders one was overtaken, and a started run short of a
fault has a holder. `Accounts` follows what an execution read of the feed:
until something falls short, each price is still to be done or is used; without
it nothing says that a run ending COMPLETED passed them all. `Readings` says
that a link, and a reading of it not yet saved over it, still tell what was
decided (`Tells`), unless it was raced. A save of such a reading does
(`SavedTells`); a merge only adds to what a product became (`TellsAfterMerge`);
and links move only along a merge (`MovesFollow`), so that a move, however late,
leads on from what they led to. Two assumptions of `ImportAssumption` serve the
proofs: "no product" and "undecided" are none of the catalog's ids.
*NotificationDelivery*: type correctness, `ConsentHolds` and
`CopiesAreBounded`. `Informed` says that what an execution decided to send still
agrees with the settings unless they changed after it read them.
`CopiesAccounted` puts each copy of the email down to an execution that has sent
its own, or to a crash: while the email is open each of them still owes its
record; once it is closed each is harmless, being past the channel, or having
read that a copy went out, or being about to fail on an earlier channel of a
message that is gone. The set of executions is assumed finite, as it is counted.
`ExecutionsAreTheirParts` carries all of it over to the composite that TLC
checks: `ExecutionsAreSafe` states every safety invariant of that run of it.

**ShopperProofs**, in four parts.
*PriceIngestion*: its types; `AnswersAreTheCallers` and `ConfirmationsLast` from
`AnswersTrue` (an answer names a used place that no later row takes; a row keeps
its author, price and key and its confirmation only moves on); `HardLimitHolds`
from `WindowsHold`: each unit of a window's counter is a row it counted or a call
it has let through, and no later day has been counted. It assumes finitely many
reports and that `None` is neither a user nor a number.
*PriceAlerts*: its types, with the jobs' `SoundJob`; `SpeaksOnlyWithNews` from
`Speaking`: undisturbed, one evaluation is at work, and the alert lags behind
what was said only between its message and its mark.
*DailyPrices*: its types; `DayIsTrue` from `DaysHold`. The property speaks of days
whose run is over, so the invariant says how far a run has come (`InTurn`): of a
day that is not in doubt one run at most is past its list (`Weighers`), what it
has left are the day's greatest currencies, what it holds is what the least of
them yields and the row before it, and the row is that of the greatest currency
it is done with (`RowIsLast`). What is weighed is treated as a function of the
day's observations and of nothing else (`DayRests`), which is why a step that
leaves those leaves the day; the rest of the proof shows that each step either
does (`DayIsNotTold`, with the days of a moment told by quotients) or puts the
day in doubt.
*Quiet hours*: `MessagesWaitForTheQuiet` says of any quiet hours and any moment of
any day what TLC checks within one day. A moment is taken apart into its day, its
hour and the rest (`MomentParts`), and hours since the beginning are compared
instead of moments, which leaves linear arithmetic.
*PlanSearch*: `SearchFinds`, the types and `NothingBetter`. What is compared are
sequences of integers, and `Before` orders them strictly (`BeforeOrders`), so that
of finitely many things there is one that none comes before (`FirstExists`, over
the subsets of a set): the cheapest seller of a product, the nearest stop, the
baseline and the best plan all exist. The drive is a recursive function of the
number of stops; that it is defined, and that a stop is always left, is shown by
the least counterexample (`DriveExists`, `DriveHolds`). Then, for any way of buying
within the limits, the combination of its own stores is one that was looked at;
the plan of that combination buys the same for no more, goes to some of those
stores and, where no stop shortens the drive, drives no farther
(`PlanOfThoseStores`); what is no worse keeps the limits (`NoWorseSatisfies`) and
ranks no lower in any mode (`NoWorseRanks`); and nothing within the limits comes
before what was recommended (`BestIs`). The trip to compare with keeps any limits
(`BaselineIsValid`), so there always is something to recommend.
`ShoppersAreSafe` states every safety invariant of the run, `ShoppersKeepTypes` its
type invariant.

**CatalogProofs**, in eight parts.
*Catalog*: its types; the action property `CodesStay`; twins and limits.
`TwinsKnown` says that a product shown now that looks like a request's own, once
that is past its look for twins, was missed as it came later, or is excused, or
is refused for its brand; `RoomIsLeft` that a
contributor's additions under way have room as long as no two of them were past
the count at once.
*Shops*: the same of shops (`ShopTwinsKnown`, `StreetHasRoom`); the box the search
for neighbours reads holds every shop that could be the same, which is
arithmetic.
*ShoppingList*: its types; `OneOpenTrip` from `StartsApart`: under the list's lock,
a start that finds an open trip, or a trip of its id, adds none, however stale
the list it loaded.
*Community*: its types; `StandingIsTrue` from `StandingsHold`: a product stands
right, or a recount has yet to read what was said, or every recount that has read
it counted what is said now (two that overlap in time make an exception of the
product); `TenthPricePublishes` from `PublicationIsDue`: with enough products
priced and nothing in the way, a handler is on its way that will find, or has
found, that there are enough. A merge never makes more products priced.
*NearbyStores*: `NearbyIsTrue`. Nothing here changes but by one answer, so the
invariant is the property with its types, and the work is in the three answers.
Rows are read in any order within a limit, then put in order and cut: who is left
out of a cut comes after all that are in it, and whoever the limit of rows left
out is accounted for (`FirstOfARow`, `EveryOneIsPlaced`). The box is compared with
the circle by its legs, without a root (`SurelyInBox`). Opening hours across
midnight and the end of the week are arithmetic with quotients and remainders
(`WithinTheInterval`, `OpenByTheClock`). Of each product the biggest fall is kept
whatever order falls are read in (`OneIsBiggest`, `BiggestIsOne`).
*Sums*: that the sum the models use, which picks elements by CHOOSE, is that of
any one element and of the rest, whichever is taken (`AnyStep`), and so is linear,
monotone, and that of its parts (`SumLinear`, `SumMonotone`, `SumInParts`,
`SumBetween`). Instead of the library's induction on finite sets, which takes
an operator, `EverySubset` takes the set of the good subsets and looks at a least
one that is not among them.
*Totals*: `FiguresAddUp` from `TotalsHold`: what was told last are the totals of the
lines, and a line keeps the price it was started at, the plan's or the store's if
they gave one and the list's otherwise. Each bought line is
rounded twice, so that it is off by a cent at most (`RestIsSmall`), and sums add
that up over any number of lines.
*PriceHistory*: `HistoryIsTrue` from `HistoryHolds`: what is shown is what some
rows within the range come to. A weighted mean, rounded, lies within what was
averaged (`MeanBetween`); the counts of the days are those of the rows, by groups
(`CountsOfDays`); leaving out the odd points is leaving out the rows of their days
(`CalmPointsAre`).
*All together*: `OnlyRaces`, `ShelfIsTyped` and `AnswersHold` state
`OnlyRacesGetPast`, `TypeOK` and `AnswersAreTrue` of the composite, and
`ShelfIsSafe` its other invariants: all of the run's are proved, and `CodesStay`
of its module. The sets that are counted (ids, shops, items, shoppers, lines) are
assumed finite, and that there is a currency; additions and shops of the start
are within the limits.

**AccountProofs**, in five parts, each one inductive invariant.
*Accounts*: `AccountsHold`. `SessionsFit` says what each session and each errand
that will open one rests on: the account's present password, an errand that has
set a newer one and is yet to end the sessions, or being late; the property says
so of sessions alone, which an errand in flight breaks a step later.
`TokensAreOnce` says of each token who holds it: as long as it was never shared
one errand at most does, and once exchanged nobody can again. `CodesHold` bounds
what is sent, guessed and spent by who is about to, of a code read while it held.
*Settings*: `SettingsHold`. Unless two changes of a table met, what a change read
is the row still, so that what it checked, or stamped, is what it saves.
*CategoryTree*: `TreeHolds`. No cycle is a property of every set of categories at
once: a line is put below a category that an earlier line put in its place, and
those lead to the top; a moderator's category is new and has no children. How
far the file stands is told by the lines before the present one, and what is
still to be handed over by `todo`. The walk: what lies under its root is
collected, or lies under its frontier.
*ProductFacts*: `FactsHold`. The turns kept are the last of all that were sent, and
whatever was shifted out is older than a minute, so the limit on the former is
the rate of the latter.
*SourceFeed*: `FeedHolds`. The pages asked are led to, each but the present leads to
another that was asked, and no more were asked than fetched.
`AccountsAreRight`, ... carry them into the composite.

`CommonProofs` holds what the proofs need of a job (every operation keeps
`SoundJob`), of numbers (a set of naturals has a least one and a finite one a
greatest, from the least counterexample, as the library's induction rules cannot
be used; quotients are unique and monotonic) and of sums: what the fold of a
finite set adds up to, one element at a time, is linear, monotone and the sum of
its parts.

## Only model-checked, and why

- Liveness (`EveryChangeIsAnswered`, `CompletionIsAnnounced`,
  `EveryTripContributes`, `EveryRequestIsAnswered`, `EveryMessageSettles`,
  `WaitingPriceIsShown`) and everything that needs ENABLED: beyond TLAPS.
- `DayIsTrue` is proved of whatever weighing yields: that the sums are the weighing
  the code means is a matter of the definition.
- The four findings, which are counterexamples.

## What the exceptions leave out

Six properties make an exception where the code itself gives way, so that part of
their hazard is described and not excluded:

- `DecisionsOutlastImports`: a decision saved while an import holds an older
  reading of its link (`raced`), until the next decision.
- `RunsTellTheTruth`: a day struck by a fault may stay STARTED, with nobody to end
  it until another trigger takes the lease over.
- `DayIsTrue`: a day confirmed or pruned after its run, overlapped or cut off
  (`doubtful`), until a run that started later writes it.
- `StandingIsTrue`: a product whose recounts overlapped, were cut off or met a
  merge (`muddled`).
- `TenthPricePublishes`: a shop pulled, hidden or with a handler that died
  (`delayed`). What is left is that of concurrent handlers one sees them all.
- `OnlyRacesGetPast`: errands, updates and additions that overlap (`late`, `shared`,
  `rushed`, `mixed`, `excused`, `crowded`, `tolerated`, `hurried`). What is left is that nothing else gets
  past.

`CopiesAreBounded` counts copies handed to the provider by a call that returned;
an email the provider takes before the call fails, as on a timeout, is sent again
and is not modelled.

## Assumptions about what is outside

Database transactions are atomic and row locks exclusive. A job's failure is
eventually released: BullMQ evicts by age lazily, when another job of the queue
ends, so this assumes a queue in use. A trip that leaves the 48-hour window
unrecorded is lost, which `EveryTripContributes` says openly. The sweep's batch
of 500 is not in the model of one trip. A version of the price cache is not
reused while an entry under it lives.

## What the models leave room for

Met while modelling, allowed by the properties and covered by no finding:

- *Trips and lists.* A replayed purchase may slide its moment
  (`record-item-progress.use-case.ts:113`). The list may change between the load and the
  start of a trip. The item limit is checked before the insert, positions may
  collide, and a retried addition brings a removed item back.
- *Prices.* A crash between a row and its events loses the events. A concurrent
  double tap without an id is stored twice. Retention may delete a row that was
  confirmed after it was selected. Overlapping aggregations of a day do not
  converge if an observation arrives between them; a later confirmation changes
  what an earlier day would be weighed by
  (`aggregate-daily-prices.use-case.ts:60`); a daily row has no currency in its
  key; a failed fetch of a feed ends its job as done
  (`external-price-sources.queue.ts:40`). A crashed run retried within its lease is
  reported as running. A decision about a link made while an import is under way
  may be written over (`raced`). A person may link a merged product
  (`manage-price-sources.use-case.ts:174` asks only whether it exists), a decision in
  flight may be saved behind the move of a merge's links, and a move that is lost
  leaves links on the merged product: nothing repairs these, and what is imported
  goes on being filed under the product that went.
- *Plans.* A fuller plan with more stores is refused by the limit on savings,
  although coverage comes first elsewhere (`constraints.ts:68`); savings are
  shared out per stop, so a third stop that saves a cent may pass; so a way of
  buying that leaves out what one of its stores sells may keep a limit that the
  plan of those stores does not keep. The candidate cap (`optimizer.ts:22`) may drop
  the only seller of a product. Going to the nearest stop first, a drive past
  fewer stops may be longer (`travel.ts:49`: at 2, 4, -3 and 8 km along a street it
  is 22 km, without the second 26 km), and a store at which nothing is bought is
  dropped before the drive is measured.
- *Shops around a point.* The box is 0.11 % smaller than the circle
  (`geo.ts:46`: 111.32 against 111.195 km a degree). Candidates are cut to four
  times the limit, unordered, before distance is looked at
  (`find-nearby-stores.use-case.ts:42`); falls are cut before the smallest are
  filtered out, and look at whether a product is active but not at its moderation.
- *History.* A range of too many rows loses its latest days; the choice of
  currency depends on the order of rows where two are as frequent.
- *Accounts.* A session opened from a password read before it was changed, or by
  an exchange under way while the sessions are ended, outlives the change
  (`account-security.use-case.ts:29`); a death between the new password and the end
  of the sessions leaves them all (`password-reset.use-case.ts:76`). Two exchanges
  of one token at once both get a pair, without the alarm that a later one
  raises; two resets at once both set a password with one code. An access token
  is not looked up, so it works until it lapses, and an erased account's
  settings may be written again.
- *Settings.* Two updates that each give half a place store half of one, or a
  place neither gave. Quiet hours with one end only are accepted, though the
  comment above says "Both or neither"
  (`notification-preferences.use-case.ts:60`).
- *Categories.* A category a moderator adds that the file lacks is retired by the
  next deploy; a replaced category keeps its children; products may be filed
  under a retired one.
- *Feeds and lookups.* A feed longer than `maxPages` is cut without notice, and a
  price that is a blank text is read as 0 (`json-http.adapter.ts`). The limit of
  requests to Open Food Facts is counted in each process.
- *Catalog.* Two creations of one barcode both succeed, the second without its
  code; a creation cut off before its codes is answered, when retried, without
  them; twins beyond the twentieth product of a name are not seen; a refused shop
  may leave its new chain; codes added to a product that is merged meanwhile stay
  on it. A product merged and then restored may be merged again. A restored
  shop with enough priced products stays private until the next price. Two
  overlapping additions may leave two primary codes (not modelled).

## Not modelled, and what is left

Security, load tests, seeds and migrations (library calls and tooling); the views of a trip, searches, the team's queues and DTOs (reads and
formatting); `sortItems`, confidence levels and the clean-up after a merge; the
sphere, which `NearbyStores` flattens; the sweep over many trips with its batch of 500.

Every safety and action property of the passing runs is stated by a theorem; what
is left to TLC alone is liveness.
