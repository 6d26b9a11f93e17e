----------------------------- MODULE DerivedPrice -----------------------------
(***************************************************************************)
(* The current price of one product at one store: the observations it is   *)
(* derived from, the recompute job their events queue, the runs of that    *)
(* job, the price drop kept beside the price, and the cached comparisons   *)
(* readers fill and a version invalidates.                                 *)
(*                                                                         *)
(* How observations weigh is a pure function; all that matters here is the *)
(* price they currently yield, which an arrival changes with an event and  *)
(* age changes without one.                                                *)
(***************************************************************************)
EXTENDS BullJob

CONSTANTS
    Readers,     \* concurrent comparisons of the product
    Prices,      \* prices the observations may yield, in cents
    MaxArrivals, \* bound on the observations that arrive
    MaxAgeing,   \* bound on the price moving by age alone
    MaxFaults    \* bound on failures

NoPrice == 0

ASSUME PriceAssumption ==
    /\ Prices \subseteq Nat \ {NoPrice}
    /\ MaxArrivals \in Nat /\ MaxAgeing \in Nat /\ MaxFaults \in Nat

VARIABLES
    yield,      \* the price of the observations in the window
    heard,      \* observation events whose handler has yet to run
    job,        \* the job recompute-price-<product>-<store>
    worker,     \* executions of RecomputeDerivedPriceUseCase
    row,        \* derived_prices
    drop,       \* price_drops
    told,       \* the price DerivedPriceUpdated last announced
    version,    \* prices:<product>:version in Redis
    cache,      \* cached comparisons, under the version in their key
    unversioned,\* the comparison under the namespace of a Redis failure
    reader,     \* comparisons in flight
    stale,      \* a failure lost an invalidation, and none has succeeded since
    struck,     \* a run failed, died or lost its lock
    arrivals, ageing, faults

vars == <<yield, heard, job, worker, row, drop, told, version, cache, unversioned,
          reader, stale, struck, arrivals, ageing, faults>>

Price == Prices \cup {NoPrice}

\* The drop from a price, to a price, within PRICE_DROP_WINDOW_DAYS or not.
NoDrop == [from |-> NoPrice, to |-> NoPrice, recent |-> FALSE]
Drop == [from : Prices, to : Prices, recent : BOOLEAN] \cup {NoDrop}

Resting == [pc |-> "idle", computed |-> NoPrice, existing |-> NoPrice, current |-> NoDrop]
Browsing == [pc |-> "idle", fails |-> FALSE, version |-> 0, price |-> NoPrice]

TypeOK ==
    /\ yield \in Price /\ row \in Price /\ told \in Price
    /\ heard \in 0 .. MaxArrivals
    /\ job \in Job
    /\ worker \in [Workers ->
         [pc : {"idle", "window", "existing", "remove", "removeDrop", "upsert", "invalidate",
                "findDrop", "saveDrop", "publish", "return"},
          computed : Price, existing : Price, current : Drop]]
    /\ drop \in Drop
    /\ version \in Nat
    /\ cache \subseteq [version : 0 .. version, price : Price]
    /\ unversioned \subseteq Price
    /\ reader \in [Readers -> [pc : {"idle", "get", "rows", "set", "hit"}, fails : BOOLEAN,
                               version : 0 .. version, price : Price]]
    /\ stale \in BOOLEAN /\ struck \in BOOLEAN
    /\ arrivals \in 0 .. MaxArrivals /\ ageing \in 0 .. MaxAgeing /\ faults \in 0 .. MaxFaults

Init ==
    /\ yield = NoPrice /\ row = NoPrice /\ told = NoPrice
    /\ heard = 0
    /\ job = NoJob
    /\ worker = [w \in Workers |-> Resting]
    /\ drop = NoDrop
    /\ version = 0
    /\ cache = {} /\ unversioned = {}
    /\ reader = [r \in Readers |-> Browsing]
    /\ stale = FALSE /\ struck = FALSE
    /\ arrivals = MaxArrivals /\ ageing = MaxAgeing /\ faults = MaxFaults

Spend == faults > 0 /\ faults' = faults - 1

caching == <<version, cache, unversioned, reader>>
outside == <<yield, heard, arrivals, ageing>>

-----------------------------------------------------------------------------
(***************************************************************************)
(* Observations, and the events that queue the job.                        *)
(***************************************************************************)
\* A flagged observation counts for nothing until others corroborate it.
Arrive(p) ==
    /\ arrivals > 0
    /\ arrivals' = arrivals - 1
    /\ yield' = p
    /\ heard' = heard + 1
    /\ UNCHANGED <<job, worker, row, drop, told, caching, stale, struck, ageing, faults>>

\* Observations lose weight, leave the window or are pruned.
Age(p) ==
    /\ ageing > 0 /\ yield # NoPrice
    /\ ageing' = ageing - 1
    /\ yield' = p
    /\ UNCHANGED <<heard, job, worker, row, drop, told, caching, stale, struck, arrivals, faults>>

\* ObservationAcceptedListener.
EnqueueRecompute ==
    /\ heard > 0
    /\ heard' = heard - 1
    /\ job' = Added(job)
    /\ UNCHANGED <<yield, worker, row, drop, told, caching, stale, struck, arrivals, ageing, faults>>

LoseEvent ==
    /\ heard > 0 /\ Spend
    /\ heard' = heard - 1
    /\ UNCHANGED <<yield, job, worker, row, drop, told, caching, stale, struck, arrivals, ageing>>

-----------------------------------------------------------------------------
(***************************************************************************)
(* RecomputeDerivedPriceUseCase.                                           *)
(***************************************************************************)
Go(w, pc) == worker' = [worker EXCEPT ![w].pc = pc]

Take(w) ==
    /\ job.state = "waiting" /\ worker[w].pc = "idle"
    /\ job' = Taken(job, w)
    /\ Go(w, "window")
    /\ UNCHANGED <<outside, row, drop, told, caching, stale, struck, faults>>

ReadWindow(w) ==
    /\ worker[w].pc = "window"
    /\ worker' = [worker EXCEPT ![w].pc = "existing", ![w].computed = yield]
    /\ UNCHANGED <<outside, job, row, drop, told, caching, stale, struck, faults>>

\* A price that exists already is taken as done.
ReadExistingOnce(w) ==
    /\ worker[w].pc = "existing"
    /\ worker' = [worker EXCEPT ![w].existing = row,
         ![w].pc = IF row # NoPrice THEN "return"
                   ELSE IF worker[w].computed # NoPrice THEN "upsert" ELSE "return"]
    /\ UNCHANGED <<outside, job, row, drop, told, caching, stale, struck, faults>>

ReadExisting(w) ==
    /\ worker[w].pc = "existing"
    /\ worker' = [worker EXCEPT ![w].existing = row,
         ![w].pc = IF worker[w].computed # NoPrice THEN "upsert"
                   ELSE IF row # NoPrice THEN "remove" ELSE "return"]
    /\ UNCHANGED <<outside, job, row, drop, told, caching, stale, struck, faults>>

Remove(w) ==
    /\ worker[w].pc = "remove"
    /\ row' = NoPrice
    /\ Go(w, "removeDrop")
    /\ UNCHANGED <<outside, job, drop, told, caching, stale, struck, faults>>

RemoveDrop(w) ==
    /\ worker[w].pc = "removeDrop"
    /\ drop' = NoDrop
    /\ Go(w, "invalidate")
    /\ UNCHANGED <<outside, job, row, told, caching, stale, struck, faults>>

Upsert(w) ==
    /\ worker[w].pc = "upsert"
    /\ row' = worker[w].computed
    /\ Go(w, "invalidate")
    /\ UNCHANGED <<outside, job, drop, told, caching, stale, struck, faults>>

\* Only a rise or a first price is news.
ChangedUpwards(run) == run.computed > run.existing

\* Whether a run found the price changed, after it was stored.
Changed(run) == run.computed # NoPrice /\ run.computed # run.existing

AfterInvalidate(w) == IF Changed(worker[w]) THEN "findDrop" ELSE "return"

\* INCR: the entries under the old version are never read again.
Invalidate(w) ==
    /\ worker[w].pc = "invalidate"
    /\ version' = version + 1
    /\ stale' = FALSE
    /\ Go(w, AfterInvalidate(w))
    /\ UNCHANGED <<outside, job, row, drop, told, cache, unversioned, reader, struck, faults>>

\* Redis fails, and the run carries on.
InvalidateFails(w) ==
    /\ worker[w].pc = "invalidate" /\ Spend
    /\ stale' = TRUE
    /\ Go(w, AfterInvalidate(w))
    /\ UNCHANGED <<outside, job, row, drop, told, caching, struck>>

\* A live drop the price has partly recovered from is left as it was.
NextDropKept(current, from, to) ==
    IF from = NoPrice THEN NoDrop
    ELSE IF to < from
    THEN [from |-> IF current.recent /\ current.from > from THEN current.from ELSE from,
          to |-> to, recent |-> TRUE]
    ELSE IF current.recent /\ to < current.from THEN current ELSE NoDrop

\* nextPriceDrop: falls within the window merge, and a rise ends the drop once
\* the price is back where it began.
NextDrop(current, from, to) ==
    IF from = NoPrice THEN NoDrop
    ELSE IF to < from
    THEN [from |-> IF current.recent /\ current.from > from THEN current.from ELSE from,
          to |-> to, recent |-> TRUE]
    ELSE IF current.recent /\ to < current.from THEN [current EXCEPT !.to = to] ELSE NoDrop

FindDrop(w) ==
    /\ worker[w].pc = "findDrop"
    /\ worker' = [worker EXCEPT ![w].pc = "saveDrop", ![w].current = drop]
    /\ UNCHANGED <<outside, job, row, drop, told, caching, stale, struck, faults>>

SaveDrop(w) ==
    LET next == NextDrop(worker[w].current, worker[w].existing, worker[w].computed) IN
    /\ worker[w].pc = "saveDrop"
    /\ drop' = IF next # NoDrop \/ worker[w].current # NoDrop THEN next ELSE drop
    /\ Go(w, "publish")
    /\ UNCHANGED <<outside, job, row, told, caching, stale, struck, faults>>

Publish(w) ==
    /\ worker[w].pc = "publish"
    /\ told' = worker[w].computed
    /\ Go(w, "return")
    /\ UNCHANGED <<outside, job, row, drop, caching, stale, struck, faults>>

FinishJob(w) ==
    /\ worker[w].pc = "return"
    /\ job' = Done(job, w)
    /\ worker' = [worker EXCEPT ![w] = Resting]
    /\ UNCHANGED <<outside, row, drop, told, caching, stale, struck, faults>>

-----------------------------------------------------------------------------
(***************************************************************************)
(* Failures.                                                               *)
(***************************************************************************)
\* A run that has changed the row and not yet invalidated the cache.
Owes(w) == worker[w].pc \in {"removeDrop", "invalidate"}

\* A database call fails and changes nothing; the job retries.
Throw(w) ==
    /\ worker[w].pc \in {"window", "existing", "remove", "removeDrop", "upsert", "findDrop", "saveDrop"}
    /\ Spend
    /\ stale' = (stale \/ Owes(w))
    /\ job' = Threw(job, w)
    /\ worker' = [worker EXCEPT ![w] = Resting]
    /\ struck' = TRUE
    /\ UNCHANGED <<outside, row, drop, told, caching>>

\* The price is written or removed and the acknowledgement lost.
ThrowAfterCommit(w) ==
    /\ worker[w].pc \in {"remove", "upsert"} /\ Spend
    /\ row' = worker[w].computed
    /\ stale' = TRUE
    /\ job' = Threw(job, w)
    /\ worker' = [worker EXCEPT ![w] = Resting]
    /\ struck' = TRUE
    /\ UNCHANGED <<outside, drop, told, caching>>

Die(w) ==
    /\ worker[w].pc # "idle" /\ Spend
    /\ stale' = (stale \/ Owes(w))
    /\ worker' = [worker EXCEPT ![w] = Resting]
    /\ struck' = TRUE
    /\ UNCHANGED <<outside, job, row, drop, told, caching>>

FindStalled ==
    /\ job.state = "active" /\ worker[job.holder].pc = "idle"
    /\ job' = Stalled(job)
    /\ UNCHANGED <<outside, worker, row, drop, told, caching, stale, struck, faults>>

LoseLock ==
    /\ job.state = "active" /\ worker[job.holder].pc # "idle" /\ Spend
    /\ job' = Stalled(job)
    /\ struck' = TRUE
    /\ UNCHANGED <<outside, worker, row, drop, told, caching, stale>>

ReleaseFailed ==
    /\ job.state = "failed"
    /\ job' = NoJob
    /\ UNCHANGED <<outside, worker, row, drop, told, caching, stale, struck, faults>>

-----------------------------------------------------------------------------
(***************************************************************************)
(* ComparePricesUseCase.                                                   *)
(***************************************************************************)
derived == <<outside, job, worker, row, drop, told, version, stale, struck>>

\* A reader that holds its key.
Looking(v, fails) == [pc |-> "get", fails |-> fails, version |-> v, price |-> NoPrice]

\* A comparison starts with the product's namespace.
Compare(r) ==
    /\ reader[r].pc = "idle"
    /\ reader' = [reader EXCEPT ![r] = Looking(version, FALSE)]
    /\ UNCHANGED <<derived, cache, unversioned, faults>>

\* Redis does not answer, and the namespace is the one without a version.
CompareUnversioned(r) ==
    /\ reader[r].pc = "idle" /\ Spend
    /\ reader' = [reader EXCEPT ![r] = Looking(0, TRUE)]
    /\ UNCHANGED <<derived, cache, unversioned>>

\* The entries a reader's key may name.
Entries(r) ==
    IF reader[r].fails THEN unversioned
    ELSE {e.price : e \in {c \in cache : c.version = reader[r].version}}

Get(r) ==
    /\ reader[r].pc = "get"
    /\ \/ \E p \in Entries(r) : reader' = [reader EXCEPT ![r].pc = "hit", ![r].price = p]
       \/ Entries(r) = {} /\ reader' = [reader EXCEPT ![r].pc = "rows"]
    /\ UNCHANGED <<derived, cache, unversioned, faults>>

GetFails(r) ==
    /\ reader[r].pc = "get" /\ Spend
    /\ reader' = [reader EXCEPT ![r].pc = "rows"]
    /\ UNCHANGED <<derived, cache, unversioned>>

ReadRows(r) ==
    /\ reader[r].pc = "rows"
    /\ reader' = [reader EXCEPT ![r].pc = "set", ![r].price = row]
    /\ UNCHANGED <<derived, cache, unversioned, faults>>

\* The version looked up again for the write.
SetUnderNewVersion(r) ==
    /\ reader[r].pc = "set"
    /\ cache' = {e \in cache : e.version # version}
                   \cup {[version |-> version, price |-> reader[r].price]}
    /\ reader' = [reader EXCEPT ![r] = Browsing]
    /\ UNCHANGED <<derived, unversioned, faults>>

\* The answer is cached under the key it was looked for.
Set(r) ==
    /\ reader[r].pc = "set"
    /\ IF reader[r].fails
       THEN unversioned' = {reader[r].price} /\ UNCHANGED cache
       ELSE /\ cache' = {e \in cache : e.version # reader[r].version}
                          \cup {[version |-> reader[r].version, price |-> reader[r].price]}
            /\ UNCHANGED unversioned
    /\ reader' = [reader EXCEPT ![r] = Browsing]
    /\ UNCHANGED <<derived, faults>>

\* The answer is sent, cached or not, or the reader is gone.
Answer(r) ==
    /\ reader[r].pc # "idle"
    /\ reader' = [reader EXCEPT ![r] = Browsing]
    /\ UNCHANGED <<derived, cache, unversioned, faults>>

\* COMPARISON_CACHE_TTL_SECONDS.
ExpireEntries ==
    /\ cache # {} \/ unversioned # {}
    /\ cache' \in SUBSET cache
    /\ unversioned' \in SUBSET unversioned
    /\ UNCHANGED <<derived, reader, faults>>

\* The drop is no longer news.
ForgetDrop ==
    /\ drop.recent
    /\ drop' = [drop EXCEPT !.recent = FALSE]
    /\ UNCHANGED <<outside, job, worker, row, told, caching, stale, struck, faults>>

-----------------------------------------------------------------------------
WorkerStep(w) ==
    \/ ReadWindow(w) \/ ReadExisting(w) \/ Remove(w) \/ RemoveDrop(w) \/ Upsert(w)
    \/ Invalidate(w) \/ FindDrop(w) \/ SaveDrop(w) \/ Publish(w) \/ FinishJob(w)
WorkerFault(w) == InvalidateFails(w) \/ Throw(w) \/ ThrowAfterCommit(w) \/ Die(w)
ReaderStep(r) ==
    Compare(r) \/ CompareUnversioned(r) \/ Get(r) \/ GetFails(r) \/ ReadRows(r) \/ Set(r) \/ Answer(r)

Next ==
    \/ \E p \in Price : Arrive(p) \/ Age(p)
    \/ EnqueueRecompute \/ LoseEvent
    \/ FindStalled \/ LoseLock \/ ReleaseFailed
    \/ ExpireEntries \/ ForgetDrop
    \/ \E w \in Workers : Take(w) \/ WorkerStep(w) \/ WorkerFault(w)
    \/ \E r \in Readers : ReaderStep(r)

Spec == Init /\ [][Next]_vars

\* Handlers run, the queue hands out, recovers and releases the job, and a
\* worker keeps working.  Nothing makes an observation arrive.
FairSpec ==
    /\ Spec
    /\ WF_vars(EnqueueRecompute)
    /\ WF_vars(FindStalled) /\ WF_vars(ReleaseFailed)
    /\ WF_vars(\E w \in Workers : Take(w))
    /\ \A w \in Workers : WF_vars(WorkerStep(w))

(***************************************************************************)
(* Properties.                                                             *)
(***************************************************************************)
\* compare-prices.use-case.ts:57: a recompute bumps the version, so a new
\* price shows up immediately.  What readers find under the current version,
\* or are about to put there, is what the row says, unless a run that changed
\* the row is about to invalidate it or an invalidation was lost.
CacheIsCurrent ==
    stale \/ (\E w \in Workers : Owes(w)) \/
        /\ \A e \in cache : e.version = version => e.price = row
        /\ \A r \in Readers :
              reader[r].pc = "set" /\ ~reader[r].fails /\ reader[r].version = version
                 => reader[r].price = row

Quiet == \A w \in Workers : worker[w].pc = "idle"

DropEndsAtPrice == drop = NoDrop \/ (drop.to = row /\ drop.to < drop.from)

\* recompute-derived-price.use-case.ts:45: recomputing is idempotent, retried
\* jobs are harmless, and it keeps the price drop in step with the price.  When
\* the job and every retry of it are over, a drop of a price that is shown ends
\* at that price.
DropInStep ==
    Quiet /\ job.state = "none" /\ row # NoPrice => DropEndsAtPrice

\* Between runs none of which failed, the price last announced to the alerts
\* is the current one, and a drop ends at it: no sequence of falls, rises,
\* expiries and removals brings the three records apart.
RecordsAgree ==
    Quiet /\ ~struck => DropEndsAtPrice /\ (row # NoPrice => told = row)

\* A price waiting to be recomputed is shown, unless the observations move on
\* without an event or the attempts are spent.
WaitingPriceIsShown ==
    \A p \in Prices :
        (job.state = "waiting" /\ yield = p) ~> (row = p \/ yield # p \/ job.state = "failed")

\* observation-accepted.listener.ts:12 keeps derived prices current as
\* observations arrive.  An event that meets the running job is dropped with
\* its jobId, after the run has read the window.
PriceFollowsObservations ==
    \A p \in Prices : (heard > 0 /\ yield = p) ~> (row = p \/ yield # p)
=============================================================================
