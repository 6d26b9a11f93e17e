--------------------------- MODULE TripContribution ---------------------------
(***************************************************************************)
(* How one completed trip becomes price observations: the completion       *)
(* event, the job it queues, the workers that run the job, the ledger      *)
(* that says the trip is done, and the sweep that finds trips whose event  *)
(* was lost.                                                               *)
(*                                                                         *)
(* The trip lives in core_db, observations and ledger in pricing_db and    *)
(* the job in Redis: no transaction spans them, so every await is a step,  *)
(* and a worker may throw, die or lose its lock between any two.           *)
(***************************************************************************)
EXTENDS BullJob, FiniteSets

CONSTANTS
    LineCount,  \* lines of the trip
    MaxFaults   \* bound on outages, deaths and lost locks

ASSUME ContributionAssumption == LineCount \in Nat /\ MaxFaults \in Nat

Lines == 1 .. LineCount

VARIABLES
    kind,       \* what each line of the trip is
    trip,       \* the trip, as completion, erasure and its age leave it
    event,      \* the ShoppingSessionCompleted event
    job,        \* the job record-session-purchases-<trip>
    worker,     \* executions of RecordSessionPurchasesUseCase
    sweep,      \* where the running reconciliation is
    observed,   \* lines with a row in price_observations
    announced,  \* PriceObservationCreated events published for each line
    missed,     \* lines whose worker failed between the row and the event
    ledger,     \* the trip's row in session_contributions
    faults      \* faults left

vars == <<kind, trip, event, job, worker, sweep, observed, announced, missed,
          ledger, faults>>

\* A line left on the shelf, bought without a price or a store, bought at a
\* price the pipeline refuses, or bought at a price it stores.
Kind == {"left", "unpriced", "refused", "priced"}

\* An open trip, a trip completed less than RECONCILE_GRACE ago, one inside
\* the sweep's window, one past RECONCILE_LOOKBACK, an erased one.
Trip == {"open", "fresh", "sweepable", "beyond", "gone"}
Completed == {"fresh", "sweepable", "beyond"}

NoEntry == [recorded |-> FALSE, observations |-> 0, skipped |-> 0]

Resting == [pc |-> "idle", at |-> 0, observations |-> 0, skipped |-> 0]

LinesOf(k) == {l \in Lines : kind[l] = k}

TypeOK ==
    /\ kind \in [Lines -> Kind]
    /\ trip \in Trip
    /\ event \in {"none", "pending", "spent"}
    /\ job \in Job
    /\ worker \in [Workers ->
                     [pc : {"idle", "ledger", "load", "line", "create", "announce", "record", "return"},
                      at : 0 .. LineCount + 1,
                      observations : 0 .. LineCount,
                      skipped : 0 .. LineCount]]
    /\ sweep \in {"idle", "filter", "enqueue"}
    /\ observed \subseteq Lines
    /\ announced \in [Lines -> Nat]
    /\ missed \subseteq Lines
    /\ ledger \in [recorded : BOOLEAN, observations : 0 .. LineCount, skipped : 0 .. LineCount]
    /\ faults \in 0 .. MaxFaults

Init ==
    /\ kind \in [Lines -> Kind]
    /\ trip = "open"
    /\ event = "none"
    /\ job = NoJob
    /\ worker = [w \in Workers |-> Resting]
    /\ sweep = "idle"
    /\ observed = {}
    /\ announced = [l \in Lines |-> 0]
    /\ missed = {}
    /\ ledger = NoEntry
    /\ faults = MaxFaults

pipeline == <<observed, announced, missed, ledger>>

-----------------------------------------------------------------------------
(***************************************************************************)
(* The trip and its event.                                                 *)
(***************************************************************************)
Complete ==
    /\ trip = "open"
    /\ trip' = "fresh"
    /\ event' = "pending"
    /\ UNCHANGED <<kind, job, worker, sweep, pipeline, faults>>

\* SessionCompletedListener: the event only queues the job.
QueueTrip ==
    /\ event = "pending"
    /\ event' = "spent"
    /\ job' = Added(job)
    /\ UNCHANGED <<kind, trip, worker, sweep, pipeline, faults>>

\* A purchase grows too old to be a price, and is refused from then on, even
\* where it is stored already.
Outdate(l) ==
    /\ kind[l] = "priced"
    /\ kind' = [kind EXCEPT ![l] = "refused"]
    /\ UNCHANGED <<trip, event, job, worker, sweep, pipeline, faults>>

\* The process died before publishing, or Redis refused the job and the bus
\* logged the handler's failure.
LoseEvent ==
    /\ event = "pending" /\ faults > 0
    /\ event' = "spent"
    /\ faults' = faults - 1
    /\ UNCHANGED <<kind, trip, job, worker, sweep, pipeline>>

ComeOfAge ==
    /\ trip = "fresh"
    /\ trip' = "sweepable"
    /\ UNCHANGED <<kind, event, job, worker, sweep, pipeline, faults>>

Expire ==
    /\ trip = "sweepable"
    /\ trip' = "beyond"
    /\ UNCHANGED <<kind, event, job, worker, sweep, pipeline, faults>>

\* The owner's account is erased, trips and all.
Erase ==
    /\ trip \in Completed
    /\ trip' = "gone"
    /\ UNCHANGED <<kind, event, job, worker, sweep, pipeline, faults>>

-----------------------------------------------------------------------------
(***************************************************************************)
(* ReconcileSessionContributionsUseCase, every ten minutes.                *)
(***************************************************************************)
\* The window read from the wrong end.
SweepListTooSoon ==
    /\ sweep = "idle"
    /\ trip = "fresh"
    /\ sweep' = "filter"
    /\ UNCHANGED <<kind, trip, event, job, worker, pipeline, faults>>

\* Trips completed inside the window are listed.
SweepList ==
    /\ sweep = "idle"
    /\ trip = "sweepable"
    /\ sweep' = "filter"
    /\ UNCHANGED <<kind, trip, event, job, worker, pipeline, faults>>

SweepFilter ==
    /\ sweep = "filter"
    /\ sweep' = IF ledger.recorded THEN "idle" ELSE "enqueue"
    /\ UNCHANGED <<kind, trip, event, job, worker, pipeline, faults>>

SweepEnqueue ==
    /\ sweep = "enqueue"
    /\ job' = Added(job)
    /\ sweep' = "idle"
    /\ UNCHANGED <<kind, trip, event, worker, pipeline, faults>>

SweepDies ==
    /\ sweep # "idle" /\ faults > 0
    /\ sweep' = "idle"
    /\ faults' = faults - 1
    /\ UNCHANGED <<kind, trip, event, job, worker, pipeline>>

-----------------------------------------------------------------------------
(***************************************************************************)
(* RecordSessionPurchasesUseCase, one run per Take.                        *)
(***************************************************************************)
Step(w, pc) == worker' = [worker EXCEPT ![w].pc = pc]

\* The run returns and its job goes with it.
Return(w) ==
    /\ worker' = [worker EXCEPT ![w] = Resting]
    /\ job' = Done(job, w)

Take(w) ==
    /\ job.state = "waiting"
    /\ worker[w].pc = "idle"
    /\ job' = Taken(job, w)
    /\ Step(w, "ledger")
    /\ UNCHANGED <<kind, trip, event, sweep, pipeline, faults>>

CheckLedger(w) ==
    /\ worker[w].pc = "ledger"
    /\ \/ ledger.recorded /\ Return(w)
       \/ ~ledger.recorded /\ Step(w, "load") /\ UNCHANGED job
    /\ UNCHANGED <<kind, trip, event, sweep, pipeline, faults>>

LoadTrip(w) ==
    /\ worker[w].pc = "load"
    /\ \/ trip \notin Completed /\ Return(w)
       \/ /\ trip \in Completed
          /\ worker' = [worker EXCEPT ![w] = [@ EXCEPT !.pc = "line", !.at = 1]]
          /\ UNCHANGED job
    /\ UNCHANGED <<kind, trip, event, sweep, pipeline, faults>>

\* The line is counted and the next one is up.
CountObservation(run) ==
    [run EXCEPT !.pc = "line", !.at = @ + 1, !.observations = @ + 1]
PassLine(run) == [run EXCEPT !.at = @ + 1]
CountSkip(run) == [run EXCEPT !.pc = "line", !.at = @ + 1, !.skipped = @ + 1]

\* Ingest, up to the replay check: an implausible price is refused, and a
\* line that has its row already is counted without another.
NextLine(w) ==
    LET at == worker[w].at IN
    /\ worker[w].pc = "line"
    /\ worker' = [worker EXCEPT ![w] =
         IF at > LineCount THEN [@ EXCEPT !.pc = "record"]
         ELSE IF kind[at] = "left" THEN PassLine(@)
         ELSE IF kind[at] \in {"unpriced", "refused"} THEN CountSkip(@)
         ELSE IF at \in observed THEN CountObservation(@)
         ELSE [@ EXCEPT !.pc = "create"]]
    /\ UNCHANGED <<kind, trip, event, job, sweep, pipeline, faults>>

\* The insert without its unique key.
CreateAgain(w) ==
    /\ worker[w].pc = "create"
    /\ observed' = observed \cup {worker[w].at}
    /\ Step(w, "announce")
    /\ UNCHANGED <<kind, trip, event, job, sweep, announced, missed, ledger, faults>>

\* The insert.  The unique dedupe key turns a row another run stored since
\* the replay check into a replay, which publishes nothing.
Create(w) ==
    LET at == worker[w].at IN
    /\ worker[w].pc = "create"
    /\ \/ /\ at \in observed
          /\ worker' = [worker EXCEPT ![w] = CountObservation(@)]
          /\ UNCHANGED observed
       \/ /\ at \notin observed
          /\ observed' = observed \cup {at}
          /\ Step(w, "announce")
    /\ UNCHANGED <<kind, trip, event, job, sweep, announced, missed, ledger, faults>>

Announce(w) ==
    LET at == worker[w].at IN
    /\ worker[w].pc = "announce"
    /\ announced' = [announced EXCEPT ![at] = @ + 1]
    /\ worker' = [worker EXCEPT ![w] = CountObservation(@)]
    /\ UNCHANGED <<kind, trip, event, job, sweep, observed, missed, ledger, faults>>

\* The entry is written once; a later run leaves it as it is.
Record(w) ==
    /\ worker[w].pc = "record"
    /\ ledger' = IF ledger.recorded THEN ledger
                 ELSE [recorded     |-> TRUE,
                       observations |-> worker[w].observations,
                       skipped      |-> worker[w].skipped]
    /\ Step(w, "return")
    /\ UNCHANGED <<kind, trip, event, job, sweep, observed, announced, missed, faults>>

\* The job is done and removed.
FinishJob(w) ==
    /\ worker[w].pc = "return"
    /\ Return(w)
    /\ UNCHANGED <<kind, trip, event, sweep, pipeline, faults>>

\* An outage counted as a refusal.
ThrowSkips(w) ==
    /\ worker[w].pc = "create" /\ faults > 0
    /\ worker' = [worker EXCEPT ![w] = CountSkip(@)]
    /\ faults' = faults - 1
    /\ UNCHANGED <<kind, trip, event, job, sweep, pipeline>>

\* A call fails, or its answer is lost: anything but a refusal leaves the
\* loop, and the job retries.
Throw(w) ==
    /\ worker[w].pc \notin {"idle", "announce"} /\ faults > 0
    /\ job' = Threw(job, w)
    /\ worker' = [worker EXCEPT ![w] = Resting]
    /\ faults' = faults - 1
    /\ UNCHANGED <<kind, trip, event, sweep, pipeline>>

\* The insert commits but its answer is lost.
ThrowAfterCommit(w) ==
    /\ worker[w].pc = "create" /\ faults > 0
    /\ worker[w].at \notin observed
    /\ observed' = observed \cup {worker[w].at}
    /\ missed' = missed \cup {worker[w].at}
    /\ job' = Threw(job, w)
    /\ worker' = [worker EXCEPT ![w] = Resting]
    /\ faults' = faults - 1
    /\ UNCHANGED <<kind, trip, event, sweep, announced, ledger>>

\* The process dies; its job stays active until it is found stalled.
Die(w) ==
    /\ worker[w].pc # "idle" /\ faults > 0
    /\ missed' = IF worker[w].pc = "announce" THEN missed \cup {worker[w].at} ELSE missed
    /\ worker' = [worker EXCEPT ![w] = Resting]
    /\ faults' = faults - 1
    /\ UNCHANGED <<kind, trip, event, job, sweep, observed, announced, ledger>>

-----------------------------------------------------------------------------
(***************************************************************************)
(* The queue's own moves.                                                  *)
(***************************************************************************)
\* A dead worker's job is found stalled.
FindStalled ==
    /\ job.state = "active"
    /\ worker[job.holder].pc = "idle"
    /\ job' = Stalled(job)
    /\ UNCHANGED <<kind, trip, event, worker, sweep, pipeline, faults>>

\* A worker too slow to renew its lock loses the job and works on.
LoseLock ==
    /\ job.state = "active" /\ faults > 0
    /\ worker[job.holder].pc # "idle"
    /\ job' = Stalled(job)
    /\ faults' = faults - 1
    /\ UNCHANGED <<kind, trip, event, worker, sweep, pipeline>>

ReleaseFailed ==
    /\ job.state = "failed"
    /\ job' = NoJob
    /\ UNCHANGED <<kind, trip, event, worker, sweep, pipeline, faults>>

-----------------------------------------------------------------------------
SweepStep == SweepList \/ SweepFilter \/ SweepEnqueue
WorkerStep(w) ==
    \/ CheckLedger(w) \/ LoadTrip(w) \/ NextLine(w) \/ Create(w) \/ Announce(w)
    \/ Record(w) \/ FinishJob(w)

Next ==
    \/ Complete \/ QueueTrip \/ LoseEvent \/ ComeOfAge \/ Expire \/ Erase
    \/ \E l \in Lines : Outdate(l)
    \/ SweepStep \/ SweepDies
    \/ FindStalled \/ LoseLock \/ ReleaseFailed
    \/ \E w \in Workers : Take(w) \/ WorkerStep(w) \/ Throw(w) \/ ThrowAfterCommit(w) \/ Die(w)

Spec == Init /\ [][Next]_vars

\* Time passes, the sweep runs on its schedule, the queue hands out, recovers
\* and releases jobs, and a worker keeps working.  Nothing makes a shopper
\* finish a trip, and nothing keeps a trip inside the sweep's window.
FairSpec ==
    /\ Spec
    /\ WF_vars(QueueTrip) /\ WF_vars(ComeOfAge)
    /\ WF_vars(SweepStep)
    /\ WF_vars(FindStalled) /\ WF_vars(ReleaseFailed)
    /\ WF_vars(\E w \in Workers : Take(w))
    /\ \A w \in Workers : WF_vars(WorkerStep(w))

(***************************************************************************)
(* Properties.                                                             *)
(***************************************************************************)
\* The ledger entry that makes later runs a no-op is only ever written over a
\* trip whose every priced purchase has its observation, and it counts them
\* truly: a run that met an outage, died or ran twice never closes the books
\* on a line it missed (record-session-purchases.use-case.ts:23-26).  Only a
\* line that grew too old between two runs may be stored and counted skipped.
LedgerIsTrue ==
    ledger.recorded =>
        /\ LinesOf("priced") \subseteq observed
        /\ ledger.observations \in Cardinality(LinesOf("priced")) .. Cardinality(observed)
        /\ ledger.observations + ledger.skipped = Cardinality(Lines \ LinesOf("left"))

\* The runs about to announce a line.
Pending(l) == {w \in Workers : worker[w].pc = "announce" /\ worker[w].at = l}

\* Every stored observation is announced exactly once, or is about to be by
\* the one run that stored it, or was cut off from its event by a fault:
\* retries and overlapping runs neither repeat an announcement nor drop one.
AnnouncedOnce ==
    \A l \in Lines :
        IF l \in observed
        THEN \/ announced[l] = 1 /\ l \notin missed /\ Pending(l) = {}
             \/ announced[l] = 0 /\ l \in missed /\ Pending(l) = {}
             \/ announced[l] = 0 /\ l \notin missed /\ \E w \in Workers : Pending(l) = {w}
        ELSE announced[l] = 0 /\ l \notin missed /\ Pending(l) = {}

\* README.md:241: a lost event delays a contribution, it never drops it.  A
\* completed trip is recorded, unless its owner erases it or it leaves the
\* sweep's window first.
EveryTripContributes ==
    trip \in Completed ~> (ledger.recorded \/ trip \in {"beyond", "gone"})
=============================================================================
