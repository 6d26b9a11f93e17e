------------------------ MODULE TripContributionProofs ------------------------
(***************************************************************************)
(* Proofs about TripContribution, for any number of lines, workers,        *)
(* attempts and faults.                                                    *)
(***************************************************************************)
EXTENDS TripContribution, CommonProofs, FiniteSetTheorems

WorkerType == [pc : {"idle", "ledger", "load", "line", "create", "announce", "record", "return"},
               at : 0 .. LineCount + 1, observations : 0 .. LineCount, skipped : 0 .. LineCount]

\* A run has counted no more lines than it has passed, and what it stores or
\* announces is a line.
Counted(run) ==
    /\ run.pc \in {"idle", "ledger", "load"} => run.observations = 0 /\ run.skipped = 0
    /\ run.observations + run.skipped <= LineCount
    /\ run.pc \in {"line", "create", "announce"} => run.observations + run.skipped < run.at
    /\ run.pc \in {"create", "announce"} => run.at \in Lines

RunsTyped == worker \in [Workers -> WorkerType] /\ \A w \in Workers : Counted(worker[w])
BooksTyped ==
    /\ observed \subseteq Lines /\ missed \subseteq Lines
    /\ announced \in [Lines -> Nat]
LedgerTyped ==
    ledger \in [recorded : BOOLEAN, observations : 0 .. LineCount, skipped : 0 .. LineCount]
OutsideTyped ==
    /\ kind \in [Lines -> Kind] /\ trip \in Trip
    /\ event \in {"none", "pending", "spent"} /\ sweep \in {"idle", "filter", "enqueue"}
    /\ faults \in 0 .. MaxFaults

Typed == RunsTyped /\ BooksTyped /\ LedgerTyped /\ OutsideTyped /\ SoundJob(job)

-----------------------------------------------------------------------------
(***************************************************************************)
(* Type correctness.                                                       *)
(***************************************************************************)
LEMMA TypedIsTypeOK == Typed => TypeOK
  BY DEF Typed, RunsTyped, BooksTyped, LedgerTyped, OutsideTyped, SoundJob, TypeOK, WorkerType

\* A resting worker has counted nothing.
LEMMA RestingIsTyped == Resting \in WorkerType /\ Counted(Resting)
  BY ContributionAssumption DEF Resting, WorkerType, Counted

LEMMA TypedInit == Init => Typed
  <1> SUFFICES ASSUME Init PROVE Typed
    OBVIOUS
  <1> USE ContributionAssumption DEF Init
  <1>1. RunsTyped
    BY RestingIsTyped DEF RunsTyped
  <1>2. BooksTyped
    BY DEF BooksTyped
  <1>3. LedgerTyped
    BY DEF LedgerTyped, NoEntry
  <1>4. OutsideTyped
    BY DEF OutsideTyped, Trip
  <1>5. SoundJob(job)
    BY JobAssumption DEF SoundJob, Job, NoJob, MaxStalls
  <1> QED
    BY <1>1, <1>2, <1>3, <1>4, <1>5 DEF Typed

\* Counting a line that is up leaves the run within its bounds.
LEMMA CountingIsTyped ==
    ASSUME NEW run \in WorkerType, Counted(run), run.at \in Lines,
           run.pc \in {"line", "create", "announce"}
    PROVE  /\ CountObservation(run) \in WorkerType /\ Counted(CountObservation(run))
           /\ CountSkip(run) \in WorkerType /\ Counted(CountSkip(run))
  <1> USE ContributionAssumption
  <1>0. /\ run.at \in 1 .. LineCount /\ run.at + 1 \in 0 .. LineCount + 1
        /\ run.observations \in Nat /\ run.skipped \in Nat
        /\ run.observations + run.skipped < run.at
        /\ run.observations + 1 \in 0 .. LineCount /\ run.skipped + 1 \in 0 .. LineCount
    BY DEF WorkerType, Counted, Lines
  <1>1. CountObservation(run) \in WorkerType
    BY <1>0 DEF WorkerType, CountObservation
  <1>2. CountSkip(run) \in WorkerType
    BY <1>0 DEF WorkerType, CountSkip
  <1>3. /\ CountObservation(run).pc = "line"
        /\ CountObservation(run).at = run.at + 1
        /\ CountObservation(run).observations = run.observations + 1
        /\ CountObservation(run).skipped = run.skipped
    BY DEF WorkerType, CountObservation
  <1>4. /\ CountSkip(run).pc = "line"
        /\ CountSkip(run).at = run.at + 1
        /\ CountSkip(run).observations = run.observations
        /\ CountSkip(run).skipped = run.skipped + 1
    BY DEF WorkerType, CountSkip
  <1>5. Counted(CountObservation(run))
    BY <1>0, <1>3 DEF Counted
  <1>6. Counted(CountSkip(run))
    BY <1>0, <1>4 DEF Counted
  <1> QED
    BY <1>1, <1>2, <1>5, <1>6

\* Every step of a worker, as what becomes of its run.
LEMMA RunsStep ==
    ASSUME Typed, Next
    PROVE  RunsTyped'
  <1> USE ContributionAssumption DEF Typed, RunsTyped
  <1>1. CASE UNCHANGED worker
    BY <1>1
  <1>2. ASSUME NEW w \in Workers, NEW run \in WorkerType, Counted(run),
               worker' = [worker EXCEPT ![w] = run]
        PROVE  RunsTyped'
    BY <1>2
  <1>3. ASSUME NEW w \in Workers, Return(w)
        PROVE  RunsTyped'
    BY <1>2, <1>3, RestingIsTyped DEF Return
  <1>4. ASSUME NEW w \in Workers, Take(w) \/ CheckLedger(w)
        PROVE  RunsTyped'
    <2>1. CASE CheckLedger(w) /\ Return(w)
      BY <1>3, <2>1
    <2>2. CASE Take(w) \/ (CheckLedger(w) /\ Step(w, "load"))
      <3>1. worker[w].observations = 0 /\ worker[w].skipped = 0
        BY <2>2 DEF Take, CheckLedger, Counted
      <3>2. ASSUME NEW pc \in {"ledger", "load"}
            PROVE  /\ [worker[w] EXCEPT !.pc = pc] \in WorkerType
                   /\ Counted([worker[w] EXCEPT !.pc = pc])
        BY <3>1 DEF WorkerType, Counted
      <3> QED
        BY <1>2, <2>2, <3>2 DEF Take, CheckLedger, Step
    <2> QED
      BY <1>4, <2>1, <2>2 DEF CheckLedger
  <1>5. ASSUME NEW w \in Workers, LoadTrip(w)
        PROVE  RunsTyped'
    <2> DEFINE run == [worker[w] EXCEPT !.pc = "line", !.at = 1]
    <2>1. CASE Return(w)
      BY <1>3, <2>1
    <2>2. CASE ~Return(w)
      <3>0. worker[w].observations = 0 /\ worker[w].skipped = 0
        BY <1>5 DEF LoadTrip, Counted
      <3>a. 1 \in 0 .. LineCount + 1 /\ 0 <= LineCount
        OBVIOUS
      <3>1. run \in WorkerType
        BY <3>a DEF WorkerType
      <3>b. /\ run.pc = "line" /\ run.at = 1
            /\ run.observations = 0 /\ run.skipped = 0
        BY <3>0 DEF WorkerType
      <3>c. Counted(run)
        BY <3>a, <3>b DEF Counted
      <3>2. worker' = [worker EXCEPT ![w] = run]
        BY <1>5, <2>2 DEF LoadTrip
      <3> QED
        BY <1>2, <3>1, <3>2, <3>c
    <2> QED
      BY <2>1, <2>2
  <1>6. ASSUME NEW w \in Workers, NextLine(w)
        PROVE  RunsTyped'
    <2> DEFINE at == worker[w].at
    <2>0. at \in 0 .. LineCount + 1 /\ at >= 1 /\ worker[w].pc = "line"
      BY <1>6 DEF NextLine, WorkerType, Counted
    <2>1. CASE at > LineCount
      <3>1. [worker[w] EXCEPT !.pc = "record"] \in WorkerType
            /\ Counted([worker[w] EXCEPT !.pc = "record"])
        BY DEF WorkerType, Counted
      <3> QED
        BY <1>2, <1>6, <2>1, <3>1 DEF NextLine
    <2>2. CASE ~(at > LineCount)
      <3>1. at \in Lines
        BY <2>0, <2>2 DEF Lines
      <3>2. /\ CountSkip(worker[w]) \in WorkerType /\ Counted(CountSkip(worker[w]))
            /\ CountObservation(worker[w]) \in WorkerType
            /\ Counted(CountObservation(worker[w]))
        BY <2>0, <3>1, CountingIsTyped
      <3>a. at + 1 \in 0 .. LineCount + 1 /\ at + 1 > at
        BY <3>1 DEF Lines
      <3>3. PassLine(worker[w]) \in WorkerType /\ Counted(PassLine(worker[w]))
        <4>1. PassLine(worker[w]) \in WorkerType
          BY <3>a DEF WorkerType, PassLine
        <4>2. Counted(PassLine(worker[w]))
          BY <2>0, <3>a DEF WorkerType, Counted, PassLine
        <4> QED
          BY <4>1, <4>2
      <3>4. [worker[w] EXCEPT !.pc = "create"] \in WorkerType
            /\ Counted([worker[w] EXCEPT !.pc = "create"])
        BY <2>0, <3>1 DEF WorkerType, Counted
      <3>5. CASE kind[at] = "left"
        BY <1>2, <1>6, <2>2, <3>3, <3>5 DEF NextLine
      <3>6. CASE kind[at] \in {"unpriced", "refused"}
        BY <1>2, <1>6, <2>2, <3>2, <3>6 DEF NextLine
      <3>7. CASE kind[at] \notin {"left", "unpriced", "refused"} /\ at \in observed
        BY <1>2, <1>6, <2>2, <3>2, <3>7 DEF NextLine
      <3>8. CASE kind[at] \notin {"left", "unpriced", "refused"} /\ at \notin observed
        BY <1>2, <1>6, <2>2, <3>4, <3>8 DEF NextLine
      <3> QED
        BY <3>5, <3>6, <3>7, <3>8
    <2> QED
      BY <2>1, <2>2
  <1>7. ASSUME NEW w \in Workers, Create(w) \/ Announce(w)
        PROVE  RunsTyped'
    <2>1. /\ CountObservation(worker[w]) \in WorkerType
          /\ Counted(CountObservation(worker[w]))
      BY <1>7, CountingIsTyped DEF Create, Announce, Counted
    <2>2. CASE worker' = [worker EXCEPT ![w] = CountObservation(worker[w])]
      BY <1>2, <2>1, <2>2
    <2>3. CASE Create(w) /\ Step(w, "announce")
      BY <2>3 DEF Create, Step, WorkerType, Counted
    <2> QED
      BY <1>7, <2>2, <2>3 DEF Create, Announce
  <1>8. ASSUME NEW w \in Workers, Record(w) \/ FinishJob(w)
        PROVE  RunsTyped'
    <2>1. CASE Record(w)
      BY <2>1 DEF Record, Step, WorkerType, Counted
    <2>2. CASE FinishJob(w)
      BY <2>2, <1>3 DEF FinishJob
    <2> QED
      BY <1>8, <2>1, <2>2
  <1>9. ASSUME NEW w \in Workers, Throw(w) \/ ThrowAfterCommit(w) \/ Die(w)
        PROVE  RunsTyped'
    BY <1>2, <1>9, RestingIsTyped DEF Throw, ThrowAfterCommit, Die
  <1>10. CASE \/ Complete \/ QueueTrip \/ LoseEvent \/ ComeOfAge \/ Expire \/ Erase
              \/ (\E l \in Lines : Outdate(l))
              \/ SweepStep \/ SweepDies \/ FindStalled \/ LoseLock \/ ReleaseFailed
    BY <1>1, <1>10
    DEF Complete, QueueTrip, LoseEvent, ComeOfAge, Expire, Erase, Outdate, SweepStep, SweepList,
        SweepFilter, SweepEnqueue, SweepDies, FindStalled, LoseLock, ReleaseFailed
  <1> QED
    BY <1>4, <1>5, <1>6, <1>7, <1>8, <1>9, <1>10 DEF Next, WorkerStep

\* The rows, their events and the ledger.
LEMMA BooksStep ==
    ASSUME Typed, Next
    PROVE  BooksTyped' /\ LedgerTyped'
  <1> USE DEF Typed, BooksTyped, LedgerTyped
  <1>0. \A w \in Workers : worker[w].pc \in {"create", "announce"} => worker[w].at \in Lines
    BY DEF RunsTyped, Counted
  <1>1. CASE UNCHANGED pipeline
    BY <1>1 DEF pipeline
  <1>2. ASSUME NEW w \in Workers, Create(w) \/ Announce(w) \/ ThrowAfterCommit(w) \/ Die(w)
        PROVE  BooksTyped' /\ LedgerTyped'
    BY <1>0, <1>2 DEF Create, Announce, ThrowAfterCommit, Die
  <1>3. ASSUME NEW w \in Workers, Record(w)
        PROVE  BooksTyped' /\ LedgerTyped'
    <2>1. worker[w].observations \in 0 .. LineCount /\ worker[w].skipped \in 0 .. LineCount
      BY DEF RunsTyped, WorkerType
    <2> QED
      BY <1>3, <2>1 DEF Record
  <1>4. ASSUME NEW w \in Workers,
               \/ Take(w) \/ CheckLedger(w) \/ LoadTrip(w) \/ NextLine(w) \/ FinishJob(w)
               \/ Throw(w)
        PROVE  UNCHANGED pipeline
    BY <1>4 DEF Take, CheckLedger, LoadTrip, NextLine, FinishJob, Throw
  <1>5. CASE \/ Complete \/ QueueTrip \/ LoseEvent \/ ComeOfAge \/ Expire \/ Erase
             \/ (\E l \in Lines : Outdate(l))
             \/ SweepStep \/ SweepDies \/ FindStalled \/ LoseLock \/ ReleaseFailed
    BY <1>1, <1>5
    DEF Complete, QueueTrip, LoseEvent, ComeOfAge, Expire, Erase, Outdate, SweepStep, SweepList,
        SweepFilter, SweepEnqueue, SweepDies, FindStalled, LoseLock, ReleaseFailed
  <1> QED
    BY <1>1, <1>2, <1>3, <1>4, <1>5 DEF Next, WorkerStep

\* The trip, its event, the sweep and the faults left.
LEMMA OutsideStep ==
    ASSUME Typed, Next
    PROVE  OutsideTyped'
  <1> USE ContributionAssumption DEF Typed, OutsideTyped
  <1>1. CASE UNCHANGED <<kind, trip, event, sweep, faults>>
    BY <1>1
  <1>2. ASSUME NEW l \in Lines, Outdate(l)
        PROVE  OutsideTyped'
    BY <1>2 DEF Outdate, Kind
  <1>3. CASE Complete \/ QueueTrip \/ LoseEvent \/ ComeOfAge \/ Expire \/ Erase
    BY <1>3 DEF Complete, QueueTrip, LoseEvent, ComeOfAge, Expire, Erase, Trip
  <1>4. CASE SweepStep \/ SweepDies
    BY <1>4 DEF SweepStep, SweepList, SweepFilter, SweepEnqueue, SweepDies
  <1>5. CASE FindStalled \/ LoseLock \/ ReleaseFailed
    BY <1>5 DEF FindStalled, LoseLock, ReleaseFailed
  <1>6. ASSUME NEW w \in Workers, Take(w) \/ WorkerStep(w)
        PROVE  OutsideTyped'
    BY <1>1, <1>6
    DEF Take, WorkerStep, CheckLedger, LoadTrip, NextLine, Create, Announce, Record, FinishJob,
        pipeline
  <1>7. ASSUME NEW w \in Workers, Throw(w) \/ ThrowAfterCommit(w) \/ Die(w)
        PROVE  OutsideTyped'
    BY <1>7 DEF Throw, ThrowAfterCommit, Die
  <1> QED
    BY <1>2, <1>3, <1>4, <1>5, <1>6, <1>7 DEF Next

\* The job.
LEMMA JobStep ==
    ASSUME Typed, Next
    PROVE  SoundJob(job)'
  <1>0. SoundJob(job)
    BY DEF Typed
  <1>1. CASE UNCHANGED job
    BY <1>0, <1>1 DEF SoundJob
  <1>2. ASSUME NEW j, SoundJob(j), job' = j
        PROVE  SoundJob(job)'
    BY <1>2 DEF SoundJob
  <1>3. ASSUME NEW w \in Workers, Return(w)
        PROVE  SoundJob(job)'
    BY <1>3, <1>0, <1>2, JobOperations DEF Return
  <1>4. ASSUME NEW w \in Workers, Take(w)
        PROVE  SoundJob(job)'
    BY <1>4, <1>0, <1>2, JobOperations DEF Take
  <1>5. ASSUME NEW w \in Workers, WorkerStep(w)
        PROVE  SoundJob(job)'
    BY <1>1, <1>3, <1>5
    DEF WorkerStep, CheckLedger, LoadTrip, NextLine, Create, Announce, Record, FinishJob
  <1>6. ASSUME NEW w \in Workers, Throw(w) \/ ThrowAfterCommit(w)
        PROVE  SoundJob(job)'
    BY <1>6, <1>0, <1>2, JobOperations DEF Throw, ThrowAfterCommit
  <1>7. ASSUME NEW w \in Workers, Die(w)
        PROVE  SoundJob(job)'
    BY <1>1, <1>7 DEF Die
  <1>8. CASE QueueTrip \/ SweepEnqueue \/ FindStalled \/ LoseLock \/ ReleaseFailed
    BY <1>8, <1>0, <1>2, JobOperations
    DEF QueueTrip, SweepEnqueue, FindStalled, LoseLock, ReleaseFailed
  <1>9. CASE \/ Complete \/ LoseEvent \/ ComeOfAge \/ Expire \/ Erase \/ SweepList \/ SweepFilter
             \/ SweepDies \/ (\E l \in Lines : Outdate(l))
    BY <1>1, <1>9
    DEF Complete, LoseEvent, ComeOfAge, Expire, Erase, SweepList, SweepFilter, SweepDies, Outdate
  <1> QED
    BY <1>4, <1>5, <1>6, <1>7, <1>8, <1>9 DEF Next, SweepStep

LEMMA TypedStep == Typed /\ [Next]_vars => Typed'
  <1> SUFFICES ASSUME Typed, [Next]_vars PROVE Typed'
    OBVIOUS
  <1>1. CASE Next
    BY <1>1, RunsStep, BooksStep, OutsideStep, JobStep DEF Typed
  <1>2. CASE UNCHANGED vars
    BY <1>2 DEF vars, Typed, RunsTyped, BooksTyped, LedgerTyped, OutsideTyped, SoundJob
  <1> QED
    BY <1>1, <1>2

LEMMA TypedAlways == Spec => []Typed
  BY TypedInit, TypedStep, PTL DEF Spec

\* The trip, its job, its runs and its books stay within their types, for any
\* number of lines and workers.
THEOREM TypeCorrect == Spec => []TypeOK
  BY TypedAlways, TypedIsTypeOK, PTL

-----------------------------------------------------------------------------
(***************************************************************************)
(* Each observation is announced once.  The insert behind the unique key   *)
(* is what makes a run the only one that may announce its line.            *)
(***************************************************************************)
\* What AnnouncedOnce says of one line.
Settled(l) ==
    IF l \in observed
    THEN \/ announced[l] = 1 /\ l \notin missed /\ Pending(l) = {}
         \/ announced[l] = 0 /\ l \in missed /\ Pending(l) = {}
         \/ announced[l] = 0 /\ l \notin missed /\ \E w \in Workers : Pending(l) = {w}
    ELSE announced[l] = 0 /\ l \notin missed /\ Pending(l) = {}

LEMMA AnnouncedInit == Init => AnnouncedOnce
  BY DEF Init, AnnouncedOnce, Pending, Resting

\* Runs that announce nothing before and after a step leave each line's
\* announcers as they are.
LEMMA PendingKept ==
    ASSUME NEW w \in Workers, NEW l,
           \A o \in Workers \ {w} : worker'[o] = worker[o],
           worker[w].pc # "announce", worker'[w].pc # "announce"
    PROVE  Pending(l)' = Pending(l)
  BY DEF Pending

\* Books and announcers left alone, a line stays settled.
LEMMA SettledKept ==
    ASSUME NEW l, Settled(l), UNCHANGED <<observed, announced, missed>>,
           Pending(l)' = Pending(l)
    PROVE  Settled(l)'
  BY DEF Settled

LEMMA AnnouncedStep == Typed /\ AnnouncedOnce /\ [Next]_vars => AnnouncedOnce'
  <1> SUFFICES ASSUME Typed, AnnouncedOnce, [Next]_vars, NEW l \in Lines
               PROVE  Settled(l)'
    BY DEF AnnouncedOnce, Settled
  <1>0. Settled(l)
    BY DEF AnnouncedOnce, Settled
  <1> USE DEF Typed, RunsTyped, BooksTyped
  <1>t. ASSUME NEW w \in Workers, NEW run, worker' = [worker EXCEPT ![w] = run]
        PROVE  worker'[w] = run /\ \A o \in Workers \ {w} : worker'[o] = worker[o]
    BY <1>t
  <1>1. ASSUME UNCHANGED <<observed, announced, missed, worker>>
        PROVE  Settled(l)'
    BY <1>0, <1>1, SettledKept DEF Pending
  <1>2. ASSUME NEW w \in Workers, NEW run, run.pc # "announce", worker[w].pc # "announce",
               worker' = [worker EXCEPT ![w] = run], UNCHANGED <<observed, announced, missed>>
        PROVE  Settled(l)'
    BY <1>0, <1>2, <1>t, PendingKept, SettledKept
  <1>3. ASSUME NEW w \in Workers, Create(w)
        PROVE  Settled(l)'
    <2> DEFINE at == worker[w].at
    <2>1. CASE at \in observed
      <3>1. CountObservation(worker[w]).pc = "line"
        BY DEF CountObservation, WorkerType
      <3> QED
        BY <1>2, <1>3, <2>1, <3>1 DEF Create
    <2>2. CASE at \notin observed
      <3>1. /\ observed' = observed \cup {at} /\ UNCHANGED <<announced, missed>>
            /\ worker' = [worker EXCEPT ![w].pc = "announce"]
        BY <1>3, <2>2 DEF Create, Step
      <3>2. worker'[w].pc = "announce" /\ worker'[w].at = at /\ worker[w].pc # "announce"
        BY <1>3, <3>1 DEF Create, WorkerType
      <3>3. \A o \in Workers \ {w} : worker'[o] = worker[o]
        BY <3>1
      <3>4. CASE l = at
        <4>1. announced[l] = 0 /\ l \notin missed /\ Pending(l) = {}
          BY <1>0, <2>2, <3>4 DEF Settled
        <4>2. Pending(l)' = {w}
          BY <3>2, <3>3, <3>4, <4>1 DEF Pending
        <4> QED
          BY <3>1, <3>4, <4>1, <4>2 DEF Settled
      <3>5. CASE l # at
        <4>1. Pending(l)' = Pending(l)
          BY <3>2, <3>3, <3>5 DEF Pending
        <4> QED
          BY <1>0, <3>1, <3>5, <4>1 DEF Settled
      <3> QED
        BY <3>4, <3>5
    <2> QED
      BY <2>1, <2>2
  <1>4. ASSUME NEW w \in Workers, worker[w].pc = "announce", NEW run, run.pc # "announce",
               worker' = [worker EXCEPT ![w] = run], UNCHANGED observed,
               \/ announced' = [announced EXCEPT ![worker[w].at] = @ + 1] /\ UNCHANGED missed
               \/ missed' = missed \cup {worker[w].at} /\ UNCHANGED announced
        PROVE  Settled(l)'
    <2> DEFINE at == worker[w].at
    <2>1. worker'[w].pc # "announce" /\ \A o \in Workers \ {w} : worker'[o] = worker[o]
      BY <1>4, <1>t
    <2>2. CASE l = at
      <3>1. w \in Pending(l)
        BY <1>4, <2>2 DEF Pending
      <3>2. l \in observed /\ announced[l] = 0 /\ l \notin missed /\ Pending(l) = {w}
        BY <1>0, <3>1 DEF Settled
      <3>3. Pending(l)' = {}
        BY <2>1, <3>2 DEF Pending
      <3> QED
        BY <1>4, <2>2, <3>2, <3>3 DEF Settled
    <2>3. CASE l # at
      <3>1. Pending(l)' = Pending(l)
        BY <1>4, <2>1, <2>3 DEF Pending
      <3>2. announced'[l] = announced[l] /\ (l \in missed' <=> l \in missed)
        BY <1>4, <2>3
      <3> QED
        BY <1>0, <1>4, <3>1, <3>2 DEF Settled
    <2> QED
      BY <2>2, <2>3
  <1>5. ASSUME NEW w \in Workers, Announce(w)
        PROVE  Settled(l)'
    <2>1. CountObservation(worker[w]).pc = "line"
      BY DEF CountObservation, WorkerType
    <2> QED
      BY <1>4, <1>5, <2>1 DEF Announce
  <1>6. ASSUME NEW w \in Workers, Die(w)
        PROVE  Settled(l)'
    <2>1. Resting.pc # "announce"
      BY DEF Resting
    <2>2. CASE worker[w].pc = "announce"
      BY <1>4, <1>6, <2>1, <2>2 DEF Die
    <2>3. CASE worker[w].pc # "announce"
      BY <1>2, <1>6, <2>1, <2>3 DEF Die
    <2> QED
      BY <2>2, <2>3
  <1>7. ASSUME NEW w \in Workers, ThrowAfterCommit(w)
        PROVE  Settled(l)'
    <2>1. Pending(l)' = Pending(l)
      BY <1>7, <1>t, PendingKept DEF ThrowAfterCommit, Resting
    <2> QED
      BY <1>0, <1>7, <2>1 DEF ThrowAfterCommit, Settled
  <1>8. ASSUME NEW w \in Workers, Throw(w)
        PROVE  Settled(l)'
    BY <1>2, <1>8 DEF Throw, Resting, pipeline
  <1>9. ASSUME NEW w \in Workers, Take(w) \/ CheckLedger(w) \/ LoadTrip(w) \/ NextLine(w)
                                  \/ Record(w) \/ FinishJob(w)
        PROVE  Settled(l)'
    <2>1. worker[w].pc # "announce" /\ UNCHANGED <<observed, announced, missed>>
      BY <1>9 DEF Take, CheckLedger, LoadTrip, NextLine, Record, FinishJob, pipeline
    <2>2. \A o \in Workers \ {w} : worker'[o] = worker[o]
      BY <1>9 DEF Take, CheckLedger, LoadTrip, NextLine, Record, FinishJob, Step, Return
    <2>3. worker'[w].pc # "announce"
      <3>1. CASE NextLine(w)
        <4>1. /\ CountObservation(worker[w]).pc = "line" /\ CountSkip(worker[w]).pc = "line"
              /\ PassLine(worker[w]).pc = worker[w].pc
              /\ [worker[w] EXCEPT !.pc = "record"].pc = "record"
              /\ [worker[w] EXCEPT !.pc = "create"].pc = "create"
          BY DEF CountObservation, CountSkip, PassLine, WorkerType
        <4> QED
          BY <2>1, <3>1, <4>1 DEF NextLine
      <3>2. CASE Return(w)
        BY <3>2 DEF Return, Resting
      <3>3. CASE ~NextLine(w) /\ ~Return(w)
        BY <1>9, <3>3 DEF Take, CheckLedger, LoadTrip, Record, FinishJob, Step, WorkerType
      <3> QED
        BY <3>1, <3>2, <3>3
    <2> QED
      BY <1>0, <2>1, <2>2, <2>3, PendingKept, SettledKept
  <1>10. CASE \/ Complete \/ QueueTrip \/ LoseEvent \/ ComeOfAge \/ Expire \/ Erase
              \/ (\E k \in Lines : Outdate(k))
              \/ SweepStep \/ SweepDies \/ FindStalled \/ LoseLock \/ ReleaseFailed
    BY <1>1, <1>10
    DEF Complete, QueueTrip, LoseEvent, ComeOfAge, Expire, Erase, Outdate, SweepStep, SweepList,
        SweepFilter, SweepEnqueue, SweepDies, FindStalled, LoseLock, ReleaseFailed, pipeline
  <1>11. CASE UNCHANGED vars
    BY <1>1, <1>11 DEF vars
  <1> QED
    BY <1>3, <1>5, <1>6, <1>7, <1>8, <1>9, <1>10, <1>11 DEF Next, WorkerStep

\* However many runs of the job overlap, retry or die, an observation is
\* announced by the run that stored it, once, unless a fault cut that run off.
THEOREM ObservationsAnnouncedOnce == Spec => []AnnouncedOnce
  BY TypedAlways, AnnouncedInit, AnnouncedStep, PTL DEF Spec

-----------------------------------------------------------------------------
(***************************************************************************)
(* The ledger.  A run on its way through the lines knows three things of   *)
(* those it has passed: the priced ones are stored, what it counted lies   *)
(* between the priced and the stored, and every bought one was counted or  *)
(* skipped.  That it writes the ledger only past the last line turns this  *)
(* into the truth of the entry.                                            *)
(***************************************************************************)
Walking == {"line", "create", "announce", "record"}

Before(lines, n) == {l \in lines : l < n}

Bought == Lines \ LinesOf("left")

Tally(run, priced, stored, bought) ==
    /\ Before(priced, run.at) \subseteq stored
    /\ Cardinality(Before(priced, run.at)) <= run.observations
    /\ run.observations <= Cardinality(Before(stored, run.at))
    /\ run.observations + run.skipped = Cardinality(Before(bought, run.at))
    /\ run.pc \in {"create", "announce"} => run.at \in bought
    /\ run.pc = "announce" => run.at \in stored
    /\ run.pc = "record" => run.at = LineCount + 1

RunsTally ==
    \A w \in Workers :
        worker[w].pc \in Walking => Tally(worker[w], LinesOf("priced"), observed, Bought)

\* What lies before a line is counted by a number.
LEMMA BeforeCounts ==
    ASSUME NEW lines \in SUBSET Lines, NEW n \in Nat
    PROVE  /\ IsFiniteSet(lines) /\ IsFiniteSet(Before(lines, n))
           /\ Cardinality(Before(lines, n)) \in Nat
  <1>1. IsFiniteSet(Lines)
    BY ContributionAssumption, FS_Interval DEF Lines
  <1>2. IsFiniteSet(lines) /\ Before(lines, n) \in SUBSET lines
    BY <1>1, FS_Subset DEF Before
  <1> QED
    BY <1>2, FS_Subset, FS_CardinalityType

\* Nothing lies before the first line, and everything before the line after
\* the last.
LEMMA BeforeEnds ==
    ASSUME NEW lines \in SUBSET Lines
    PROVE  Before(lines, 1) = {} /\ Before(lines, LineCount + 1) = lines
  <1>1. \A l \in lines : ~(l < 1) /\ l < LineCount + 1
    BY ContributionAssumption DEF Lines
  <1> QED
    BY <1>1 DEF Before

\* One line on, that line is counted if it is one of them.
LEMMA BeforeNext ==
    ASSUME NEW lines \in SUBSET Lines, NEW n \in Lines
    PROVE  /\ Before(lines, n + 1) \subseteq Before(lines, n) \cup {n}
           /\ n \in lines => Cardinality(Before(lines, n + 1)) = Cardinality(Before(lines, n)) + 1
           /\ n \notin lines => Before(lines, n + 1) = Before(lines, n)
  <1>0. n \in Nat /\ ~(n < n)
    BY DEF Lines
  <1>1. \A l \in lines : l < n + 1 <=> l < n \/ l = n
    BY <1>0 DEF Lines
  <1>2. n \in lines => Before(lines, n + 1) = Before(lines, n) \cup {n}
    BY <1>1 DEF Before
  <1>3. n \notin Before(lines, n)
    BY <1>0 DEF Before
  <1>4. Cardinality(Before(lines, n) \cup {n}) = Cardinality(Before(lines, n)) + 1
    BY <1>0, <1>3, BeforeCounts, FS_AddElement
  <1>5. n \notin lines => Before(lines, n + 1) = Before(lines, n)
    BY <1>1 DEF Before
  <1> QED
    BY <1>2, <1>4, <1>5

\* More lines, more of them before any of them.
LEMMA BeforeGrows ==
    ASSUME NEW more \in SUBSET Lines, NEW fewer \in SUBSET more, NEW n \in Nat
    PROVE  /\ Before(fewer, n) \subseteq Before(more, n)
           /\ Cardinality(Before(fewer, n)) <= Cardinality(Before(more, n))
  <1>1. Before(fewer, n) \in SUBSET Before(more, n)
    BY DEF Before
  <1> QED
    BY <1>1, BeforeCounts, FS_Subset

\* A tally survives a line that grows too old and a row that is stored.
LEMMA TallyKept ==
    ASSUME NEW run \in WorkerType, NEW bought,
           NEW priced \in SUBSET Lines, NEW fewer \in SUBSET priced,
           NEW more \in SUBSET Lines, NEW stored \in SUBSET more,
           Tally(run, priced, stored, bought)
    PROVE  Tally(run, fewer, more, bought)
  <1>1. run.at \in Nat /\ run.observations \in Nat
    BY ContributionAssumption DEF WorkerType
  <1>2. /\ Before(fewer, run.at) \subseteq Before(priced, run.at)
        /\ Cardinality(Before(fewer, run.at)) <= Cardinality(Before(priced, run.at))
        /\ Cardinality(Before(stored, run.at)) <= Cardinality(Before(more, run.at))
    BY <1>1, BeforeGrows
  <1>3. /\ Cardinality(Before(fewer, run.at)) \in Nat /\ Cardinality(Before(priced, run.at)) \in Nat
        /\ Cardinality(Before(stored, run.at)) \in Nat /\ Cardinality(Before(more, run.at)) \in Nat
    BY <1>1, BeforeCounts
  <1>4. /\ Before(priced, run.at) \subseteq stored
        /\ Cardinality(Before(priced, run.at)) <= run.observations
        /\ run.observations <= Cardinality(Before(stored, run.at))
        /\ run.observations + run.skipped = Cardinality(Before(bought, run.at))
        /\ run.pc \in {"create", "announce"} => run.at \in bought
        /\ run.pc = "announce" => run.at \in stored
        /\ run.pc = "record" => run.at = LineCount + 1
    BY DEF Tally
  <1>5. /\ Cardinality(Before(fewer, run.at)) <= run.observations
        /\ run.observations <= Cardinality(Before(more, run.at))
    BY <1>1, <1>2, <1>3, <1>4
  <1> QED
    BY <1>2, <1>4, <1>5 DEF Tally

\* Each way of passing a line keeps the tally: a line left on the shelf, a
\* line whose row is there, a line that is no price.
LEMMA TallyPasses ==
    ASSUME NEW run \in WorkerType, run.at \in Lines, run.pc \in {"line", "create", "announce"},
           NEW bought \in SUBSET Lines, NEW priced \in SUBSET bought, NEW stored \in SUBSET Lines,
           Tally(run, priced, stored, bought)
    PROVE  /\ run.at \notin bought /\ run.pc = "line" => Tally(PassLine(run), priced, stored, bought)
           /\ run.at \in bought /\ run.at \in stored =>
                  Tally(CountObservation(run), priced, stored, bought)
           /\ run.at \in bought /\ run.at \notin priced =>
                  Tally(CountSkip(run), priced, stored, bought)
  <1> DEFINE n == run.at
  <1>1. n \in Nat /\ n + 1 \in Nat /\ run.observations \in Nat /\ run.skipped \in Nat
    BY DEF WorkerType, Lines
  <1>2. /\ Before(priced, n) \subseteq stored
        /\ Cardinality(Before(priced, n)) <= run.observations
        /\ run.observations <= Cardinality(Before(stored, n))
        /\ run.observations + run.skipped = Cardinality(Before(bought, n))
    BY DEF Tally
  <1>3. /\ Before(priced, n + 1) \subseteq Before(priced, n) \cup {n}
        /\ n \in priced => Cardinality(Before(priced, n + 1)) = Cardinality(Before(priced, n)) + 1
        /\ n \notin priced => Before(priced, n + 1) = Before(priced, n)
        /\ n \in stored => Cardinality(Before(stored, n + 1)) = Cardinality(Before(stored, n)) + 1
        /\ n \notin stored => Before(stored, n + 1) = Before(stored, n)
        /\ n \in bought => Cardinality(Before(bought, n + 1)) = Cardinality(Before(bought, n)) + 1
        /\ n \notin bought => Before(bought, n + 1) = Before(bought, n)
    BY BeforeNext
  <1>4. /\ Cardinality(Before(priced, n)) \in Nat /\ Cardinality(Before(stored, n)) \in Nat
        /\ Cardinality(Before(bought, n)) \in Nat
    BY <1>1, BeforeCounts
  <1>5. ASSUME n \notin bought, run.pc = "line"
        PROVE  Tally(PassLine(run), priced, stored, bought)
    <2>1. /\ PassLine(run).pc = "line" /\ PassLine(run).at = n + 1
          /\ PassLine(run).observations = run.observations /\ PassLine(run).skipped = run.skipped
      BY <1>5 DEF PassLine, WorkerType
    <2>2. n \notin priced
      BY <1>5
    <2>3. run.observations <= Cardinality(Before(stored, n + 1))
      BY <1>1, <1>2, <1>3, <1>4
    <2> QED
      BY <1>2, <1>3, <1>5, <2>1, <2>2, <2>3 DEF Tally
  <1>6. ASSUME n \in bought, n \in stored
        PROVE  Tally(CountObservation(run), priced, stored, bought)
    <2>1. /\ CountObservation(run).pc = "line" /\ CountObservation(run).at = n + 1
          /\ CountObservation(run).observations = run.observations + 1
          /\ CountObservation(run).skipped = run.skipped
      BY DEF CountObservation, WorkerType
    <2>2. Before(priced, n + 1) \subseteq stored
      BY <1>2, <1>3, <1>6
    <2>3. Cardinality(Before(priced, n + 1)) <= run.observations + 1
      BY <1>1, <1>2, <1>3, <1>4
    <2>4. /\ run.observations + 1 <= Cardinality(Before(stored, n + 1))
          /\ (run.observations + 1) + run.skipped = Cardinality(Before(bought, n + 1))
      BY <1>1, <1>2, <1>3, <1>4, <1>6
    <2> QED
      BY <2>1, <2>2, <2>3, <2>4 DEF Tally
  <1>7. ASSUME n \in bought, n \notin priced
        PROVE  Tally(CountSkip(run), priced, stored, bought)
    <2>1. /\ CountSkip(run).pc = "line" /\ CountSkip(run).at = n + 1
          /\ CountSkip(run).observations = run.observations
          /\ CountSkip(run).skipped = run.skipped + 1
      BY DEF CountSkip, WorkerType
    <2>2. run.observations <= Cardinality(Before(stored, n + 1))
      BY <1>1, <1>2, <1>3, <1>4
    <2>3. run.observations + (run.skipped + 1) = Cardinality(Before(bought, n + 1))
      BY <1>1, <1>2, <1>3, <1>4, <1>7
    <2> QED
      BY <1>2, <1>3, <1>7, <2>1, <2>2, <2>3 DEF Tally
  <1> QED
    BY <1>5, <1>6, <1>7

\* A run that loads its trip has counted nothing, of nothing.
LEMMA TallyStarts ==
    ASSUME NEW run \in WorkerType, run.pc = "line", run.at = 1,
           run.observations = 0, run.skipped = 0,
           NEW bought \in SUBSET Lines, NEW priced \in SUBSET Lines, NEW stored \in SUBSET Lines
    PROVE  Tally(run, priced, stored, bought)
  <1>1. Before(priced, 1) = {} /\ Before(stored, 1) = {} /\ Before(bought, 1) = {}
    BY BeforeEnds
  <1>2. Cardinality({}) = 0
    BY FS_EmptySet
  <1> QED
    BY <1>1, <1>2 DEF Tally

\* Lines stay bought or left, prices only grow too old, rows only arrive.
LEMMA LinesStep ==
    ASSUME Typed, [Next]_vars
    PROVE  /\ Bought \in SUBSET Lines /\ LinesOf("priced") \in SUBSET Bought
           /\ Bought' = Bought /\ LinesOf("priced")' \subseteq LinesOf("priced")
           /\ observed \in SUBSET Lines /\ observed' \in SUBSET Lines
           /\ observed \subseteq observed'
  <1> USE DEF Typed, OutsideTyped, BooksTyped
  <1>1. Bought \in SUBSET Lines /\ LinesOf("priced") \in SUBSET Bought
    BY DEF Bought, LinesOf
  <1>2. observed' \in SUBSET Lines
    BY TypedStep
  <1>3. /\ observed \subseteq observed'
        /\ kind' = kind \/ \E l \in Lines : Outdate(l)
    BY DEF Next, WorkerStep, SweepStep, Complete, QueueTrip, LoseEvent, ComeOfAge, Expire, Erase,
           Outdate, SweepList, SweepFilter, SweepEnqueue, SweepDies, FindStalled, LoseLock,
           ReleaseFailed, Take, CheckLedger, LoadTrip, NextLine, Create, Announce, Record,
           FinishJob, Throw, ThrowAfterCommit, Die, pipeline, vars
  <1>4. CASE kind' = kind
    BY <1>1, <1>2, <1>3, <1>4 DEF Bought, LinesOf
  <1>5. CASE \E l \in Lines : Outdate(l)
    <2> PICK l \in Lines : Outdate(l)
      BY <1>5
    <2>1. kind[l] = "priced" /\ kind' = [kind EXCEPT ![l] = "refused"]
      BY DEF Outdate
    <2>2. Bought' = Bought /\ LinesOf("priced")' \subseteq LinesOf("priced")
      BY <2>1 DEF Bought, LinesOf
    <2> QED
      BY <1>1, <1>2, <1>3, <2>2
  <1> QED
    BY <1>3, <1>4, <1>5

\* A step moves at most the run of the worker that takes it.
LEMMA TallyStep == Typed /\ RunsTally /\ [Next]_vars => RunsTally'
  <1> SUFFICES ASSUME Typed, RunsTally, [Next]_vars, NEW v \in Workers,
                      worker'[v].pc \in Walking
               PROVE  Tally(worker[v], LinesOf("priced"), observed, Bought)'
    BY DEF RunsTally
  <1> USE DEF Typed, RunsTyped
  <1>0. /\ Bought \in SUBSET Lines /\ LinesOf("priced") \in SUBSET Bought
        /\ Bought' = Bought /\ LinesOf("priced")' \in SUBSET LinesOf("priced")
        /\ LinesOf("priced") \in SUBSET Lines
        /\ observed \in SUBSET observed' /\ observed' \in SUBSET Lines
        /\ observed \in SUBSET Lines
    BY LinesStep
  <1>t. /\ worker[v] \in WorkerType /\ Counted(worker[v])
        /\ worker[v].pc \in Walking => Tally(worker[v], LinesOf("priced"), observed, Bought)
    BY DEF RunsTally
  \* It is enough that what the run has become tallies with what was known.
  <1>k. ASSUME NEW run \in WorkerType, worker'[v] = run,
               Tally(run, LinesOf("priced"), observed, Bought)
        PROVE  Tally(worker[v], LinesOf("priced"), observed, Bought)'
    <2>1. Tally(run, LinesOf("priced")', observed', Bought)
      BY <1>0, <1>k, TallyKept
    <2> QED
      BY <1>0, <1>k, <2>1
  <1>1. CASE worker'[v] = worker[v]
    BY <1>1, <1>k, <1>t
  <1>2. ASSUME NEW run, worker' = [worker EXCEPT ![v] = run]
        PROVE  worker'[v] = run
    BY <1>2
  <1>r. ASSUME worker' = [worker EXCEPT ![v] = Resting]
        PROVE  FALSE
    BY <1>2, <1>r DEF Resting, Walking
  <1>3. CASE Return(v) \/ Throw(v) \/ ThrowAfterCommit(v) \/ Die(v)
    BY <1>3, <1>r DEF Return, Throw, ThrowAfterCommit, Die
  <1>4. CASE Take(v) \/ (CheckLedger(v) /\ Step(v, "load"))
    BY <1>4, <1>t DEF Take, CheckLedger, Step, WorkerType, Walking
  <1>5. CASE LoadTrip(v)
    <2>1. CASE Return(v)
      BY <1>3, <2>1
    <2>2. CASE ~Return(v)
      <3>0. /\ worker[v].pc = "load"
            /\ worker' = [worker EXCEPT ![v] = [@ EXCEPT !.pc = "line", !.at = 1]]
        BY <1>5, <2>2 DEF LoadTrip
      <3> DEFINE run == [worker[v] EXCEPT !.pc = "line", !.at = 1]
      <3>i. 1 \in 0 .. LineCount + 1
        BY ContributionAssumption
      <3>1. run \in WorkerType /\ run.pc = "line" /\ run.at = 1
        BY <1>t, <3>i DEF WorkerType
      <3>2. run.observations = 0 /\ run.skipped = 0
        BY <1>t, <3>0 DEF WorkerType, Counted
      <3>3. worker'[v] = run
        BY <1>2, <3>0
      <3> HIDE DEF run
      <3>4. Tally(run, LinesOf("priced"), observed, Bought)
        BY <1>0, <3>1, <3>2, TallyStarts
      <3> QED
        BY <1>k, <3>1, <3>3, <3>4
    <2> QED
      BY <2>1, <2>2
  \* The ways past a line.
  <1>6. ASSUME worker[v].pc \in {"line", "create", "announce"}, worker[v].at \in Lines
        PROVE  /\ CountObservation(worker[v]) \in WorkerType
               /\ CountSkip(worker[v]) \in WorkerType
               /\ worker[v].at \notin Bought /\ worker[v].pc = "line" =>
                     Tally(PassLine(worker[v]), LinesOf("priced"), observed, Bought)
               /\ worker[v].at \in Bought /\ worker[v].at \in observed =>
                     Tally(CountObservation(worker[v]), LinesOf("priced"), observed, Bought)
               /\ worker[v].at \in Bought /\ worker[v].at \notin LinesOf("priced") =>
                     Tally(CountSkip(worker[v]), LinesOf("priced"), observed, Bought)
    <2>1. Tally(worker[v], LinesOf("priced"), observed, Bought)
      BY <1>6, <1>t DEF Walking
    <2> QED
      BY <1>0, <1>6, <1>t, <2>1, TallyPasses, CountingIsTyped
  <1>7. CASE NextLine(v)
    <2> DEFINE at == worker[v].at
    <2>0. /\ worker[v].pc = "line" /\ at \in 0 .. LineCount + 1
          /\ worker[v].observations + worker[v].skipped < at
          /\ worker[v].observations \in Nat /\ worker[v].skipped \in Nat
      BY <1>7, <1>t DEF NextLine, WorkerType, Counted
    <2>t. Tally(worker[v], LinesOf("priced"), observed, Bought)
      BY <1>t, <2>0 DEF Walking
    <2>1. CASE at > LineCount
      <3> DEFINE run == [worker[v] EXCEPT !.pc = "record"]
      <3>1. worker'[v] = run
        BY <1>2, <1>7, <2>1 DEF NextLine
      <3>2. /\ run \in WorkerType /\ run.pc = "record" /\ run.at = at
            /\ run.observations = worker[v].observations /\ run.skipped = worker[v].skipped
        BY <1>t DEF WorkerType
      <3>3. at = LineCount + 1
        <4> HIDE DEF at
        <4>1. at \in 0 .. LineCount + 1
          BY <2>0
        <4> QED
          BY <2>1, <4>1, ContributionAssumption
      <3> HIDE DEF run
      <3>4. Tally(run, LinesOf("priced"), observed, Bought)
        BY <2>t, <3>2, <3>3 DEF Tally
      <3> QED
        BY <1>k, <3>1, <3>2, <3>4
    <2>2. CASE ~(at > LineCount)
      <3>0. at \in Lines
        BY <2>0, <2>2, ContributionAssumption DEF Lines
      <3>1. CASE kind[at] = "left"
        <4>1. worker'[v] = PassLine(worker[v]) /\ at \notin Bought
          BY <1>2, <1>7, <2>2, <3>1 DEF NextLine, Bought, LinesOf
        <4>2. PassLine(worker[v]) \in WorkerType
          BY <1>t, <2>0, <2>2, ContributionAssumption DEF PassLine, WorkerType
        <4> QED
          BY <1>6, <1>k, <2>0, <3>0, <4>1, <4>2
      <3>2. CASE kind[at] \in {"unpriced", "refused"}
        <4>1. worker'[v] = CountSkip(worker[v]) /\ at \in Bought /\ at \notin LinesOf("priced")
          BY <1>2, <1>7, <2>2, <3>0, <3>2 DEF NextLine, Bought, LinesOf
        <4> QED
          BY <1>6, <1>k, <2>0, <3>0, <4>1
      <3>3. CASE kind[at] \notin {"left", "unpriced", "refused"} /\ at \in observed
        <4>1. worker'[v] = CountObservation(worker[v]) /\ at \in Bought
          BY <1>2, <1>7, <2>2, <3>0, <3>3 DEF NextLine, Bought, LinesOf
        <4> QED
          BY <1>6, <1>k, <2>0, <3>0, <3>3, <4>1
      <3>4. CASE kind[at] \notin {"left", "unpriced", "refused"} /\ at \notin observed
        <4> DEFINE run == [worker[v] EXCEPT !.pc = "create"]
        <4>1. worker'[v] = run /\ at \in Bought
          BY <1>2, <1>7, <2>2, <3>0, <3>4 DEF NextLine, Bought, LinesOf
        <4>2. /\ run \in WorkerType /\ run.pc = "create" /\ run.at = at
              /\ run.observations = worker[v].observations /\ run.skipped = worker[v].skipped
          BY <1>t DEF WorkerType
        <4> HIDE DEF run
        <4>3. Tally(run, LinesOf("priced"), observed, Bought)
          BY <2>t, <4>1, <4>2 DEF Tally
        <4> QED
          BY <1>k, <4>1, <4>2, <4>3
      <3> QED
        BY <3>1, <3>2, <3>3, <3>4
    <2> QED
      BY <2>1, <2>2
  <1>8. CASE Create(v)
    <2> DEFINE at == worker[v].at
    <2>0. worker[v].pc = "create" /\ at \in Lines
      BY <1>8, <1>t DEF Create, Counted
    <2>t. Tally(worker[v], LinesOf("priced"), observed, Bought) /\ at \in Bought
      BY <1>t, <2>0 DEF Walking, Tally
    <2>1. CASE at \in observed
      <3>1. worker'[v] = CountObservation(worker[v])
        BY <1>2, <1>8, <2>1 DEF Create
      <3> QED
        BY <1>6, <1>k, <2>0, <2>1, <2>t, <3>1
    <2>2. CASE at \notin observed
      <3> DEFINE run == [worker[v] EXCEPT !.pc = "announce"]
      <3>1. worker'[v] = run /\ at \in observed'
        BY <1>2, <1>8, <2>2 DEF Create, Step
      <3>2. /\ run \in WorkerType /\ run.pc = "announce" /\ run.at = at
            /\ run.observations = worker[v].observations /\ run.skipped = worker[v].skipped
        BY <1>t DEF WorkerType
      <3> HIDE DEF run
      <3>3. Tally(worker[v], LinesOf("priced")', observed', Bought)
        BY <1>0, <1>t, <2>t, TallyKept
      <3>4. Tally(run, LinesOf("priced")', observed', Bought)
        BY <2>t, <3>1, <3>2, <3>3 DEF Tally
      <3> QED
        BY <1>0, <3>1, <3>4
    <2> QED
      BY <2>1, <2>2
  <1>9. CASE Announce(v)
    <2>0. worker[v].pc = "announce" /\ worker[v].at \in Lines
      BY <1>9, <1>t DEF Announce, Counted
    <2>1. worker[v].at \in Bought /\ worker[v].at \in observed
      BY <1>t, <2>0 DEF Walking, Tally
    <2>2. worker'[v] = CountObservation(worker[v])
      BY <1>2, <1>9 DEF Announce
    <2> QED
      BY <1>6, <1>k, <2>0, <2>1, <2>2
  <1>10. CASE Record(v)
    BY <1>10, <1>t DEF Record, Step, WorkerType, Walking
  <1>11. CASE FinishJob(v)
    BY <1>3, <1>11 DEF FinishJob
  <1>12. ASSUME NEW w \in Workers, w # v, Take(w) \/ WorkerStep(w) \/ Throw(w)
                                          \/ ThrowAfterCommit(w) \/ Die(w)
         PROVE  worker'[v] = worker[v]
    BY <1>12 DEF WorkerStep, Take, CheckLedger, LoadTrip, NextLine, Create, Announce, Record,
                 FinishJob, Throw, ThrowAfterCommit, Die, Step, Return
  <1>13. CASE \/ Complete \/ QueueTrip \/ LoseEvent \/ ComeOfAge \/ Expire \/ Erase
              \/ (\E k \in Lines : Outdate(k))
              \/ SweepStep \/ SweepDies \/ FindStalled \/ LoseLock \/ ReleaseFailed
              \/ UNCHANGED vars
    <2>1. worker' = worker
      BY <1>13
      DEF Complete, QueueTrip, LoseEvent, ComeOfAge, Expire, Erase, Outdate, SweepStep, SweepList,
          SweepFilter, SweepEnqueue, SweepDies, FindStalled, LoseLock, ReleaseFailed, vars
    <2> QED
      BY <1>1, <2>1
  <1>14. CheckLedger(v) => Return(v) \/ Step(v, "load")
    BY DEF CheckLedger
  <1>15. CASE \E w \in Workers : Take(w) \/ WorkerStep(w) \/ Throw(w) \/ ThrowAfterCommit(w) \/ Die(w)
    <2> PICK w \in Workers : Take(w) \/ WorkerStep(w) \/ Throw(w) \/ ThrowAfterCommit(w) \/ Die(w)
      BY <1>15
    <2>1. CASE w = v
      BY <1>3, <1>4, <1>5, <1>7, <1>8, <1>9, <1>10, <1>11, <1>14, <2>1 DEF WorkerStep
    <2>2. CASE w # v
      BY <1>1, <1>12, <2>2
    <2> QED
      BY <2>1, <2>2
  <1> QED
    BY <1>13, <1>15 DEF Next

\* Nothing but Record writes the ledger, and it writes it once.
LEMMA LedgerStep == Typed /\ RunsTally /\ LedgerIsTrue /\ [Next]_vars => LedgerIsTrue'
  <1> SUFFICES ASSUME Typed, RunsTally, LedgerIsTrue, [Next]_vars
               PROVE  LedgerIsTrue'
    OBVIOUS
  <1> USE DEF Typed, LedgerTyped, RunsTyped
  <1>0. /\ Bought \in SUBSET Lines /\ LinesOf("priced") \in SUBSET Lines
        /\ Bought' = Bought /\ LinesOf("priced")' \in SUBSET LinesOf("priced")
        /\ observed \in SUBSET observed' /\ observed' \in SUBSET Lines
        /\ observed \in SUBSET Lines
    BY LinesStep
  <1>b. \A lines \in SUBSET Lines : IsFiniteSet(lines) /\ Cardinality(lines) \in Nat
    BY BeforeCounts, FS_CardinalityType
  <1>c. /\ Cardinality(LinesOf("priced")') <= Cardinality(LinesOf("priced"))
        /\ Cardinality(observed) <= Cardinality(observed')
        /\ Cardinality(LinesOf("priced")) \in Nat /\ Cardinality(LinesOf("priced")') \in Nat
        /\ Cardinality(observed) \in Nat /\ Cardinality(observed') \in Nat
    BY <1>0, <1>b, FS_Subset
  <1>1. CASE ledger' = ledger
    <2> SUFFICES ASSUME ledger.recorded PROVE LedgerIsTrue'
      BY <1>1 DEF LedgerIsTrue
    <2>1. /\ LinesOf("priced") \subseteq observed
          /\ ledger.observations \in Cardinality(LinesOf("priced")) .. Cardinality(observed)
          /\ ledger.observations + ledger.skipped = Cardinality(Bought)
      BY DEF LedgerIsTrue, Bought
    <2>2. ledger.observations \in Cardinality(LinesOf("priced")') .. Cardinality(observed')
      BY <1>c, <2>1
    <2>3. LinesOf("priced")' \subseteq observed'
      BY <1>0, <2>1
    <2>4. ledger.observations + ledger.skipped = Cardinality(Bought')
      BY <1>0, <2>1
    <2> QED
      BY <1>1, <2>2, <2>3, <2>4 DEF LedgerIsTrue, Bought
  <1>2. ASSUME NEW w \in Workers, Record(w), ~ledger.recorded
        PROVE  LedgerIsTrue'
    <2>1. /\ worker[w].pc = "record" /\ observed' = observed /\ kind' = kind
          /\ ledger' = [recorded |-> TRUE, observations |-> worker[w].observations,
                        skipped |-> worker[w].skipped]
      BY <1>2 DEF Record
    <2>2. /\ Tally(worker[w], LinesOf("priced"), observed, Bought)
          /\ worker[w] \in WorkerType
      BY <2>1 DEF RunsTally, Walking
    <2>3. /\ worker[w].at = LineCount + 1
          /\ LinesOf("priced") \subseteq observed
          /\ Cardinality(LinesOf("priced")) <= worker[w].observations
          /\ worker[w].observations <= Cardinality(observed)
          /\ worker[w].observations + worker[w].skipped = Cardinality(Bought)
      BY <1>0, <2>1, <2>2, BeforeEnds DEF Tally
    <2>4. worker[w].observations \in Cardinality(LinesOf("priced")) .. Cardinality(observed)
      BY <1>c, <2>2, <2>3 DEF WorkerType
    <2>5. LinesOf("priced")' = LinesOf("priced") /\ Bought' = Bought
      BY <2>1 DEF LinesOf, Bought
    <2>6. ledger'.observations = worker[w].observations /\ ledger'.skipped = worker[w].skipped
      BY <2>1
    <2> QED
      BY <2>1, <2>3, <2>4, <2>5, <2>6 DEF LedgerIsTrue, Bought
  <1>3. ledger' = ledger \/ \E w \in Workers : Record(w) /\ ~ledger.recorded
    BY DEF Next, WorkerStep, SweepStep, Complete, QueueTrip, LoseEvent, ComeOfAge, Expire, Erase,
           Outdate, SweepList, SweepFilter, SweepEnqueue, SweepDies, FindStalled, LoseLock,
           ReleaseFailed, Take, CheckLedger, LoadTrip, NextLine, Create, Announce, Record,
           FinishJob, Throw, ThrowAfterCommit, Die, pipeline, vars
  <1> QED
    BY <1>1, <1>2, <1>3

\* However the runs of a trip's job are retried, killed or overlapped, the
\* entry that closes the trip's books is written over a trip whose every
\* priced purchase has its observation, and counts them truly.
THEOREM BooksClosedTruly == Spec => []LedgerIsTrue
  <1>1. Init => RunsTally /\ LedgerIsTrue
    BY DEF Init, Resting, RunsTally, Walking, LedgerIsTrue, NoEntry
  <1> QED
    BY <1>1, TypedAlways, TallyStep, LedgerStep, PTL DEF Spec
=============================================================================
