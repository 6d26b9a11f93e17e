-------------------------- MODULE DerivedPriceProofs --------------------------
(***************************************************************************)
(* Proofs about DerivedPrice, for any number of workers, readers, prices,  *)
(* arrivals and failures.  The cache argument is that of the code: a row   *)
(* changes only under a run that owes an invalidation, and the version an  *)
(* invalidation installs is one no reader has looked up and no entry has.  *)
(***************************************************************************)
EXTENDS DerivedPrice, CommonProofs

Step == {"idle", "window", "existing", "remove", "removeDrop", "upsert", "invalidate",
         "findDrop", "saveDrop", "publish", "return"}

WorkerType == [pc : Step, computed : Price, existing : Price, current : Drop]

ReaderType(v) == [pc : {"idle", "get", "rows", "set", "hit"}, fails : BOOLEAN,
                  version : 0 .. v, price : Price]

Entry(v) == [version : 0 .. v, price : Price]

\* A run that tracks a drop has a price to drop to.
DropsToAPrice ==
    \A w \in Workers : worker[w].pc \in {"findDrop", "saveDrop"} => worker[w].computed # NoPrice

-----------------------------------------------------------------------------
(***************************************************************************)
(* What the operators return.                                              *)
(***************************************************************************)
\* A change to a price leaves a well-formed drop or none.
LEMMA NextDropIsDrop ==
    ASSUME NEW current \in Drop, NEW from \in Price, NEW to \in Prices
    PROVE  NextDrop(current, from, to) \in Drop
  BY PriceAssumption DEF NextDrop, Drop, NoDrop, Price, NoPrice
-----------------------------------------------------------------------------
(***************************************************************************)
(* Type correctness.                                                       *)
(***************************************************************************)
\* The types, by the steps that may disturb them.
WorkersTyped == worker \in [Workers -> WorkerType] /\ DropsToAPrice
RowsTyped == row \in Price /\ told \in Price /\ drop \in Drop
CacheTyped ==
    /\ version \in Nat
    /\ cache \subseteq Entry(version)
    /\ unversioned \subseteq Price
    /\ reader \in [Readers -> ReaderType(version)]
OutsideTyped ==
    /\ yield \in Price
    /\ heard \in Nat /\ arrivals \in Nat /\ heard + arrivals <= MaxArrivals
    /\ ageing \in 0 .. MaxAgeing
FaultsTyped == faults \in 0 .. MaxFaults /\ stale \in BOOLEAN /\ struck \in BOOLEAN

Typed ==
    /\ WorkersTyped /\ RowsTyped /\ CacheTyped /\ OutsideTyped /\ FaultsTyped
    /\ SoundJob(job)

LEMMA TypedIsTypeOK == Typed => TypeOK
  BY PriceAssumption
  DEF Typed, WorkersTyped, RowsTyped, CacheTyped, OutsideTyped, FaultsTyped, SoundJob,
      TypeOK, WorkerType, ReaderType, Entry, Step

LEMMA TypedInit == Init => Typed
  <1> SUFFICES ASSUME Init PROVE Typed
    OBVIOUS
  <1> USE PriceAssumption DEF Init
  <1>1. WorkersTyped
    BY DEF WorkersTyped, DropsToAPrice, Resting, WorkerType, Step, Price, Drop, NoDrop
  <1>2. CacheTyped
    BY DEF CacheTyped, Browsing, ReaderType, Entry, Price
  <1>3. SoundJob(job)
    BY JobAssumption DEF SoundJob, Job, NoJob, MaxStalls
  <1>4. RowsTyped
    BY DEF RowsTyped, Price, Drop
  <1>5. OutsideTyped
    BY DEF OutsideTyped, Price
  <1>6. FaultsTyped
    <2>1. faults \in 0 .. MaxFaults
      OBVIOUS
    <2>2. stale \in BOOLEAN /\ struck \in BOOLEAN
      BY Zenon
    <2> QED
      BY <2>1, <2>2, Zenon DEF FaultsTyped
  <1> QED
    BY <1>1, <1>2, <1>3, <1>4, <1>5, <1>6 DEF Typed

\* The runs of the job.
LEMMA WorkersStep ==
    ASSUME Typed, Next
    PROVE  WorkersTyped'
  <1> USE DEF Typed, WorkersTyped, WorkerType
  <1>0. Resting \in WorkerType /\ NoPrice \in Price
    BY DEF Resting, Step, Price, Drop, NoDrop
  <1>1. CASE UNCHANGED worker
    BY <1>1 DEF DropsToAPrice
  <1>2. ASSUME NEW w \in Workers, NEW pc \in Step \ {"findDrop", "saveDrop"}, Go(w, pc)
        PROVE  WorkersTyped'
    BY <1>2 DEF Go, DropsToAPrice
  <1>3. ASSUME NEW w \in Workers, worker' = [worker EXCEPT ![w] = Resting]
        PROVE  WorkersTyped'
    BY <1>0, <1>3 DEF Resting, DropsToAPrice
  <1>4. ASSUME NEW w \in Workers, Go(w, AfterInvalidate(w))
        PROVE  WorkersTyped'
    <2>1. AfterInvalidate(w) \in Step
      BY DEF AfterInvalidate, Step
    <2>2. AfterInvalidate(w) = "findDrop" => worker[w].computed # NoPrice
      BY DEF AfterInvalidate, Changed
    <2>3. AfterInvalidate(w) # "saveDrop"
      BY DEF AfterInvalidate
    <2> QED
      BY <1>4, <2>1, <2>2, <2>3 DEF Go, DropsToAPrice
  <1>5. ASSUME NEW w \in Workers, ReadWindow(w)
        PROVE  WorkersTyped'
    BY <1>5, ZenonT(60) DEF ReadWindow, OutsideTyped, Step, DropsToAPrice
  <1>6. ASSUME NEW w \in Workers, ReadExisting(w)
        PROVE  WorkersTyped'
    BY <1>6 DEF ReadExisting, RowsTyped, Step, DropsToAPrice
  <1>7. ASSUME NEW w \in Workers, FindDrop(w)
        PROVE  WorkersTyped'
    BY <1>7, ZenonT(60) DEF FindDrop, RowsTyped, Step, DropsToAPrice
  <1>8. ASSUME NEW w \in Workers, WorkerStep(w)
        PROVE  WorkersTyped'
    <2> USE DEF Step
    <2>1. CASE ReadWindow(w) \/ ReadExisting(w) \/ FindDrop(w)
      BY <2>1, <1>5, <1>6, <1>7
    <2>2. CASE Remove(w) \/ RemoveDrop(w) \/ Upsert(w) \/ SaveDrop(w) \/ Publish(w)
      BY <2>2, <1>2 DEF Remove, RemoveDrop, Upsert, SaveDrop, Publish
    <2>3. CASE Invalidate(w)
      BY <2>3, <1>4 DEF Invalidate
    <2>4. CASE FinishJob(w)
      BY <2>4, <1>3 DEF FinishJob
    <2> QED
      BY <1>8, <2>1, <2>2, <2>3, <2>4 DEF WorkerStep
  <1>9. ASSUME NEW w \in Workers, WorkerFault(w)
        PROVE  WorkersTyped'
    <2>1. CASE InvalidateFails(w)
      BY <2>1, <1>4 DEF InvalidateFails
    <2>2. CASE Throw(w) \/ ThrowAfterCommit(w) \/ Die(w)
      BY <2>2, <1>3 DEF Throw, ThrowAfterCommit, Die
    <2> QED
      BY <1>9, <2>1, <2>2 DEF WorkerFault
  <1>10. ASSUME NEW w \in Workers, Take(w)
         PROVE  WorkersTyped'
    BY <1>10, <1>2 DEF Take, Step
  <1>11. ASSUME NEW r \in Readers, ReaderStep(r)
         PROVE  WorkersTyped'
    BY <1>11, <1>1
    DEF ReaderStep, Compare, CompareUnversioned, Get, GetFails, ReadRows, Set, Answer, derived
  <1>12. ASSUME NEW p \in Price, Arrive(p) \/ Age(p)
         PROVE  WorkersTyped'
    BY <1>12, <1>1 DEF Arrive, Age
  <1>13. ASSUME \/ EnqueueRecompute \/ LoseEvent \/ FindStalled \/ LoseLock
                \/ ReleaseFailed \/ ExpireEntries \/ ForgetDrop
         PROVE  WorkersTyped'
    BY <1>13, <1>1
    DEF EnqueueRecompute, LoseEvent, FindStalled, LoseLock, ReleaseFailed, ExpireEntries,
        ForgetDrop, derived
  <1> QED
    BY <1>8, <1>9, <1>10, <1>11, <1>12, <1>13 DEF Next

\* The price, the drop beside it and the price announced.
LEMMA RowsStep ==
    ASSUME Typed, Next
    PROVE  RowsTyped'
  <1> USE DEF Typed, WorkersTyped, WorkerType, RowsTyped
  <1>0. NoPrice \in Price /\ NoDrop \in Drop
    BY DEF Price, Drop
  <1>1. CASE UNCHANGED <<row, drop, told>>
    BY <1>1
  <1>2. ASSUME NEW w \in Workers, SaveDrop(w)
        PROVE  RowsTyped'
    <2>1. worker[w].computed \in Prices
      BY <1>2 DEF SaveDrop, DropsToAPrice, Price
    <2>2. NextDrop(worker[w].current, worker[w].existing, worker[w].computed) \in Drop
      BY <2>1, NextDropIsDrop
    <2> QED
      BY <1>2, <2>2 DEF SaveDrop
  <1>3. ASSUME NEW w \in Workers, WorkerStep(w)
        PROVE  RowsTyped'
    <2>1. CASE Remove(w) \/ RemoveDrop(w) \/ Upsert(w) \/ Publish(w)
      BY <2>1, <1>0 DEF Remove, RemoveDrop, Upsert, Publish
    <2>2. CASE ReadWindow(w) \/ ReadExisting(w) \/ FindDrop(w) \/ Invalidate(w) \/ FinishJob(w)
      BY <2>2, <1>1 DEF ReadWindow, ReadExisting, FindDrop, Invalidate, FinishJob
    <2> QED
      BY <1>2, <1>3, <2>1, <2>2 DEF WorkerStep
  <1>4. ASSUME NEW w \in Workers, WorkerFault(w) \/ Take(w)
        PROVE  RowsTyped'
    <2>1. CASE ThrowAfterCommit(w)
      BY <2>1 DEF ThrowAfterCommit
    <2>2. CASE InvalidateFails(w) \/ Throw(w) \/ Die(w) \/ Take(w)
      BY <2>2, <1>1 DEF InvalidateFails, Throw, Die, Take
    <2> QED
      BY <1>4, <2>1, <2>2 DEF WorkerFault
  <1>5. ASSUME NEW r \in Readers, ReaderStep(r)
        PROVE  RowsTyped'
    BY <1>5, <1>1
    DEF ReaderStep, Compare, CompareUnversioned, Get, GetFails, ReadRows, Set, Answer, derived
  <1>6. ASSUME NEW p \in Price, Arrive(p) \/ Age(p)
        PROVE  RowsTyped'
    BY <1>6, <1>1 DEF Arrive, Age
  <1>7. ASSUME \/ EnqueueRecompute \/ LoseEvent \/ FindStalled \/ LoseLock
               \/ ReleaseFailed \/ ExpireEntries
        PROVE  RowsTyped'
    BY <1>7, <1>1
    DEF EnqueueRecompute, LoseEvent, FindStalled, LoseLock, ReleaseFailed, ExpireEntries, derived
  <1>8. CASE ForgetDrop
    <2>1. drop \in [from : Prices, to : Prices, recent : BOOLEAN]
      <3>1. drop # NoDrop
        BY <1>8 DEF ForgetDrop, NoDrop
      <3> QED
        BY <3>1 DEF Drop
    <2>2. [drop EXCEPT !.recent = FALSE] \in [from : Prices, to : Prices, recent : BOOLEAN]
      BY <2>1
    <2> QED
      BY <1>8, <2>2 DEF ForgetDrop, Drop
  <1> QED
    BY <1>3, <1>4, <1>5, <1>6, <1>7, <1>8 DEF Next

\* The cache, its version and its readers.
LEMMA CacheStep ==
    ASSUME Typed, Next
    PROVE  CacheTyped'
  <1> USE DEF Typed, CacheTyped, ReaderType, Entry
  <1>0. Browsing \in ReaderType(version) /\ NoPrice \in Price
    BY DEF Browsing, Price
  <1>1. CASE UNCHANGED caching
    BY <1>1 DEF caching
  <1>2. ASSUME NEW w \in Workers, Invalidate(w)
        PROVE  CacheTyped'
    <2>1. 0 .. version \subseteq 0 .. version'
      BY <1>2 DEF Invalidate
    <2> QED
      BY <1>2, <2>1 DEF Invalidate
  <1>3. ASSUME NEW w \in Workers, WorkerStep(w)
        PROVE  CacheTyped'
    BY <1>1, <1>2, <1>3
    DEF WorkerStep, ReadWindow, ReadExisting, Remove, RemoveDrop, Upsert, FindDrop, SaveDrop,
        Publish, FinishJob
  <1>4. ASSUME NEW w \in Workers, WorkerFault(w) \/ Take(w)
        PROVE  CacheTyped'
    BY <1>1, <1>4 DEF WorkerFault, InvalidateFails, Throw, ThrowAfterCommit, Die, Take
  <1>5. ASSUME NEW r \in Readers, Compare(r) \/ CompareUnversioned(r)
        PROVE  CacheTyped'
    <2>0. ASSUME NEW v \in 0 .. version, NEW fails \in BOOLEAN
          PROVE  Looking(v, fails) \in ReaderType(version)
      BY <1>0 DEF Looking
    <2>a. 0 \in 0 .. version /\ version \in 0 .. version
      OBVIOUS
    <2>b. TRUE \in BOOLEAN /\ FALSE \in BOOLEAN
      OBVIOUS
    <2> HIDE DEF Typed, CacheTyped, ReaderType, Entry
    <2>1. Looking(version, FALSE) \in ReaderType(version)
      BY <2>0, <2>a, <2>b, Zenon
    <2>2. Looking(0, TRUE) \in ReaderType(version)
      BY <2>0, <2>a, <2>b, Zenon
    <2> USE DEF Typed, CacheTyped, ReaderType, Entry
    <2> QED
      BY <1>5, <2>1, <2>2, ZenonT(60) DEF Compare, CompareUnversioned, derived
  <1>6. ASSUME NEW r \in Readers, Get(r)
        PROVE  CacheTyped'
    <2>1. Entries(r) \subseteq Price
      BY DEF Entries
    <2> QED
      BY <1>6, <2>1 DEF Get, derived
  <1>7. ASSUME NEW r \in Readers, GetFails(r) \/ ReadRows(r) \/ Answer(r)
        PROVE  CacheTyped'
    BY <1>0, <1>7 DEF GetFails, ReadRows, Answer, derived, RowsTyped
  <1>8. ASSUME NEW r \in Readers, Set(r)
        PROVE  CacheTyped'
    BY <1>0, <1>8 DEF Set, derived
  <1>9. ASSUME NEW p \in Price, Arrive(p) \/ Age(p)
        PROVE  CacheTyped'
    BY <1>1, <1>9 DEF Arrive, Age
  <1>10. ASSUME EnqueueRecompute \/ LoseEvent \/ FindStalled \/ LoseLock \/ ReleaseFailed \/ ForgetDrop
         PROVE  CacheTyped'
    BY <1>1, <1>10
    DEF EnqueueRecompute, LoseEvent, FindStalled, LoseLock, ReleaseFailed, ForgetDrop
  <1>11. CASE ExpireEntries
    BY <1>11 DEF ExpireEntries, derived
  <1> QED
    BY <1>3, <1>4, <1>5, <1>6, <1>7, <1>8, <1>9, <1>10, <1>11 DEF Next, ReaderStep

\* The job.
LEMMA JobStep ==
    ASSUME Typed, Next
    PROVE  SoundJob(job)'
  <1>0. SoundJob(job)
    BY DEF Typed
  <1>1. CASE UNCHANGED job
    BY <1>0, <1>1 DEF SoundJob
  <1>2. ASSUME NEW j, SoundJob(j), job' = j
        PROVE  SoundJob(job)'
    BY <1>2 DEF SoundJob
  <1>3. ASSUME NEW w \in Workers, WorkerStep(w) \/ Take(w)
        PROVE  SoundJob(job)'
    <2>1. CASE FinishJob(w)
      BY <2>1, <1>0, <1>2, JobOperations DEF FinishJob
    <2>2. CASE Take(w)
      BY <2>2, <1>0, <1>2, JobOperations DEF Take
    <2>3. CASE \/ ReadWindow(w) \/ ReadExisting(w) \/ Remove(w) \/ RemoveDrop(w) \/ Upsert(w)
               \/ Invalidate(w) \/ FindDrop(w) \/ SaveDrop(w) \/ Publish(w)
      BY <2>3, <1>1
      DEF ReadWindow, ReadExisting, Remove, RemoveDrop, Upsert, Invalidate, FindDrop, SaveDrop,
          Publish
    <2> QED
      BY <1>3, <2>1, <2>2, <2>3 DEF WorkerStep
  <1>4. ASSUME NEW w \in Workers, WorkerFault(w)
        PROVE  SoundJob(job)'
    <2>1. CASE Throw(w) \/ ThrowAfterCommit(w)
      BY <2>1, <1>0, <1>2, JobOperations DEF Throw, ThrowAfterCommit
    <2>2. CASE InvalidateFails(w) \/ Die(w)
      BY <2>2, <1>1 DEF InvalidateFails, Die
    <2> QED
      BY <1>4, <2>1, <2>2 DEF WorkerFault
  <1>5. ASSUME NEW r \in Readers, ReaderStep(r)
        PROVE  SoundJob(job)'
    BY <1>5, <1>1
    DEF ReaderStep, Compare, CompareUnversioned, Get, GetFails, ReadRows, Set, Answer, derived
  <1>6. ASSUME \/ \E p \in Price : Arrive(p) \/ Age(p)
               \/ LoseEvent \/ ExpireEntries \/ ForgetDrop
        PROVE  SoundJob(job)'
    BY <1>6, <1>1 DEF Arrive, Age, LoseEvent, ExpireEntries, ForgetDrop, derived
  <1>7. CASE EnqueueRecompute
    BY <1>7, <1>0, <1>2, JobOperations DEF EnqueueRecompute
  <1>8. CASE FindStalled \/ LoseLock
    BY <1>8, <1>0, <1>2, JobOperations DEF FindStalled, LoseLock
  <1>9. CASE ReleaseFailed
    BY <1>9, <1>0, <1>2, JobOperations DEF ReleaseFailed
  <1> QED
    BY <1>3, <1>4, <1>5, <1>6, <1>7, <1>8, <1>9 DEF Next

\* The bounds, and what failures are remembered by.
LEMMA OutsideStep ==
    ASSUME Typed, Next
    PROVE  OutsideTyped'
  <1> USE PriceAssumption DEF Typed, OutsideTyped
  <1>1. CASE UNCHANGED outside
    BY <1>1 DEF outside
  <1>2. ASSUME NEW p \in Price, Arrive(p)
        PROVE  OutsideTyped'
    BY <1>2 DEF Arrive
  <1>3. ASSUME NEW p \in Price, Age(p)
        PROVE  OutsideTyped'
    BY <1>3 DEF Age
  <1>4. CASE EnqueueRecompute
    BY <1>4 DEF EnqueueRecompute
  <1>5. CASE LoseEvent
    BY <1>5 DEF LoseEvent
  <1>6. ASSUME NEW w \in Workers, Take(w) \/ WorkerStep(w)
        PROVE  OutsideTyped'
    BY <1>1, <1>6
    DEF Take, WorkerStep, ReadWindow, ReadExisting, Remove, RemoveDrop, Upsert, Invalidate,
        FindDrop, SaveDrop, Publish, FinishJob
  <1>7. ASSUME NEW w \in Workers, WorkerFault(w)
        PROVE  OutsideTyped'
    BY <1>1, <1>7 DEF WorkerFault, InvalidateFails, Throw, ThrowAfterCommit, Die
  <1>8. ASSUME NEW r \in Readers, ReaderStep(r)
        PROVE  OutsideTyped'
    BY <1>1, <1>8
    DEF ReaderStep, Compare, CompareUnversioned, Get, GetFails, ReadRows, Set, Answer, derived
  <1>9. CASE FindStalled \/ LoseLock \/ ReleaseFailed \/ ExpireEntries \/ ForgetDrop
    BY <1>1, <1>9 DEF FindStalled, LoseLock, ReleaseFailed, ExpireEntries, ForgetDrop, derived
  <1> QED
    BY <1>2, <1>3, <1>4, <1>5, <1>6, <1>7, <1>8, <1>9 DEF Next

LEMMA FaultsStep ==
    ASSUME Typed, Next
    PROVE  FaultsTyped'
  <1>1. faults' \in 0 .. MaxFaults
    <2>0. faults \in 0 .. MaxFaults
      BY DEF Typed, FaultsTyped
    <2>1. Spend => faults' \in 0 .. MaxFaults
      BY <2>0, PriceAssumption DEF Spend
    <2>2. Spend \/ UNCHANGED faults
      BY DEF Next, Arrive, Age, EnqueueRecompute, LoseEvent, FindStalled, LoseLock,
             ReleaseFailed, ExpireEntries, ForgetDrop, Take, WorkerStep, ReadWindow,
             ReadExisting, Remove, RemoveDrop, Upsert, Invalidate, FindDrop, SaveDrop, Publish,
             FinishJob, WorkerFault, InvalidateFails, Throw, ThrowAfterCommit, Die, ReaderStep,
             Compare, CompareUnversioned, Get, GetFails, ReadRows, Set, Answer
    <2> QED
      BY <2>0, <2>1, <2>2
  <1>2. struck' \in BOOLEAN
    <2>1. struck \in BOOLEAN
      BY DEF Typed, FaultsTyped
    <2>2. struck' = TRUE \/ UNCHANGED struck
      BY DEF Next, Arrive, Age, EnqueueRecompute, LoseEvent, FindStalled, LoseLock,
             ReleaseFailed, ExpireEntries, ForgetDrop, Take, WorkerStep, ReadWindow,
             ReadExisting, Remove, RemoveDrop, Upsert, Invalidate, FindDrop, SaveDrop, Publish,
             FinishJob, WorkerFault, InvalidateFails, Throw, ThrowAfterCommit, Die, ReaderStep,
             Compare, CompareUnversioned, Get, GetFails, ReadRows, Set, Answer, derived
    <2> QED
      BY <2>1, <2>2, Zenon
  <1>3. stale' \in BOOLEAN
    <2>1. stale \in BOOLEAN
      BY DEF Typed, FaultsTyped
    <2>2. \/ stale' = TRUE \/ stale' = FALSE \/ UNCHANGED stale
          \/ \E w \in Workers : stale' = (stale \/ Owes(w))
      BY DEF Next, Arrive, Age, EnqueueRecompute, LoseEvent, FindStalled, LoseLock,
             ReleaseFailed, ExpireEntries, ForgetDrop, Take, WorkerStep, ReadWindow,
             ReadExisting, Remove, RemoveDrop, Upsert, Invalidate, FindDrop, SaveDrop, Publish,
             FinishJob, WorkerFault, InvalidateFails, Throw, ThrowAfterCommit, Die, ReaderStep,
             Compare, CompareUnversioned, Get, GetFails, ReadRows, Set, Answer, derived, caching
    <2> QED
      BY <2>1, <2>2, Zenon
  <1> QED
    BY <1>1, <1>2, <1>3, Zenon DEF FaultsTyped

LEMMA TypedStep == Typed /\ [Next]_vars => Typed'
  <1> SUFFICES ASSUME Typed, [Next]_vars PROVE Typed'
    OBVIOUS
  <1>1. CASE Next
    BY <1>1, WorkersStep, RowsStep, CacheStep, JobStep, OutsideStep, FaultsStep DEF Typed
  <1>2. CASE UNCHANGED vars
    BY <1>2
    DEF vars, Typed, WorkersTyped, DropsToAPrice, RowsTyped, CacheTyped, OutsideTyped,
        FaultsTyped, SoundJob
  <1> QED
    BY <1>1, <1>2

LEMMA TypedAlways == Spec => []Typed
  BY TypedInit, TypedStep, PTL DEF Spec

\* The price, its runs and its cache stay within their types, for any number
\* of workers and readers.
THEOREM TypeCorrect == Spec => []TypeOK
  BY TypedAlways, TypedIsTypeOK, PTL

-----------------------------------------------------------------------------
(***************************************************************************)
(* The cache is current.                                                   *)
(***************************************************************************)
\* What the current version holds, and what is about to be put there.
Fresh ==
    /\ \A e \in cache : e.version = version => e.price = row
    /\ \A r \in Readers :
          reader[r].pc = "set" /\ ~reader[r].fails /\ reader[r].version = version
             => reader[r].price = row

Owing == \E w \in Workers : Owes(w)

LEMMA CacheInit == Init => CacheIsCurrent
  BY DEF Init, CacheIsCurrent, Browsing

\* A step that touches neither the row nor the cache keeps what is fresh.
LEMMA FreshKept ==
    ASSUME Fresh, UNCHANGED <<row, version, cache, reader>>
    PROVE  Fresh'
  BY DEF Fresh

\* Runs left alone owe what they owed.
LEMMA OwingKept ==
    ASSUME UNCHANGED worker
    PROVE  Owing' = Owing
  BY DEF Owing, Owes

\* A reader's step, whatever the runs are doing.
LEMMA ReaderKeepsFresh ==
    ASSUME Typed, Fresh, NEW r \in Readers, ReaderStep(r)
    PROVE  Fresh'
  <1> USE DEF Typed, CacheTyped, ReaderType, Entry
  <1>1. UNCHANGED <<row, version>>
    BY DEF ReaderStep, Compare, CompareUnversioned, Get, GetFails, ReadRows, Set, Answer, derived
  <1>2. CASE Compare(r) \/ CompareUnversioned(r) \/ GetFails(r) \/ Answer(r)
    BY <1>1, <1>2
    DEF Fresh, Compare, CompareUnversioned, GetFails, Answer, Looking, Browsing
  <1>3. CASE Get(r)
    BY <1>1, <1>3 DEF Fresh, Get
  <1>4. CASE ReadRows(r)
    BY <1>1, <1>4 DEF Fresh, ReadRows
  <1>5. CASE Set(r)
    BY <1>1, <1>5 DEF Fresh, Set, Browsing
  <1> QED
    BY <1>2, <1>3, <1>4, <1>5 DEF ReaderStep

\* An invalidation leaves every entry, and every reader's key, behind.
LEMMA InvalidationRefreshes ==
    ASSUME Typed, NEW w \in Workers, Invalidate(w)
    PROVE  Fresh'
  BY DEF Typed, CacheTyped, ReaderType, Entry, Fresh, Invalidate

LEMMA CacheStepCurrent == Typed /\ CacheIsCurrent /\ [Next]_vars => CacheIsCurrent'
  <1> SUFFICES ASSUME Typed, CacheIsCurrent, [Next]_vars PROVE CacheIsCurrent'
    OBVIOUS
  <1> DEFINE Cur == stale \/ Owing \/ Fresh
  <1>0. CacheIsCurrent = Cur /\ CacheIsCurrent' = Cur'
    BY DEF CacheIsCurrent, Owing, Fresh
  <1>1. ASSUME UNCHANGED <<stale, worker, row, version, cache, reader>>
        PROVE  CacheIsCurrent'
    BY <1>0, <1>1, FreshKept, OwingKept, Zenon
  <1>2. ASSUME NEW w \in Workers, WorkerStep(w) \/ Take(w)
        PROVE  CacheIsCurrent'
    <2>1. CASE Remove(w) \/ RemoveDrop(w) \/ Upsert(w)
      <3>1. Owes(w)'
        BY <2>1 DEF Remove, RemoveDrop, Upsert, Go, Owes, Typed, WorkersTyped, WorkerType
      <3> QED
        BY <3>1, <1>0 DEF Owing
    <2>2. CASE Invalidate(w)
      BY <2>2, <1>0, InvalidationRefreshes
    <2>3. CASE \/ Take(w) \/ ReadWindow(w) \/ ReadExisting(w) \/ FindDrop(w) \/ SaveDrop(w)
               \/ Publish(w) \/ FinishJob(w)
      <3>1. UNCHANGED <<stale, row, version, cache, reader>>
        BY <2>3 DEF Take, ReadWindow, ReadExisting, FindDrop, SaveDrop, Publish, FinishJob, caching
      <3>2. ~Owes(w)
        BY <2>3 DEF Take, ReadWindow, ReadExisting, FindDrop, SaveDrop, Publish, FinishJob, Owes
      <3>3. \A o \in Workers : o # w => worker'[o] = worker[o]
        BY <2>3
        DEF Take, ReadWindow, ReadExisting, FindDrop, SaveDrop, Publish, FinishJob, Go, Typed,
            WorkersTyped
      <3>4. Owing => Owing'
        BY <3>2, <3>3 DEF Owing, Owes
      <3>5. Fresh => Fresh'
        BY <3>1, FreshKept
      <3>6. stale' = stale
        BY <3>1
      <3> QED
        BY <1>0, <3>4, <3>5, <3>6, Zenon
    <2> QED
      BY <1>2, <2>1, <2>2, <2>3 DEF WorkerStep
  <1>3. ASSUME NEW w \in Workers, WorkerFault(w)
        PROVE  CacheIsCurrent'
    <2>1. CASE InvalidateFails(w) \/ ThrowAfterCommit(w)
      BY <2>1, <1>0, Zenon DEF InvalidateFails, ThrowAfterCommit
    <2>2. CASE Throw(w) \/ Die(w)
      <3>1. UNCHANGED <<row, version, cache, reader>>
        BY <2>2 DEF Throw, Die, caching
      <3>2. stale' = (stale \/ Owes(w))
        BY <2>2, Zenon DEF Throw, Die
      <3>3. \A o \in Workers : o # w => worker'[o] = worker[o]
        BY <2>2 DEF Throw, Die, Typed, WorkersTyped
      <3>4. Owing => Owing' \/ Owes(w)
        BY <3>3 DEF Owing, Owes
      <3>5. Fresh => Fresh'
        BY <3>1, FreshKept
      <3> QED
        BY <1>0, <3>2, <3>4, <3>5, Zenon
    <2> QED
      BY <1>3, <2>1, <2>2 DEF WorkerFault
  <1>4. ASSUME NEW r \in Readers, ReaderStep(r)
        PROVE  CacheIsCurrent'
    <2>1. UNCHANGED <<stale, worker>>
      BY <1>4
      DEF ReaderStep, Compare, CompareUnversioned, Get, GetFails, ReadRows, Set, Answer, derived
    <2>2. stale' = stale
      BY <2>1
    <2>3. Owing' = Owing
      BY <2>1, OwingKept
    <2>4. Fresh => Fresh'
      BY <1>4, ReaderKeepsFresh
    <2> QED
      BY <1>0, <2>2, <2>3, <2>4, Zenon
  <1>5. CASE ExpireEntries
    <2>1. stale' = stale
      BY <1>5 DEF ExpireEntries, derived
    <2>2. Owing' = Owing
      BY <1>5, OwingKept DEF ExpireEntries, derived
    <2>3. Fresh => Fresh'
      BY <1>5 DEF ExpireEntries, derived, Fresh
    <2> QED
      BY <1>0, <2>1, <2>2, <2>3, Zenon
  <1>6. ASSUME \/ \E p \in Price : Arrive(p) \/ Age(p)
               \/ EnqueueRecompute \/ LoseEvent \/ FindStalled \/ LoseLock \/ ReleaseFailed
               \/ ForgetDrop
        PROVE  CacheIsCurrent'
    BY <1>1, <1>6
    DEF Arrive, Age, EnqueueRecompute, LoseEvent, FindStalled, LoseLock, ReleaseFailed,
        ForgetDrop, caching
  <1>7. CASE UNCHANGED vars
    BY <1>1, <1>7 DEF vars
  <1> QED
    BY <1>2, <1>3, <1>4, <1>5, <1>6, <1>7 DEF Next

\* Nothing is read from the cache under the current version, or about to be
\* put there, but the price as it is, unless an invalidation is owed or lost.
THEOREM CacheCurrent == Spec => []CacheIsCurrent
  BY TypedAlways, CacheInit, CacheStepCurrent, PTL DEF Spec

-----------------------------------------------------------------------------
(***************************************************************************)
(* The records agree.  Short of a failure one run is under way at most, so *)
(* what it read of the price it replaces is still so when it writes.       *)
(***************************************************************************)
DropEndsAt(p) == drop = NoDrop \/ (drop.to = p /\ drop.to < drop.from)
TellsOf(p) == p # NoPrice => told = p
Agreed == DropEndsAt(row) /\ TellsOf(row)

\* One run, which holds the job.
Solo ==
    /\ job.state = "active" => ~Quiet
    /\ \A w \in Workers : worker[w].pc # "idle" => job.holder = w

\* Where the three records are, by how far a run got.
Follows(w) ==
    LET run == worker[w] IN
    /\ run.pc \in {"window", "existing", "upsert", "remove", "return"} => Agreed
    /\ run.pc \in {"upsert", "remove"} => run.existing = row
    /\ run.pc = "remove" => run.computed = NoPrice
    /\ run.pc = "removeDrop" => row = NoPrice /\ run.computed = NoPrice
    /\ run.pc \in {"invalidate", "findDrop", "saveDrop", "publish"} => row = run.computed
    /\ run.pc \in {"upsert", "findDrop", "saveDrop", "publish"} => run.computed # NoPrice
    /\ run.pc = "invalidate" =>
         \/ run.computed = NoPrice /\ drop = NoDrop
         \/ run.computed # NoPrice /\ DropEndsAt(run.existing) /\ TellsOf(run.existing)
    /\ run.pc = "saveDrop" /\ run.current = NoDrop => drop = NoDrop
    /\ run.pc = "publish" => DropEndsAt(row)

InStep == struck \/ (Solo /\ (Quiet => Agreed) /\ \A w \in Workers : Follows(w))

LEMMA InStepInit == Init => InStep
  BY DEF Init, InStep, Solo, Quiet, Resting, NoJob, Agreed, DropEndsAt, TellsOf, Follows

\* With one run under way, what a drop becomes ends at the price it stored.
LEMMA NextDropEnds ==
    ASSUME NEW current \in Drop, NEW from \in Price, NEW to \in Prices
    PROVE  LET next == NextDrop(current, from, to) IN
             next = NoDrop \/ (next.to = to /\ next.to < next.from)
  <1>0. to \in Nat /\ from \in Nat
    BY PriceAssumption DEF Price, NoPrice
  <1>1. current.recent => current # NoDrop
    BY DEF NoDrop
  <1>2. current.recent => current \in [from : Prices, to : Prices, recent : BOOLEAN]
    BY <1>1 DEF Drop
  <1>3. CASE from = NoPrice
    BY <1>3 DEF NextDrop
  <1>4. CASE from # NoPrice /\ to < from
    <2>1. CASE current.recent /\ current.from > from
      <3>1. current.from \in Nat
        BY <1>2, <2>1, PriceAssumption
      <3> QED
        BY <1>0, <1>4, <2>1, <3>1 DEF NextDrop
    <2>2. CASE ~(current.recent /\ current.from > from)
      BY <1>0, <1>4, <2>2 DEF NextDrop
    <2> QED
      BY <2>1, <2>2
  <1>5. CASE from # NoPrice /\ ~(to < from)
    <2>1. CASE current.recent /\ to < current.from
      <3>1. current \in [from : Prices, to : Prices, recent : BOOLEAN]
        BY <1>2, <2>1
      <3> QED
        BY <1>5, <2>1, <3>1 DEF NextDrop
    <2>2. CASE ~(current.recent /\ to < current.from)
      BY <1>5, <2>2 DEF NextDrop
    <2> QED
      BY <2>1, <2>2
  <1> QED
    BY <1>3, <1>4, <1>5

\* The one run goes on.
LEMMA RunGoesOn ==
    ASSUME Typed, Solo, NEW w \in Workers, worker[w].pc # "idle",
           \A v \in Workers \ {w} : worker'[v] = worker[v],
           worker'[w].pc # "idle", UNCHANGED job, Follows(w)'
    PROVE  InStep'
  <1>1. \A v \in Workers \ {w} : worker[v].pc = "idle"
    BY DEF Solo
  <1>2. Solo' /\ ~Quiet'
    BY <1>1 DEF Solo, Quiet
  <1>3. \A v \in Workers \ {w} : Follows(v)'
    BY <1>1 DEF Follows
  <1> QED
    BY <1>2, <1>3 DEF InStep

LEMMA RunKeepsStep ==
    ASSUME Typed, Solo, NEW w \in Workers, Follows(w), WorkerStep(w) \/ InvalidateFails(w)
    PROVE  InStep'
  <1>0. /\ worker \in [Workers -> WorkerType] /\ worker[w] \in WorkerType
        /\ row \in Price /\ drop \in Drop
    BY DEF Typed, WorkersTyped, RowsTyped
  <1>1. CASE ReadWindow(w)
    <2>1. /\ worker'[w].pc = "existing" /\ \A v \in Workers \ {w} : worker'[v] = worker[v]
      BY <1>0, <1>1 DEF ReadWindow, WorkerType
    <2>2. UNCHANGED <<job, row, drop, told>> /\ Agreed
      BY <1>1 DEF ReadWindow, Follows
    <2>3. Follows(w)'
      BY <2>1, <2>2 DEF Follows, Agreed, DropEndsAt, TellsOf
    <2> QED
      BY <1>1, <2>1, <2>2, <2>3, RunGoesOn DEF ReadWindow
  <1>2. CASE ReadExisting(w)
    <2>1. PICK pc : /\ pc = IF worker[w].computed # NoPrice THEN "upsert"
                            ELSE IF row # NoPrice THEN "remove" ELSE "return"
                    /\ worker' = [worker EXCEPT ![w].existing = row, ![w].pc = pc]
      BY <1>2 DEF ReadExisting
    <2>2. /\ worker'[w].pc = pc /\ worker'[w].existing = row
          /\ worker'[w].computed = worker[w].computed
          /\ \A v \in Workers \ {w} : worker'[v] = worker[v]
      BY <1>0, <2>1 DEF WorkerType
    <2>3. UNCHANGED <<job, row, drop, told>> /\ Agreed
      BY <1>2 DEF ReadExisting, Follows
    <2>4. Follows(w)' /\ pc # "idle"
      BY <2>1, <2>2, <2>3 DEF Follows, Agreed, DropEndsAt, TellsOf
    <2> QED
      BY <1>2, <2>2, <2>3, <2>4, RunGoesOn DEF ReadExisting
  <1>3. CASE \/ Remove(w) \/ RemoveDrop(w) \/ Upsert(w) \/ Invalidate(w) \/ InvalidateFails(w)
             \/ SaveDrop(w) \/ Publish(w)
    <2>1. PICK pc : Go(w, pc) /\ pc # "idle" /\ worker[w].pc # "idle" /\ UNCHANGED job
      BY <1>3
      DEF Remove, RemoveDrop, Upsert, Invalidate, InvalidateFails, AfterInvalidate, SaveDrop, Publish
    <2>2. /\ worker'[w].pc = pc /\ worker'[w].computed = worker[w].computed
          /\ worker'[w].existing = worker[w].existing /\ worker'[w].current = worker[w].current
          /\ \A v \in Workers \ {w} : worker'[v] = worker[v]
      BY <1>0, <2>1 DEF Go, WorkerType
    <2> SUFFICES ASSUME TRUE PROVE Follows(w)'
      BY <2>1, <2>2, RunGoesOn
    <2>3. CASE Remove(w)
      <3>1. pc = "removeDrop" /\ row' = NoPrice /\ worker[w].computed = NoPrice
        BY <1>0, <2>1, <2>2, <2>3 DEF Remove, Go, Follows, WorkerType
      <3> QED
        BY <2>2, <3>1 DEF Follows
    <2>4. CASE RemoveDrop(w)
      <3>1. pc = "invalidate" /\ row' = NoPrice /\ worker[w].computed = NoPrice /\ drop' = NoDrop
        BY <1>0, <2>1, <2>2, <2>4 DEF RemoveDrop, Go, Follows, WorkerType
      <3> QED
        BY <2>2, <3>1 DEF Follows
    <2>5. CASE Upsert(w)
      <3>1. /\ pc = "invalidate" /\ row' = worker[w].computed /\ worker[w].computed # NoPrice
            /\ Agreed /\ worker[w].existing = row /\ UNCHANGED <<drop, told>>
        BY <1>0, <2>1, <2>2, <2>5 DEF Upsert, Go, Follows, WorkerType
      <3> QED
        BY <2>2, <3>1 DEF Follows, Agreed, DropEndsAt, TellsOf
    <2>6. CASE Invalidate(w) \/ InvalidateFails(w)
      <3>1. /\ worker[w].pc = "invalidate" /\ UNCHANGED <<row, drop, told>>
            /\ pc = IF worker[w].computed # NoPrice /\ worker[w].computed # worker[w].existing
                    THEN "findDrop" ELSE "return"
        BY <1>0, <2>1, <2>2, <2>6
        DEF Invalidate, InvalidateFails, AfterInvalidate, Changed, Go, WorkerType
      <3>2. row = worker[w].computed
        BY <3>1 DEF Follows
      <3>3. CASE worker[w].computed = NoPrice
        <4>1. drop = NoDrop
          BY <3>1, <3>3 DEF Follows
        <4> QED
          BY <2>2, <3>1, <3>2, <3>3, <4>1 DEF Follows, Agreed, DropEndsAt, TellsOf
      <3>4. CASE worker[w].computed # NoPrice
        <4>1. DropEndsAt(worker[w].existing) /\ TellsOf(worker[w].existing)
          BY <3>1, <3>4 DEF Follows
        <4> QED
          BY <2>2, <3>1, <3>2, <3>4, <4>1 DEF Follows, Agreed, DropEndsAt, TellsOf
      <3> QED
        BY <3>3, <3>4
    <2>7. CASE SaveDrop(w)
      <3>1. PICK next : next = NextDrop(worker[w].current, worker[w].existing, worker[w].computed)
        OBVIOUS
      <3>2. /\ worker[w].pc = "saveDrop" /\ UNCHANGED row /\ pc = "publish"
            /\ drop' = IF next # NoDrop \/ worker[w].current # NoDrop THEN next ELSE drop
        BY <1>0, <2>1, <2>2, <2>7, <3>1 DEF SaveDrop, Go, WorkerType
      <3>3. /\ row = worker[w].computed /\ worker[w].computed # NoPrice
            /\ worker[w].current = NoDrop => drop = NoDrop
        BY <3>2 DEF Follows
      <3>4. worker[w].computed \in Prices /\ worker[w].current \in Drop /\ worker[w].existing \in Price
        BY <1>0, <3>3 DEF WorkerType, Price
      <3>5. next = NoDrop \/ (next.to = row /\ next.to < next.from)
        BY <3>1, <3>3, <3>4, NextDropEnds
      <3>6. DropEndsAt(row)'
        BY <3>2, <3>3, <3>5 DEF DropEndsAt
      <3> QED
        BY <2>2, <3>2, <3>3, <3>6 DEF Follows
    <2>8. CASE Publish(w)
      <3>1. /\ worker[w].pc = "publish" /\ UNCHANGED <<row, drop>> /\ pc = "return"
            /\ told' = worker[w].computed
        BY <1>0, <2>1, <2>2, <2>8 DEF Publish, Go, WorkerType
      <3>2. row = worker[w].computed /\ DropEndsAt(row)
        BY <3>1 DEF Follows
      <3> QED
        BY <2>2, <3>1, <3>2 DEF Follows, Agreed, DropEndsAt, TellsOf
    <2> QED
      BY <1>3, <2>3, <2>4, <2>5, <2>6, <2>7, <2>8
  <1>4. CASE FindDrop(w)
    <2>1. /\ worker'[w].pc = "saveDrop" /\ worker'[w].computed = worker[w].computed
          /\ worker'[w].current = drop
          /\ \A v \in Workers \ {w} : worker'[v] = worker[v]
      BY <1>0, <1>4 DEF FindDrop, WorkerType
    <2>2. /\ worker[w].pc = "findDrop" /\ UNCHANGED <<job, row, drop, told>>
          /\ row = worker[w].computed /\ worker[w].computed # NoPrice
      BY <1>4 DEF FindDrop, Follows
    <2>3. Follows(w)'
      BY <2>1, <2>2 DEF Follows
    <2> QED
      BY <2>1, <2>2, <2>3, RunGoesOn
  <1>5. CASE FinishJob(w)
    <2>1. /\ worker'[w].pc = "idle" /\ \A v \in Workers \ {w} : worker'[v] = worker[v]
      BY <1>0, <1>5 DEF FinishJob, Resting
    <2>2. job.holder = w /\ \A v \in Workers \ {w} : worker[v].pc = "idle"
      BY <1>5 DEF FinishJob, Solo
    <2>3. UNCHANGED <<row, drop, told>> /\ Agreed /\ job' = NoJob
      BY <1>5, <2>2 DEF FinishJob, Follows, Done
    <2>4. \A v \in Workers : worker'[v].pc = "idle"
      BY <2>1, <2>2
    <2> QED
      BY <2>3, <2>4 DEF InStep, Solo, Quiet, Follows, NoJob, Agreed, DropEndsAt, TellsOf
  <1> QED
    BY <1>1, <1>2, <1>3, <1>4, <1>5 DEF WorkerStep

LEMMA InStepStep == Typed /\ InStep /\ [Next]_vars => InStep'
  <1> SUFFICES ASSUME Typed, InStep, [Next]_vars, ~struck' PROVE InStep'
    BY DEF InStep
  <1>0. ~struck
    BY DEF vars, Next, Arrive, Age, EnqueueRecompute, LoseEvent, FindStalled, LoseLock,
           ReleaseFailed, ExpireEntries, ForgetDrop, Take, WorkerStep, ReadWindow,
           ReadExisting, Remove, RemoveDrop, Upsert, Invalidate, FindDrop, SaveDrop, Publish,
           FinishJob, WorkerFault, InvalidateFails, Throw, ThrowAfterCommit, Die, ReaderStep,
           Compare, CompareUnversioned, Get, GetFails, ReadRows, Set, Answer, derived
  <1>1. Solo /\ (Quiet => Agreed) /\ \A w \in Workers : Follows(w)
    BY <1>0 DEF InStep
  <1>2. SoundJob(job) /\ worker \in [Workers -> WorkerType] /\ drop \in Drop
    BY DEF Typed, WorkersTyped, RowsTyped
  \* Nobody runs while the job waits or has failed.
  <1>3. job.state # "active" => Quiet
    BY <1>1, <1>2, JobAssumption DEF Solo, Quiet, SoundJob
  <1>4. ASSUME UNCHANGED <<worker, row, drop, told>>, job'.state = "active" => job.state = "active",
               Quiet \/ job'.holder = job.holder
        PROVE  InStep'
    BY <1>1, <1>4 DEF InStep, Solo, Quiet, Agreed, DropEndsAt, TellsOf, Follows
  <1>5. CASE \/ \E p \in Price : Arrive(p) \/ Age(p)
             \/ LoseEvent \/ ExpireEntries
             \/ \E r \in Readers : ReaderStep(r)
             \/ UNCHANGED vars
    <2>1. UNCHANGED <<worker, row, drop, told, job>>
      BY <1>5
      DEF vars, Arrive, Age, LoseEvent, ExpireEntries, ReaderStep, Compare, CompareUnversioned,
          Get, GetFails, ReadRows, Set, Answer, derived
    <2> QED
      BY <1>4, <2>1
  <1>6. CASE EnqueueRecompute \/ ReleaseFailed
    <2>1. UNCHANGED <<worker, row, drop, told>>
      BY <1>6 DEF EnqueueRecompute, ReleaseFailed
    <2>2. /\ job'.state = "active" => job.state = "active"
          /\ Quiet \/ job'.holder = job.holder
      BY <1>2, <1>3, <1>6 DEF EnqueueRecompute, ReleaseFailed, Added, NoJob, SoundJob, Job
    <2> QED
      BY <1>4, <2>1, <2>2
  <1>7. CASE FindStalled \/ LoseLock
    <2>1. CASE FindStalled
      <3>1. PICK w \in Workers : worker[w].pc # "idle"
        BY <1>1, <2>1 DEF FindStalled, Solo, Quiet
      <3> QED
        BY <1>1, <2>1, <3>1 DEF FindStalled, Solo
    <2> QED
      BY <1>7, <2>1 DEF LoseLock
  \* A drop that stops being news ends where it did.
  <1>8. CASE ForgetDrop
    <2>1. drop # NoDrop
      BY <1>8 DEF ForgetDrop, NoDrop
    <2>2. drop \in [from : Prices, to : Prices, recent : BOOLEAN]
      BY <1>2, <2>1 DEF Drop
    <2>3. drop'.to = drop.to /\ drop'.from = drop.from
      BY <1>8, <2>2 DEF ForgetDrop
    <2>4. UNCHANGED <<worker, row, told, job>>
      BY <1>8 DEF ForgetDrop
    <2> QED
      BY <1>1, <2>1, <2>3, <2>4 DEF InStep, Solo, Quiet, Agreed, DropEndsAt, TellsOf, Follows
  <1>9. ASSUME NEW w \in Workers, Take(w)
        PROVE  InStep'
    <2>1. Quiet /\ Agreed /\ UNCHANGED <<row, drop, told>>
      BY <1>1, <1>3, <1>9 DEF Take
    <2>2. worker'[w].pc = "window" /\ \A v \in Workers \ {w} : worker'[v] = worker[v]
      BY <1>2, <1>9 DEF Take, Go, WorkerType
    <2>3. job'.state = "active" /\ job'.holder = w
      BY <1>2, <1>9 DEF Take, Taken, SoundJob, Job
    <2>4. \A v \in Workers \ {w} : worker'[v].pc = "idle"
      BY <2>1, <2>2 DEF Quiet
    <2>5. Solo' /\ ~Quiet'
      BY <2>2, <2>3, <2>4 DEF Solo, Quiet
    <2>6. \A v \in Workers : Follows(v)'
      BY <2>1, <2>2, <2>4 DEF Follows, Agreed, DropEndsAt, TellsOf
    <2> QED
      BY <2>5, <2>6 DEF InStep
  <1>10. ASSUME NEW w \in Workers, WorkerStep(w) \/ WorkerFault(w)
         PROVE  InStep'
    BY <1>1, <1>10, RunKeepsStep DEF WorkerFault, Throw, ThrowAfterCommit, Die
  <1> QED
    BY <1>5, <1>6, <1>7, <1>8, <1>9, <1>10 DEF Next

\* Between runs none of which failed, the row, the price drop beside it and the
\* price last told to the alerts are of one price.
THEOREM RecordsInStep == Spec => []RecordsAgree
  <1>1. InStep => RecordsAgree
    BY DEF InStep, RecordsAgree, DropEndsAtPrice, Agreed, DropEndsAt, TellsOf
  <1> QED
    BY <1>1, TypedAlways, InStepInit, InStepStep, PTL DEF Spec
================================================================================
