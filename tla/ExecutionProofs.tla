--------------------------- MODULE ExecutionProofs ---------------------------
(***************************************************************************)
(* Proofs about executions that overlap on one row: the imports of a day   *)
(* (SourceImport), the deliveries of a message (NotificationDelivery) and  *)
(* the writes to a trip (ShoppingSession), for any number of workers,      *)
(* days, products, faults, requests and lines, any attempts of a job or a  *)
(* channel, and any hour of delivery.                                      *)
(***************************************************************************)
EXTENDS MCExecutions, CommonProofs, FiniteSetTheorems

-----------------------------------------------------------------------------
(***************************************************************************)
(* SourceImport.                                                           *)
(***************************************************************************)
RunnerType ==
    [pc : Importing \cup {"idle", "find", "create", "takeover", "finish", "outcome", "return"},
     day : Days, todo : SUBSET Externals, seen : [Externals -> Link],
     resolved : [Externals -> Resolution], feed : SUBSET Externals,
     short : BOOLEAN, status : RunStatus]

RowType == [status : RunStatus \cup {"NONE"}, stale : BOOLEAN, feed : SUBSET Externals]

RunnersTyped == runner \in [Runners -> RunnerType]
RowsTyped == run \in [Days -> RowType] /\ lastStarted \in Days \cup {0}
JobsTyped == importJob \in [Days -> Job] /\ \A d \in Days : SoundJob(importJob[d])
LinksTyped ==
    /\ link \in [Externals -> Link] /\ storeLinked \in BOOLEAN
    /\ decided \in [Externals -> Resolution \cup {"undecided"}]
    /\ edits \subseteq Edit /\ raced \subseteq Externals
    /\ merged \subseteq Catalog \X Catalog /\ moves \subseteq Catalog \X Catalog
    /\ folded \subseteq Catalog
PricesTyped ==
    /\ observed \in [Days \cup {0} -> SUBSET Externals]
    /\ confirmed \in [Days -> SUBSET Externals]
AroundTyped ==
    /\ halfDay \in 0 .. 2 * MaxDay - 1
    /\ source \in [enabled : BOOLEAN, lastStatus : RunStatus \cup {"NONE"}]
    /\ scheduler \in [pc : {"idle", "ask", "add"}, day : Days]
    /\ overtaken \subseteq Runners /\ struck \subseteq Days
    /\ happenings \in 0 .. MaxHappenings

ImportTyped ==
    /\ RunnersTyped /\ RowsTyped /\ JobsTyped
    /\ LinksTyped /\ PricesTyped /\ AroundTyped

-----------------------------------------------------------------------------
(***************************************************************************)
(* Type correctness.                                                       *)
(***************************************************************************)
LEMMA ImportTypedIsTypeOK == ImportTyped => ImportTypeOK
  BY DEF ImportTyped, RunnersTyped, RunnerType, RowsTyped, RowType, JobsTyped, LinksTyped, PricesTyped,
         AroundTyped, ImportTypeOK

LEMMA TodayIsADay == ASSUME halfDay \in 0 .. 2 * MaxDay - 1 PROVE Today \in Days
  BY ImportAssumption DEF Today, Days

LEMMA RestIsTyped == AtRest \in RunnerType /\ \A d \in Days : [AtRest EXCEPT !.day = d] \in RunnerType
  <1>1. Unread \in [Externals -> Link] /\ Unresolved \in [Externals -> Resolution]
    BY DEF Unread, Unresolved, NoLink, Link, Resolution
  <1>2. 1 \in Days
    BY ImportAssumption DEF Days
  <1>3. AtRest \in RunnerType
    BY <1>1, <1>2 DEF AtRest, RunnerType, RunStatus
  <1> QED
    BY <1>3 DEF RunnerType

LEMMA ImportTypedInit == ImportInit => ImportTyped
  <1> SUFFICES ASSUME ImportInit PROVE ImportTyped
    OBVIOUS
  <1> USE ImportAssumption DEF ImportInit
  <1>1. RunnersTyped
    BY RestIsTyped DEF RunnersTyped
  <1>2. RowsTyped
    BY DEF RowsTyped, RowType, NoRun
  <1>3. JobsTyped
    BY JobAssumption DEF JobsTyped, SoundJob, Job, NoJob, MaxStalls
  <1>4. LinksTyped
    BY DEF LinksTyped, Link, Unread, NoLink, Resolution
  <1>5. PricesTyped
    BY DEF PricesTyped
  <1>6. AroundTyped
    BY DEF AroundTyped, Days
  <1> QED
    BY <1>1, <1>2, <1>3, <1>4, <1>5, <1>6 DEF ImportTyped

\* A product found by its name and package, where exactly one has them, is one.
LEMMA MatchIsAProduct ==
    ASSUME NEW known \in Resolution, NEW byBarcode \in Resolution, NEW identical \in SUBSET Catalog
    PROVE  /\ MatchExternalProduct(known, byBarcode, identical) \in Resolution
           /\ known # NoProduct => MatchExternalProduct(known, byBarcode, identical) = known
           /\ known = NoProduct =>
                MatchExternalProduct(known, byBarcode, identical) \in {byBarcode, NoProduct} \cup identical
  <1>1. Cardinality(identical) = 1 => (CHOOSE p \in identical : TRUE) \in identical
    <2> SUFFICES ASSUME identical # {} PROVE (CHOOSE p \in identical : TRUE) \in identical
      BY FS_EmptySet
    <2> QED
      OBVIOUS
  <1> QED
    BY <1>1 DEF MatchExternalProduct, Resolution

\* A product of the feed is left alone, or the decision about it is saved.
LeftOut(r, x) == [runner[r] EXCEPT !.todo = @ \ {x}]
LinkedTo(r, x, p) ==
    [runner[r] EXCEPT !.todo = @ \ {x}, !.resolved[x] = p, !.short = @ \/ p = NoProduct]

LEMMA LinkOneResolves ==
    ASSUME RunnersTyped, NEW r \in Runners, NEW x \in Externals, LinkOne(r, x)
    PROVE  \/ runner' = [runner EXCEPT ![r] = LeftOut(r, x)] /\ UNCHANGED link
           \/ /\ runner[r].seen[x].status # "IGNORED"
              /\ \E p \in Resolution, byBarcode \in Resolution, identical \in SUBSET Catalog :
                   /\ p = MatchExternalProduct(runner[r].seen[x].product, byBarcode, identical)
                   /\ link' = [link EXCEPT ![x] = Saved(p)]
                   /\ runner' = [runner EXCEPT ![r] = LinkedTo(r, x, p)]
  <1> DEFINE linked == runner[r].seen[x].product
             Match(byBarcode, identical) == MatchExternalProduct(linked, byBarcode, identical)
  <1>1. CASE runner[r].seen[x].status = "IGNORED"
    BY <1>1 DEF LinkOne, LeftOut
  <1>2. CASE runner[r].seen[x].status # "IGNORED"
    <2>1. PICK byBarcode \in IF linked = NoProduct THEN Resolution ELSE {NoProduct},
               identical \in IF linked = NoProduct THEN SUBSET Catalog ELSE {{}} :
            /\ link' = [link EXCEPT ![x] = Saved(Match(byBarcode, identical))]
            /\ runner' = [runner EXCEPT ![r].todo = @ \ {x}, ![r].resolved[x] = Match(byBarcode, identical),
                            ![r].short = @ \/ Match(byBarcode, identical) = NoProduct]
      BY <1>2, ZenonT(60) DEF LinkOne
    <2>2. byBarcode \in Resolution /\ identical \in SUBSET Catalog
      BY DEF Resolution
    <2>3. linked \in Resolution
      BY DEF RunnersTyped, RunnerType, Link
    <2>4. PICK q \in Resolution : q = Match(byBarcode, identical)
      BY <2>2, <2>3, MatchIsAProduct
    <2>6. /\ link' = [link EXCEPT ![x] = Saved(q)]
          /\ runner' = [runner EXCEPT ![r].todo = @ \ {x}, ![r].resolved[x] = q,
                          ![r].short = @ \/ q = NoProduct]
      BY <2>1, <2>4
    <2>7. runner' = [runner EXCEPT ![r] = LinkedTo(r, x, q)]
      BY <2>6 DEF LinkedTo
    <2> HIDE DEF Match
    <2>5. \E p \in Resolution, b \in Resolution, i \in SUBSET Catalog :
            /\ p = Match(b, i)
            /\ link' = [link EXCEPT ![x] = Saved(p)]
            /\ runner' = [runner EXCEPT ![r] = LinkedTo(r, x, p)]
      BY <2>2, <2>4, <2>6, <2>7
    <2> QED
      BY <1>2, <2>5 DEF Match
  <1> QED
    BY <1>1, <1>2

\* What people do beside the imports, and what a merge does: no execution, job,
\* row or observation changes.
Beside == (PeopleStep /\ ~ImportNow) \/ MergeStep

LEMMA BesideImports ==
    ASSUME Beside
    PROVE  /\ UNCHANGED <<schedule, importJob, run, runner, prices, overtaken, struck>>
           /\ UNCHANGED source \/ source' = [source EXCEPT !.enabled = ~@]
           /\ UNCHANGED happenings \/ Happen
  <1>1. CASE UpdateSource
    BY <1>1 DEF UpdateSource
  <1>2. CASE LinkStore \/ UnlinkStore
    BY <1>2 DEF LinkStore, UnlinkStore
  <1>3. ASSUME NEW x, NEW p, ResolveLink(x, p)
        PROVE  /\ UNCHANGED <<schedule, importJob, run, runner, prices, overtaken, struck, source>>
               /\ Happen
    BY <1>3 DEF ResolveLink
  <1>4. ASSUME NEW e, FindDecided(e) \/ SaveDecision(e) \/ EditFails(e)
        PROVE  /\ UNCHANGED <<schedule, importJob, run, runner, prices, overtaken, struck, source>>
               /\ UNCHANGED happenings \/ Happen
    BY <1>4 DEF FindDecided, SaveDecision, EditFails, faulty
  <1>5. ASSUME NEW from, NEW into,
               MergeProducts(from, into) \/ MoveLinks(from, into) \/ MoveLost(from, into)
        PROVE  /\ UNCHANGED <<schedule, importJob, run, runner, prices, overtaken, struck, source>>
               /\ UNCHANGED happenings \/ Happen
    BY <1>5 DEF MergeProducts, MoveLinks, MoveLost, faulty
  <1>6. ASSUME NEW p, ReviveProduct(p)
        PROVE  /\ UNCHANGED <<schedule, importJob, run, runner, prices, overtaken, struck, source>>
               /\ Happen
    BY <1>6 DEF ReviveProduct
  <1> QED
    BY <1>1, <1>2, <1>3, <1>4, <1>5, <1>6 DEF Beside, PeopleStep, MergeStep

\* What is left of an execution near its end.
LEMMA EndingIsTyped ==
    ASSUME RunnersTyped, NEW r \in Runners, NEW pc \in {"finish", "outcome", "return"},
           NEW how \in RunStatus
    PROVE  /\ [AtRest EXCEPT !.pc = pc, !.day = runner[r].day, !.status = how] \in RunnerType
           /\ Ending(r, pc, how) =>
                /\ RunnersTyped'
                /\ runner'[r].pc = pc /\ runner'[r].day = runner[r].day /\ runner'[r].status = how
                /\ \A s \in Runners \ {r} : runner'[s] = runner[s]
  <1> DEFINE it == [AtRest EXCEPT !.pc = pc, !.day = runner[r].day, !.status = how]
  <1>1. runner[r].day \in Days
    BY DEF RunnersTyped, RunnerType
  <1>2. it \in RunnerType /\ it.pc = pc /\ it.day = runner[r].day /\ it.status = how
    BY <1>1, RestIsTyped DEF RunnerType
  <1>3. ASSUME Ending(r, pc, how) PROVE runner' = [runner EXCEPT ![r] = it]
    BY <1>3 DEF Ending
  <1> HIDE DEF it
  <1>4. ASSUME Ending(r, pc, how)
        PROVE  RunnersTyped' /\ runner'[r] = it /\ \A s \in Runners \ {r} : runner'[s] = runner[s]
    BY <1>2, <1>3, <1>4 DEF RunnersTyped
  <1>5. it \in RunnerType /\ (Ending(r, pc, how) =>
                /\ RunnersTyped'
                /\ runner'[r].pc = pc /\ runner'[r].day = runner[r].day /\ runner'[r].status = how
                /\ \A s \in Runners \ {r} : runner'[s] = runner[s])
    BY <1>2, <1>4
  <1> QED
    BY <1>5 DEF it

\* Whatever a step makes of an execution has the type of one.
LEMMA RunnersStep ==
    ASSUME ImportTyped, ImportNext
    PROVE  RunnersTyped'
  <1> USE DEF ImportTyped, RunnersTyped
  <1>1. ASSUME NEW r \in Runners, NEW it \in RunnerType, runner' = [runner EXCEPT ![r] = it]
        PROVE  RunnersTyped'
    BY <1>1
  <1>2. CASE UNCHANGED runner
    BY <1>2
  <1>3. ASSUME NEW r \in Runners, NEW pc \in Importing \cup {"create", "takeover", "finish", "outcome", "return"},
               Go(r, pc)
        PROVE  RunnersTyped'
    BY <1>3, ZenonT(60) DEF Go, RunnerType
  <1>4. ASSUME NEW r \in Runners, Fail(r)
        PROVE  RunnersTyped'
    BY <1>4, EndingIsTyped DEF Fail, RunStatus
  <1>5. ASSUME NEW r \in Runners, NEW d \in Days, Begin(r, d)
        PROVE  RunnersTyped'
    <2>1. [AtRest EXCEPT !.pc = "find", !.day = d] \in RunnerType
      BY RestIsTyped DEF RunnerType
    <2> QED
      BY <1>1, <1>5, <2>1 DEF Begin
  <1>6. ASSUME NEW r \in Runners, runner' = [runner EXCEPT ![r] = AtRest]
        PROVE  RunnersTyped'
    BY <1>1, <1>6, RestIsTyped
  <1>7. ASSUME NEW r \in Runners, RunnerStep(r)
        PROVE  RunnersTyped'
    <2>1. CASE FindRun(r)
      BY <1>3, <2>1 DEF FindRun
    <2>2. CASE CreateRun(r)
      BY <1>3, <2>2 DEF CreateRun, Importing
    <2>3. CASE TakeOverRun(r)
      BY <1>3, <2>3 DEF TakeOverRun, Importing
    <2>4. CASE FetchProducts(r)
      <3>1. ASSUME NEW feed \in SUBSET Externals
            PROVE  [runner[r] EXCEPT !.pc = "link", !.todo = feed, !.seen = link] \in RunnerType
        BY ZenonT(60) DEF RunnerType, LinksTyped, Importing
      <3>2. CASE ~Fail(r)
        <4>1. PICK feed \in SUBSET Externals :
                runner' = [runner EXCEPT ![r] =
                             [runner[r] EXCEPT !.pc = "link", !.todo = feed, !.seen = link]]
          BY <2>4, <3>2 DEF FetchProducts
        <4> QED
          BY <1>1, <3>1, <4>1
      <3> QED
        BY <1>4, <3>2
    <2>5. ASSUME NEW x \in Externals, LinkOne(r, x)
          PROVE  RunnersTyped'
      <3>1. LeftOut(r, x) \in RunnerType
        BY ZenonT(60) DEF RunnerType, LeftOut
      <3>2. ASSUME NEW p \in Resolution
            PROVE  LinkedTo(r, x, p) \in RunnerType
        BY ZenonT(60) DEF RunnerType, LinkedTo
      <3> QED
        BY <1>1, <2>5, <3>1, <3>2, LinkOneResolves
    <2>6. CASE HeartbeatAfterLinks(r)
      <3> DEFINE it == [runner[r] EXCEPT !.pc = "prices", !.seen = Unread]
      <3>1. it \in RunnerType
        BY RestIsTyped, ZenonT(60) DEF RunnerType, AtRest, Importing
      <3>2. runner' = [runner EXCEPT ![r] = it]
        BY <2>6 DEF HeartbeatAfterLinks
      <3> QED
        BY <1>1, <3>1, <3>2
    <2>7. CASE FetchPrices(r)
      <3> DEFINE Fed(feed) == [runner[r] EXCEPT !.pc = "batch", !.feed = feed,
                                 !.todo = Placed(r, feed), !.resolved = Unresolved,
                                 !.short = @ \/ Placed(r, feed) # feed]
      <3>1. ASSUME NEW feed \in SUBSET Externals PROVE Fed(feed) \in RunnerType
        <4>1. Placed(r, feed) \in SUBSET Externals
          BY DEF Placed
        <4>2. Unresolved \in [Externals -> Resolution]
          BY DEF Unresolved, Resolution
        <4> HIDE DEF Placed
        <4> QED
          BY <4>1, <4>2, ZenonT(60) DEF RunnerType, Importing
      <3>2. CASE ~Fail(r)
        <4>1. PICK feed \in SUBSET Externals :
                runner' = [runner EXCEPT ![r].pc = "batch", ![r].feed = feed,
                             ![r].todo = Placed(r, feed), ![r].resolved = Unresolved,
                             ![r].short = @ \/ Placed(r, feed) # feed]
          BY <2>7, <3>2 DEF FetchPrices
        <4>2. runner' = [runner EXCEPT ![r] = Fed(feed)]
          BY <4>1
        <4> QED
          BY <1>1, <3>1, <4>2
      <3> QED
        BY <1>4, <3>2
    <2>8. CASE HeartbeatBeforeBatch(r)
      BY <1>3, <2>8 DEF HeartbeatBeforeBatch, Importing
    <2>9. CASE ConfirmUnchanged(r)
      <3>1. PICK same : runner' = [runner EXCEPT ![r] =
                                     [runner[r] EXCEPT !.pc = "ingest", !.todo = @ \ same]]
        BY <2>9 DEF ConfirmUnchanged
      <3>2. [runner[r] EXCEPT !.pc = "ingest", !.todo = @ \ same] \in RunnerType
        BY ZenonT(60) DEF RunnerType, Importing
      <3> QED
        BY <1>1, <3>1, <3>2
    <2>10. ASSUME NEW x \in Externals, IngestOne(r, x)
           PROVE  RunnersTyped'
      <3>1. /\ [runner[r] EXCEPT !.todo = @ \ {x}] \in RunnerType
            /\ [runner[r] EXCEPT !.todo = @ \ {x}, !.short = TRUE] \in RunnerType
        BY ZenonT(60) DEF RunnerType
      <3>2. \/ runner' = [runner EXCEPT ![r] = [runner[r] EXCEPT !.todo = @ \ {x}]]
            \/ runner' = [runner EXCEPT ![r] = [runner[r] EXCEPT !.todo = @ \ {x}, !.short = TRUE]]
        BY <2>10 DEF IngestOne
      <3> QED
        BY <1>1, <3>1, <3>2
    <2>11. CASE Conclude(r)
      <3> DEFINE it == [runner[r] EXCEPT !.pc = "finish",
                          !.status = IF runner[r].short THEN "PARTIAL" ELSE "COMPLETED"]
      <3>1. it \in RunnerType
        BY ZenonT(60) DEF RunnerType, RunStatus
      <3>2. runner' = [runner EXCEPT ![r] = it]
        BY <2>11 DEF Conclude
      <3> QED
        BY <1>1, <3>1, <3>2
    <2>12. CASE FinishRun(r)
      <3>1. runner[r].status \in RunStatus
        BY DEF RunnerType
      <3> QED
        BY <2>12, <3>1, EndingIsTyped DEF FinishRun
    <2>13. CASE RecordRunOutcome(r)
      BY <2>13, EndingIsTyped DEF RecordRunOutcome, RunStatus
    <2>14. CASE ReturnImport(r)
      BY <1>6, <2>14 DEF ReturnImport
    <2> QED
      BY <1>7, <2>1, <2>2, <2>3, <2>4, <2>5, <2>6, <2>7, <2>8, <2>9, <2>10, <2>11, <2>12, <2>13, <2>14
      DEF RunnerStep
  <1>8. CASE ImportFault
    <2>1. ASSUME NEW r \in Runners, ImportBreaks(r)
          PROVE  RunnersTyped'
      BY <1>4, <2>1 DEF ImportBreaks
    <2>2. ASSUME NEW r \in Runners, ImportThrows(r) \/ ImportDies(r)
          PROVE  RunnersTyped'
      BY <1>6, <2>2 DEF ImportThrows, ImportDies
    <2>3. ASSUME NEW d \in Days, ImportLosesLock(d)
          PROVE  RunnersTyped'
      BY <1>2, <2>3 DEF ImportLosesLock
    <2> QED
      BY <1>8, <2>1, <2>2, <2>3 DEF ImportFault
  <1>9. CASE HandOutImport
    BY <1>5, <1>9 DEF HandOutImport, TakeImport, Runners
  <1>10. CASE ImportNow
    BY <1>5, <1>10, TodayIsADay DEF ImportNow, Runners, AroundTyped
  <1>11. CASE PassTime \/ ScheduleStep \/ RecoverImports \/ \E d \in Days : LeaseRunsOut(d)
    BY <1>2, <1>11
    DEF PassTime, ScheduleStep, ScheduleStart, ScheduleAsk, ScheduleAdd, RecoverImports,
        RecoverImport, LeaseRunsOut
  <1>12. CASE Beside
    BY <1>2, <1>12, BesideImports
  <1> QED
    BY <1>7, <1>8, <1>9, <1>10, <1>11, <1>12 DEF ImportNext, Beside

LEMMA RowsStep ==
    ASSUME ImportTyped, ImportNext
    PROVE  RowsTyped'
  <1> USE DEF ImportTyped, RowsTyped
  <1>0. \A r \in Runners : runner[r].day \in Days /\ runner[r].status \in RunStatus
                            /\ runner[r].feed \in SUBSET Externals
    BY DEF RunnersTyped, RunnerType
  <1>1. CASE UNCHANGED <<run, lastStarted>>
    BY <1>1
  <1>2. ASSUME NEW r \in Runners, CreateRun(r)
        PROVE  RowsTyped'
    BY <1>0, <1>2 DEF CreateRun, RowType, RunStatus
  <1>3. ASSUME NEW r \in Runners, TakeOverRun(r)
        PROVE  RowsTyped'
    BY <1>0, <1>3, ZenonT(60) DEF TakeOverRun, RowType
  <1>4. ASSUME NEW r \in Runners, HeartbeatAfterLinks(r) \/ HeartbeatBeforeBatch(r)
        PROVE  RowsTyped'
    <2>1. Beat(runner[r].day) \in [Days -> RowType]
      BY <1>0, ZenonT(60) DEF Beat, RowType
    <2> QED
      BY <1>4, <2>1 DEF HeartbeatAfterLinks, HeartbeatBeforeBatch, Inside, schedule
  <1>5. ASSUME NEW r \in Runners, FinishRun(r)
        PROVE  RowsTyped'
    <2>1. [run[runner[r].day] EXCEPT !.status = runner[r].status,
             !.feed = IF runner[r].status = "COMPLETED" THEN runner[r].feed ELSE {}] \in RowType
      BY <1>0 DEF RowType
    <2> QED
      BY <1>0, <1>5, <2>1 DEF FinishRun
  <1>6. ASSUME NEW d \in Days, LeaseRunsOut(d)
        PROVE  RowsTyped'
    BY <1>6 DEF LeaseRunsOut, schedule, RowType
  <1>7. CASE UNCHANGED run /\ UNCHANGED schedule
    BY <1>1, <1>7 DEF schedule
  <1>8. ASSUME NEW r \in Runners, RunnerStep(r)
        PROVE  RowsTyped'
    BY <1>1, <1>2, <1>3, <1>4, <1>5, <1>7, <1>8
    DEF RunnerStep, FindRun, FetchProducts, LinkOne, FetchPrices, ConfirmUnchanged, IngestOne,
        Conclude, RecordRunOutcome, ReturnImport, Inside
  <1>9. CASE PassTime \/ ScheduleStep \/ HandOutImport \/ RecoverImports \/ ImportNow \/ ImportFault
    BY <1>1, <1>7, <1>9
    DEF PassTime, ScheduleStep, ScheduleStart, ScheduleAsk, ScheduleAdd, HandOutImport, TakeImport,
        RecoverImports, RecoverImport, ImportNow,
        ImportFault, ImportBreaks, ImportThrows, ImportDies, ImportLosesLock
  <1>10. CASE Beside
    BY <1>7, <1>10, BesideImports
  <1> QED
    BY <1>6, <1>8, <1>9, <1>10 DEF ImportNext, Beside

\* The operator's request holds no job, so its end changes none.
LEMMA JobsStep ==
    ASSUME ImportTyped, ImportNext
    PROVE  JobsTyped'
  <1> USE DEF ImportTyped, JobsTyped
  <1>0. \A r \in Runners : runner[r].day \in Days
    BY DEF RunnersTyped, RunnerType
  <1>1. CASE UNCHANGED importJob
    BY <1>1
  <1>2. ASSUME NEW d \in Days, NEW j, SoundJob(j), importJob' = [importJob EXCEPT ![d] = j]
        PROVE  JobsTyped'
    BY <1>2 DEF SoundJob
  <1>3. ASSUME NEW d \in Days, NEW r \in Runners
        PROVE  SoundJob(Done(importJob[d], r)) /\ SoundJob(Threw(importJob[d], r))
    <2>1. CASE r \in Workers
      BY <2>1, JobOperations
    <2>2. CASE r = Operator
      <3>1. importJob[d].holder # r
        BY <2>2, ImportAssumption DEF Job
      <3> QED
        BY <3>1 DEF Done, Threw
    <2> QED
      BY <2>1, <2>2 DEF Runners
  <1>4. CASE ScheduleAdd
    BY <1>2, <1>4, JobOperations DEF ScheduleAdd, AroundTyped
  <1>5. ASSUME NEW w \in Workers, NEW d \in Days, TakeImport(w, d)
        PROVE  JobsTyped'
    BY <1>2, <1>5, JobOperations DEF TakeImport
  <1>6. ASSUME NEW r \in Runners, ReturnImport(r) \/ ImportThrows(r)
        PROVE  JobsTyped'
    BY <1>0, <1>2, <1>3, <1>6 DEF ReturnImport, ImportThrows
  <1>7. ASSUME NEW d \in Days, RecoverImport(d) \/ ImportLosesLock(d)
        PROVE  JobsTyped'
    BY <1>2, <1>7, JobOperations DEF RecoverImport, ImportLosesLock
  <1>8. ASSUME NEW r \in Runners, RunnerStep(r)
        PROVE  JobsTyped'
    BY <1>1, <1>6, <1>8
    DEF RunnerStep, FindRun, CreateRun, TakeOverRun, FetchProducts, LinkOne, HeartbeatAfterLinks,
        FetchPrices, HeartbeatBeforeBatch, ConfirmUnchanged, IngestOne, Conclude, FinishRun,
        RecordRunOutcome, Inside, Aside
  <1>9. CASE PassTime \/ ScheduleStart \/ ScheduleAsk \/ ImportNow \/ Beside \/ \E d \in Days : LeaseRunsOut(d)
    BY <1>1, <1>9, BesideImports DEF PassTime, ScheduleStart, ScheduleAsk, LeaseRunsOut, ImportNow
  <1>10. CASE ImportFault
    BY <1>1, <1>6, <1>7, <1>10 DEF ImportFault, ImportBreaks, ImportDies
  <1> QED
    BY <1>4, <1>5, <1>7, <1>8, <1>9, <1>10
    DEF ImportNext, ScheduleStep, HandOutImport, RecoverImports, Beside

LEMMA LinksStep ==
    ASSUME ImportTyped, ImportNext
    PROVE  LinksTyped'
  <1> USE DEF ImportTyped, LinksTyped
  <1>1. CASE UNCHANGED <<link, people>>
    BY <1>1 DEF people
  <1>2. ASSUME NEW r \in Runners, NEW x \in Externals, LinkOne(r, x)
        PROVE  LinksTyped'
    <2>1. ASSUME NEW p \in Resolution PROVE Saved(p) \in Link
      BY <2>1 DEF Saved, Link
    <2>3. UNCHANGED link \/ \E p \in Resolution : link' = [link EXCEPT ![x] = Saved(p)]
      BY <1>2, LinkOneResolves
    <2>4. link' \in [Externals -> Link]
      BY <2>1, <2>3
    <2> QED
      BY <1>2, <2>4 DEF LinkOne, Inside, people
  <1>3. ASSUME NEW x \in Externals, NEW p \in Resolution, ResolveLink(x, p)
        PROVE  LinksTyped'
    <2>1. [pc |-> IF p = NoProduct THEN "save" ELSE "check", of |-> x, to |-> p] \in Edit
      BY DEF Edit
    <2> QED
      BY <1>3, <2>1 DEF ResolveLink
  <1>4. ASSUME NEW e \in edits, FindDecided(e) \/ SaveDecision(e) \/ EditFails(e)
        PROVE  LinksTyped'
    <2>1. e \in Edit
      OBVIOUS
    <2>2. e.of \in Externals /\ e.to \in Resolution /\ [e EXCEPT !.pc = "save"] \in Edit
      BY <2>1 DEF Edit
    <2>3. CASE FindDecided(e)
      BY <2>2, <2>3 DEF FindDecided
    <2>4. CASE SaveDecision(e)
      <3>1. [status |-> IF e.to = NoProduct THEN "IGNORED" ELSE "MATCHED", product |-> e.to] \in Link
        BY <2>2 DEF Link
      <3> QED
        BY <2>2, <2>4, <3>1 DEF SaveDecision
    <2>5. CASE EditFails(e)
      BY <2>5 DEF EditFails
    <2> QED
      BY <1>4, <2>3, <2>4, <2>5
  <1>5. CASE PeopleStep
    BY <1>1, <1>3, <1>4, <1>5
    DEF PeopleStep, ImportNow, UpdateSource, LinkStore, UnlinkStore, people
  <1>8. CASE MergeStep
    <2>2. ASSUME NEW from \in Catalog, NEW into \in Catalog, MergeProducts(from, into)
          PROVE  LinksTyped'
      BY <2>2 DEF MergeProducts
    <2>3. ASSUME NEW from \in Catalog, NEW into \in Catalog, MoveLinks(from, into)
          PROVE  LinksTyped'
      BY <2>3 DEF MoveLinks, Link, Resolution
    <2>4. ASSUME NEW from \in Catalog, NEW into \in Catalog, MoveLost(from, into)
          PROVE  LinksTyped'
      BY <2>4 DEF MoveLost
    <2>5. ASSUME NEW p \in Catalog, ReviveProduct(p)
          PROVE  LinksTyped'
      BY <2>5 DEF ReviveProduct
    <2> QED
      BY <1>8, <2>2, <2>3, <2>4, <2>5 DEF MergeStep
  <1>6. ASSUME NEW r \in Runners, RunnerStep(r)
        PROVE  LinksTyped'
    BY <1>1, <1>2, <1>6
    DEF RunnerStep, FindRun, CreateRun, TakeOverRun, FetchProducts, HeartbeatAfterLinks,
        FetchPrices, HeartbeatBeforeBatch, ConfirmUnchanged, IngestOne, Conclude, FinishRun,
        RecordRunOutcome, ReturnImport, Inside, Aside
  <1>7. CASE \/ PassTime \/ ScheduleStep \/ HandOutImport \/ RecoverImports \/ ImportFault
             \/ \E d \in Days : LeaseRunsOut(d)
    BY <1>1, <1>7
    DEF PassTime, ScheduleStep, ScheduleStart, ScheduleAsk, ScheduleAdd, HandOutImport, TakeImport,
        RecoverImports, RecoverImport, LeaseRunsOut,
        ImportFault, ImportBreaks, ImportThrows, ImportDies, ImportLosesLock
  <1> QED
    BY <1>5, <1>6, <1>7, <1>8 DEF ImportNext

LEMMA PricesStep ==
    ASSUME ImportTyped, ImportNext
    PROVE  PricesTyped'
  <1> USE DEF ImportTyped, PricesTyped
  <1>0. \A r \in Runners : runner[r].day \in Days /\ runner[r].todo \in SUBSET Externals
    BY DEF RunnersTyped, RunnerType
  <1>1. CASE UNCHANGED prices
    BY <1>1 DEF prices
  <1>2. ASSUME NEW r \in Runners, ConfirmUnchanged(r)
        PROVE  PricesTyped'
    BY <1>0, <1>2 DEF ConfirmUnchanged
  <1>3. ASSUME NEW r \in Runners, NEW x \in Externals, IngestOne(r, x)
        PROVE  PricesTyped'
    BY <1>0, <1>3 DEF IngestOne
  <1>4. ASSUME NEW r \in Runners, RunnerStep(r)
        PROVE  PricesTyped'
    BY <1>1, <1>2, <1>3, <1>4
    DEF RunnerStep, FindRun, CreateRun, TakeOverRun, FetchProducts, LinkOne, HeartbeatAfterLinks,
        FetchPrices, HeartbeatBeforeBatch, Conclude, FinishRun,
        RecordRunOutcome, ReturnImport, Aside
  <1>5. CASE \/ PassTime \/ ScheduleStep \/ HandOutImport \/ RecoverImports \/ ImportFault
             \/ ImportNow \/ Beside \/ \E d \in Days : LeaseRunsOut(d)
    BY <1>1, <1>5, BesideImports
    DEF PassTime, ScheduleStep, ScheduleStart, ScheduleAsk, ScheduleAdd, HandOutImport, TakeImport,
        RecoverImports, RecoverImport, LeaseRunsOut, ImportNow,
        ImportFault, ImportBreaks, ImportThrows, ImportDies, ImportLosesLock
  <1> QED
    BY <1>4, <1>5 DEF ImportNext, Beside

LEMMA AroundStep ==
    ASSUME ImportTyped, ImportNext
    PROVE  AroundTyped'
  <1> USE ImportAssumption DEF ImportTyped, AroundTyped
  <1>0. \A r \in Runners : runner[r].day \in Days /\ runner[r].status \in RunStatus
    BY DEF RunnersTyped, RunnerType
  <1>1. CASE UNCHANGED <<halfDay, source, scheduler, overtaken, struck, happenings>>
    BY <1>1
  <1>2. CASE PassTime
    BY <1>2 DEF PassTime, faulty
  <1>3. CASE ScheduleStep
    BY <1>3, TodayIsADay
    DEF ScheduleStep, ScheduleStart, ScheduleAsk, ScheduleAdd, faulty
  <1>4. ASSUME NEW r \in Runners, TakeOverRun(r)
        PROVE  AroundTyped'
    BY <1>4 DEF TakeOverRun, NoteTakeover, Holding, Working, Aside, faulty
  <1>5. ASSUME NEW r \in Runners, RecordRunOutcome(r)
        PROVE  AroundTyped'
    BY <1>0, <1>5 DEF RecordRunOutcome, schedule, faulty
  <1>6. ASSUME NEW r \in Runners, RunnerStep(r)
        PROVE  AroundTyped'
    BY <1>1, <1>4, <1>5, <1>6
    DEF RunnerStep, FindRun, CreateRun, FetchProducts, LinkOne, HeartbeatAfterLinks,
        FetchPrices, HeartbeatBeforeBatch, ConfirmUnchanged, IngestOne, Conclude, FinishRun,
        ReturnImport, Inside, Aside, schedule, faulty
  <1>7. CASE HandOutImport \/ RecoverImports \/ \E d \in Days : LeaseRunsOut(d)
    BY <1>7 DEF HandOutImport, TakeImport, RecoverImports, RecoverImport, LeaseRunsOut, schedule, faulty
  <1>8. CASE ImportFault
    <2>1. PICK d \in Days : Strike(d) /\ UNCHANGED <<schedule, source, overtaken>>
      BY <1>0, <1>8 DEF ImportFault, ImportBreaks, ImportThrows, ImportDies, ImportLosesLock
    <2>2. happenings' \in 0 .. MaxHappenings
      BY <2>1 DEF Strike, Happen
    <2>3. struck' \subseteq Days
      BY <2>1 DEF Strike
    <2> QED
      BY <2>1, <2>2, <2>3 DEF schedule
  <1>9. CASE ImportNow
    BY <1>9 DEF ImportNow, Happen, schedule
  <1>10. CASE Beside
    <2>1. UNCHANGED <<halfDay, scheduler, overtaken, struck>>
      BY <1>10, BesideImports DEF schedule
    <2>2. source' \in {source, [source EXCEPT !.enabled = ~@]}
      BY <1>10, BesideImports
    <2>3. happenings' \in 0 .. MaxHappenings
      BY <1>10, BesideImports DEF Happen
    <2> QED
      BY <2>1, <2>2, <2>3
  <1> QED
    BY <1>2, <1>3, <1>6, <1>7, <1>8, <1>9, <1>10 DEF ImportNext, Beside

LEMMA ImportTypedStep == ImportTyped /\ [ImportNext]_importVars => ImportTyped'
  <1>1. ASSUME ImportTyped, ImportNext PROVE ImportTyped'
    BY <1>1, RunnersStep, RowsStep, JobsStep, LinksStep, PricesStep, AroundStep DEF ImportTyped
  <1>2. ASSUME ImportTyped, UNCHANGED importVars PROVE ImportTyped'
    BY <1>2
    DEF importVars, ImportTyped, RunnersTyped, RowsTyped, JobsTyped, LinksTyped, PricesTyped, AroundTyped
  <1> QED
    BY <1>1, <1>2

LEMMA ImportTypedAlways == ImportSpec => []ImportTyped
  BY ImportTypedInit, ImportTypedStep, PTL DEF ImportSpec

\* Every step of the imports, their scheduler, their faults and the people
\* around them keeps the state well typed.
THEOREM ImportsKeepTypes == ImportSpec => []ImportTypeOK
  BY ImportTypedAlways, ImportTypedIsTypeOK, PTL

-----------------------------------------------------------------------------
(***************************************************************************)
(* Who holds a run.  Every step of every execution, as what becomes of one *)
(* day's holders and its row.                                              *)
(***************************************************************************)
Held(it) == it.pc \in Importing \cup {"finish"}

\* Nobody holds a run that was never created; an execution that ends one knows
\* how it ended.
HeldRunsExist ==
    \A r \in Runners :
        /\ Held(runner[r]) => run[runner[r].day].status # "NONE"
        /\ runner[r].pc = "finish" => runner[r].status # "STARTED"

\* Executions at one day's run that no takeover has put aside are one.
HoldersAgree ==
    \A r, s \in Runners \ overtaken :
        Held(runner[r]) /\ Held(runner[s]) /\ runner[r].day = runner[s].day => r = s

\* Each run under way has a holder, unless a fault struck it.
HoldersRemain ==
    \A d \in Days : run[d].status = "STARTED" /\ d \notin struck =>
        \E r \in Runners : Held(runner[r]) /\ runner[r].day = d

Custody == HeldRunsExist /\ HoldersAgree /\ HoldersRemain

LEMMA CustodyInit == ImportInit => Custody
  BY DEF ImportInit, Custody, HeldRunsExist, HoldersAgree, HoldersRemain, Held, AtRest, Importing, NoRun

\* What an execution becomes when it keeps its day and its run.
Keeps(r) ==
    /\ \A s \in Runners \ {r} : runner'[s] = runner[s]
    /\ runner'[r].day = runner[r].day
    /\ Held(runner'[r]) <=> Held(runner[r])
    /\ runner'[r].pc = "finish" => runner'[r].status # "STARTED"

LEMMA CustodyKept ==
    ASSUME ImportTyped, Custody, NEW r \in Runners, Keeps(r),
           \A d \in Days : run'[d].status = run[d].status,
           UNCHANGED overtaken, struck \subseteq struck'
    PROVE  Custody'
  <1>0. \A s \in Runners : runner[s].day \in Days
    BY DEF ImportTyped, RunnersTyped, RunnerType
  <1>1. \A s \in Runners :
          /\ Held(runner'[s]) <=> Held(runner[s])
          /\ runner'[s].day = runner[s].day
    BY DEF Keeps
  <1>2. HeldRunsExist'
    <2>1. ASSUME NEW s \in Runners, Held(runner'[s]) PROVE run'[runner'[s].day].status # "NONE"
      BY <1>0, <1>1, <2>1 DEF Custody, HeldRunsExist
    <2>2. ASSUME NEW s \in Runners, runner'[s].pc = "finish" PROVE runner'[s].status # "STARTED"
      BY <2>2 DEF Custody, HeldRunsExist, Keeps
    <2> QED
      BY <2>1, <2>2 DEF HeldRunsExist
  <1>3. HoldersAgree'
    BY <1>1 DEF Custody, HoldersAgree
  <1>4. HoldersRemain'
    <2> SUFFICES ASSUME NEW d \in Days, run'[d].status = "STARTED", d \notin struck'
                 PROVE  \E s \in Runners : Held(runner'[s]) /\ runner'[s].day = d
      BY DEF HoldersRemain
    <2>1. PICK s \in Runners : Held(runner[s]) /\ runner[s].day = d
      BY DEF Custody, HoldersRemain
    <2> QED
      BY <1>1, <2>1
  <1> QED
    BY <1>2, <1>3, <1>4 DEF Custody

\* An execution that does not hold a run comes or goes.
LEMMA CustodyOfOthers ==
    ASSUME ImportTyped, Custody, NEW r \in Runners,
           \A s \in Runners \ {r} : runner'[s] = runner[s],
           ~Held(runner[r]), ~Held(runner'[r]),
           UNCHANGED run, overtaken' \in {overtaken, overtaken \ {r}}, struck \subseteq struck'
    PROVE  Custody'
  <1>1. runner'[r].pc # "finish"
    BY DEF Held
  <1>2. HeldRunsExist'
    BY <1>1 DEF Custody, HeldRunsExist, Held
  <1>3. HoldersAgree'
    BY DEF Custody, HoldersAgree, Held
  <1>4. HoldersRemain'
    BY DEF Custody, HoldersRemain, Held
  <1> QED
    BY <1>2, <1>3, <1>4 DEF Custody

\* An execution that holds the run of a day gives it up to a fault.
LEMMA CustodyLost ==
    ASSUME ImportTyped, Custody, NEW r \in Runners,
           runner' = [runner EXCEPT ![r] = AtRest],
           UNCHANGED <<run, overtaken>>, struck' = struck \cup {runner[r].day}
    PROVE  Custody'
  <1>1. ~Held(runner'[r]) /\ runner'[r].pc # "finish" /\ \A s \in Runners \ {r} : runner'[s] = runner[s]
    BY DEF Held, AtRest, Importing, ImportTyped, RunnersTyped
  <1>2. HeldRunsExist'
    BY <1>1 DEF Custody, HeldRunsExist, Held
  <1>3. HoldersAgree'
    BY <1>1 DEF Custody, HoldersAgree, Held
  <1>4. HoldersRemain'
    BY <1>1 DEF Custody, HoldersRemain, Held
  <1> QED
    BY <1>2, <1>3, <1>4 DEF Custody

\* The unique key: the row is there for one trigger to create, when nobody
\* holds the run yet.
LEMMA CustodyCreated ==
    ASSUME ImportTyped, Custody, NEW r \in Runners, CreateRun(r)
    PROVE  Custody'
  <1> DEFINE d == runner[r].day
  <1>0. \A s \in Runners : runner[s].day \in Days
    BY DEF ImportTyped, RunnersTyped, RunnerType
  <1>1. CASE run[d].status = "NONE"
    <2>1. /\ runner' = [runner EXCEPT ![r].pc = "products"]
          /\ run' = [run EXCEPT ![d].status = "STARTED"]
          /\ UNCHANGED <<overtaken, struck>>
      BY <1>1 DEF CreateRun, Go, Aside, faulty
    <2>2. /\ Held(runner'[r]) /\ runner'[r].day = d /\ runner'[r].pc = "products"
          /\ \A s \in Runners \ {r} : runner'[s] = runner[s]
      BY <2>1 DEF ImportTyped, RunnersTyped, RunnerType, Held, Importing
    <2>3. \A s \in Runners : Held(runner[s]) => runner[s].day # d
      BY <1>1 DEF Custody, HeldRunsExist
    <2>4. /\ run'[d].status = "STARTED" /\ \A e \in Days \ {d} : run'[e] = run[e]
      BY <1>0, <2>1 DEF ImportTyped, RowsTyped, RowType
    <2>5. HeldRunsExist'
      BY <1>0, <2>2, <2>4 DEF Custody, HeldRunsExist, Held
    <2>6. HoldersAgree'
      BY <2>1, <2>2, <2>3 DEF Custody, HoldersAgree, Held
    <2>7. HoldersRemain'
      BY <2>1, <2>2, <2>3, <2>4 DEF Custody, HoldersRemain, Held
    <2> QED
      BY <2>5, <2>6, <2>7 DEF Custody
  <1>2. CASE run[d].status # "NONE"
    <2>1. /\ \E pc \in {"takeover", "return"} : runner' = [runner EXCEPT ![r].pc = pc]
          /\ UNCHANGED <<run, overtaken, struck>>
      BY <1>2 DEF CreateRun, Go, Aside, faulty
    <2>2. ~Held(runner[r]) /\ ~Held(runner'[r]) /\ \A s \in Runners \ {r} : runner'[s] = runner[s]
      BY <2>1 DEF CreateRun, ImportTyped, RunnersTyped, RunnerType, Held, Importing
    <2> QED
      BY <2>1, <2>2, CustodyOfOthers
  <1> QED
    BY <1>1, <1>2

\* The conditional update: who wins it puts every other holder aside.
LEMMA CustodyTaken ==
    ASSUME ImportTyped, Custody, NEW r \in Runners, TakeOverRun(r)
    PROVE  Custody'
  <1> DEFINE d == runner[r].day
             won == run[d].status = "STARTED" /\ run[d].stale
  <1>0. \A s \in Runners : runner[s].day \in Days
    BY DEF ImportTyped, RunnersTyped, RunnerType
  <1>1. CASE won
    <2>1. /\ runner' = [runner EXCEPT ![r].pc = "products"]
          /\ run' = [run EXCEPT ![d].stale = FALSE]
          /\ overtaken' = overtaken \cup Holding(d)
          /\ UNCHANGED struck
      BY <1>1 DEF TakeOverRun, NoteTakeover, Go, Aside, faulty
    <2>2. /\ Held(runner'[r]) /\ runner'[r].day = d /\ runner'[r].pc = "products"
          /\ \A s \in Runners \ {r} : runner'[s] = runner[s]
      BY <2>1 DEF ImportTyped, RunnersTyped, RunnerType, Held, Importing
    <2>3. \A e \in Days : run'[e].status = run[e].status
      BY <1>0, <2>1 DEF ImportTyped, RowsTyped, RowType
    <2>4. \A s \in Runners : Held(runner[s]) /\ runner[s].day = d => s \in overtaken'
      BY <2>1 DEF Holding, Working, Held, Importing
    <2>5. HeldRunsExist'
      BY <1>0, <1>1, <2>2, <2>3 DEF Custody, HeldRunsExist, Held
    <2>6. HoldersAgree'
      BY <2>1, <2>2, <2>4 DEF Custody, HoldersAgree, Held
    <2>7. HoldersRemain'
      <3>1. ~Held(runner[r])
        BY DEF TakeOverRun, Held, Importing
      <3>2. ASSUME NEW e \in Days, run'[e].status = "STARTED", e \notin struck'
            PROVE  \E s \in Runners : Held(runner'[s]) /\ runner'[s].day = e
        <4>1. PICK s \in Runners : Held(runner[s]) /\ runner[s].day = e
          BY <2>1, <2>3, <3>2 DEF Custody, HoldersRemain
        <4>2. runner'[s] = runner[s]
          BY <2>2, <3>1, <4>1
        <4>3. QED
          BY <4>1, <4>2
      <3>3. QED
        BY <3>2 DEF HoldersRemain
    <2> QED
      BY <2>5, <2>6, <2>7 DEF Custody
  <1>2. CASE ~won
    <2>1. runner' = [runner EXCEPT ![r].pc = "return"] /\ UNCHANGED <<run, overtaken, struck>>
      BY <1>2 DEF TakeOverRun, NoteTakeover, Go, Aside, faulty
    <2>2. ~Held(runner[r]) /\ ~Held(runner'[r]) /\ \A s \in Runners \ {r} : runner'[s] = runner[s]
      BY <2>1 DEF TakeOverRun, ImportTyped, RunnersTyped, RunnerType, Held, Importing
    <2> QED
      BY <2>1, <2>2, CustodyOfOthers
  <1> QED
    BY <1>1, <1>2

\* A run that ends is not under way, whoever else still holds it.
LEMMA CustodyFinished ==
    ASSUME ImportTyped, Custody, NEW r \in Runners, FinishRun(r)
    PROVE  Custody'
  <1> DEFINE d == runner[r].day
  <1>0. \A s \in Runners : runner[s].day \in Days
    BY DEF ImportTyped, RunnersTyped, RunnerType
  <1>1. /\ Ending(r, "outcome", runner[r].status) /\ runner[r].status \in RunStatus
        /\ UNCHANGED <<overtaken, struck>>
    BY DEF FinishRun, Aside, faulty, ImportTyped, RunnersTyped, RunnerType
  <1>2. /\ ~Held(runner'[r]) /\ runner'[r].pc = "outcome"
        /\ \A s \in Runners \ {r} : runner'[s] = runner[s]
    BY <1>1, EndingIsTyped DEF ImportTyped, Held, Importing
  <1>3. runner[r].status \in RunStatus \ {"STARTED"}
    BY DEF FinishRun, Custody, HeldRunsExist, ImportTyped, RunnersTyped, RunnerType
  <1>4. /\ run'[d].status = runner[r].status
        /\ \A e \in Days \ {d} : run'[e] = run[e]
    BY <1>0 DEF FinishRun, ImportTyped, RowsTyped, RowType
  <1>5. HeldRunsExist'
    BY <1>0, <1>2, <1>3, <1>4 DEF Custody, HeldRunsExist, Held, RunStatus
  <1>6. HoldersAgree'
    BY <1>1, <1>2 DEF Custody, HoldersAgree, Held
  <1>7. HoldersRemain'
    BY <1>1, <1>2, <1>3, <1>4 DEF Custody, HoldersRemain, Held
  <1> QED
    BY <1>5, <1>6, <1>7 DEF Custody

LEMMA CustodyStep == ImportTyped /\ Custody /\ [ImportNext]_importVars => Custody'
  <1> SUFFICES ASSUME ImportTyped, Custody, [ImportNext]_importVars PROVE Custody'
    OBVIOUS
  <1>0. /\ runner \in [Runners -> RunnerType] /\ run \in [Days -> RowType]
        /\ \A r \in Runners : runner[r] \in RunnerType /\ runner[r].day \in Days
    BY DEF ImportTyped, RunnersTyped, RunnerType, RowsTyped
  <1>1. CASE UNCHANGED <<runner, run, overtaken>> /\ struck \subseteq struck'
    BY <1>1 DEF Custody, HeldRunsExist, HoldersAgree, HoldersRemain, Held
  \* The steps of importFrom: an execution goes on holding its run, or ends it.
  <1>2. ASSUME NEW r \in Runners, NEW it, runner' = [runner EXCEPT ![r] = it],
               it.day = runner[r].day, Held(runner[r]), Held(it),
               it.pc = "finish" => it.status # "STARTED",
               \A d \in Days : run'[d].status = run[d].status,
               UNCHANGED overtaken, struck \subseteq struck'
        PROVE  Custody'
    <2>1. runner'[r] = it /\ \A s \in Runners \ {r} : runner'[s] = runner[s]
      BY <1>0, <1>2
    <2>2. Keeps(r)
      BY <1>2, <2>1 DEF Keeps
    <2> QED
      BY <1>2, <2>2, CustodyKept
  <1>3. ASSUME NEW r \in Runners, Fail(r), runner[r].pc \in Importing,
               UNCHANGED <<run, overtaken>>, struck \subseteq struck'
        PROVE  Custody'
    <2> DEFINE it == [AtRest EXCEPT !.pc = "finish", !.day = runner[r].day, !.status = "FAILED"]
    <2>1. it.day = runner[r].day /\ it.pc = "finish" /\ it.status = "FAILED"
      BY DEF AtRest
    <2>2. runner' = [runner EXCEPT ![r] = it]
      BY <1>3 DEF Fail, Ending
    <2> QED
      BY <1>2, <1>3, <2>1, <2>2 DEF Held
  <1>4. ASSUME NEW d \in Days
        PROVE  \A e \in Days : Beat(d)[e].status = run[e].status
    BY <1>0 DEF Beat, RowType
  <1>5. ASSUME NEW r \in Runners, RunnerStep(r)
        PROVE  Custody'
    <2> UNCHANGED struck
      BY <1>5
      DEF RunnerStep, FindRun, CreateRun, TakeOverRun, FetchProducts, LinkOne, HeartbeatAfterLinks,
          FetchPrices, HeartbeatBeforeBatch, ConfirmUnchanged, IngestOne, Conclude, FinishRun,
          RecordRunOutcome, ReturnImport, Inside, Aside, faulty
    <2>1. CASE FindRun(r)
      <3>1. /\ \E pc \in {"create", "takeover", "return"} : runner' = [runner EXCEPT ![r].pc = pc]
            /\ UNCHANGED <<run, overtaken>>
        BY <2>1 DEF FindRun, Go
      <3>2. ~Held(runner[r]) /\ ~Held(runner'[r]) /\ \A s \in Runners \ {r} : runner'[s] = runner[s]
        BY <1>0, <2>1, <3>1 DEF FindRun, RunnerType, Held, Importing
      <3> QED
        BY <3>1, <3>2, CustodyOfOthers
    <2>2. CASE CreateRun(r)
      BY <2>2, CustodyCreated
    <2>3. CASE TakeOverRun(r)
      BY <2>3, CustodyTaken
    <2>4. CASE FetchProducts(r)
      <3>1. runner[r].pc \in Importing /\ UNCHANGED <<run, overtaken>>
        BY <2>4 DEF FetchProducts, Importing, Inside
      <3>2. CASE ~Fail(r)
        <4>1. PICK feed : runner' = [runner EXCEPT ![r] =
                                       [runner[r] EXCEPT !.pc = "link", !.todo = feed, !.seen = link]]
          BY <2>4, <3>2 DEF FetchProducts
        <4>2. /\ [runner[r] EXCEPT !.pc = "link", !.todo = feed, !.seen = link].day = runner[r].day
              /\ [runner[r] EXCEPT !.pc = "link", !.todo = feed, !.seen = link].pc = "link"
          BY <1>0 DEF RunnerType
        <4> QED
          BY <1>2, <3>1, <4>1, <4>2 DEF Held, Importing
      <3> QED
        BY <1>3, <3>1, <3>2
    <2>5. ASSUME NEW x \in Externals, LinkOne(r, x)
          PROVE  Custody'
      <3>1. PICK p : \/ runner' = [runner EXCEPT ![r].todo = @ \ {x}]
                     \/ runner' = [runner EXCEPT ![r].todo = @ \ {x}, ![r].resolved[x] = p,
                                                ![r].short = @ \/ p = NoProduct]
        BY <2>5 DEF LinkOne
      <3>2. runner'[r].pc = runner[r].pc /\ runner'[r].day = runner[r].day
        BY <1>0, <3>1 DEF RunnerType
      <3>3. runner[r].pc = "link" /\ UNCHANGED <<run, overtaken>>
        BY <2>5 DEF LinkOne, Inside
      <3>4. \A s \in Runners \ {r} : runner'[s] = runner[s]
        BY <1>0, <3>1
      <3>5. Keeps(r)
        BY <3>2, <3>3, <3>4 DEF Keeps, Held
      <3> QED
        BY <3>3, <3>5, CustodyKept
    <2>6. CASE HeartbeatAfterLinks(r)
      <3>1. /\ runner'[r].pc = "prices" /\ runner'[r].day = runner[r].day
            /\ \A s \in Runners \ {r} : runner'[s] = runner[s]
            /\ runner[r].pc = "link" /\ run' = Beat(runner[r].day) /\ UNCHANGED overtaken
        BY <1>0, <2>6 DEF HeartbeatAfterLinks, RunnerType, Inside
      <3>2. Keeps(r)
        BY <3>1 DEF Keeps, Held, Importing
      <3> QED
        BY <1>0, <1>4, <3>1, <3>2, CustodyKept
    <2>7. CASE FetchPrices(r)
      <3>1. runner[r].pc = "prices" /\ UNCHANGED <<run, overtaken>>
        BY <2>7 DEF FetchPrices, Inside
      <3>2. CASE ~Fail(r)
        <4>1. /\ runner'[r].pc = "batch" /\ runner'[r].day = runner[r].day
              /\ \A s \in Runners \ {r} : runner'[s] = runner[s]
          <5>1. PICK feed :
                  runner' = [runner EXCEPT ![r].pc = "batch", ![r].feed = feed,
                               ![r].todo = Placed(r, feed), ![r].resolved = Unresolved,
                               ![r].short = @ \/ Placed(r, feed) # feed]
            BY <2>7, <3>2 DEF FetchPrices
          <5> QED
            BY <1>0, <5>1 DEF RunnerType
        <4>2. Keeps(r)
          BY <3>1, <4>1 DEF Keeps, Held, Importing
        <4> QED
          BY <3>1, <4>2, CustodyKept
      <3> QED
        BY <1>3, <3>1, <3>2 DEF Importing
    <2>8. CASE HeartbeatBeforeBatch(r)
      <3>1. /\ runner'[r].pc = "confirm" /\ runner'[r].day = runner[r].day
            /\ \A s \in Runners \ {r} : runner'[s] = runner[s]
            /\ runner[r].pc = "batch" /\ run' = Beat(runner[r].day) /\ UNCHANGED overtaken
        BY <1>0, <2>8 DEF HeartbeatBeforeBatch, Go, RunnerType, Inside
      <3>2. Keeps(r)
        BY <3>1 DEF Keeps, Held, Importing
      <3> QED
        BY <1>0, <1>4, <3>1, <3>2, CustodyKept
    <2>9. CASE ConfirmUnchanged(r)
      <3>1. /\ runner'[r].pc = "ingest" /\ runner'[r].day = runner[r].day
            /\ \A s \in Runners \ {r} : runner'[s] = runner[s]
            /\ runner[r].pc = "confirm" /\ UNCHANGED <<run, overtaken>>
        BY <1>0, <2>9 DEF ConfirmUnchanged, RunnerType, Inside
      <3>2. Keeps(r)
        BY <3>1 DEF Keeps, Held, Importing
      <3> QED
        BY <3>1, <3>2, CustodyKept
    <2>10. ASSUME NEW x \in Externals, IngestOne(r, x)
           PROVE  Custody'
      <3>1. /\ runner'[r].pc = "ingest" /\ runner'[r].day = runner[r].day
            /\ \A s \in Runners \ {r} : runner'[s] = runner[s]
            /\ runner[r].pc = "ingest" /\ UNCHANGED <<run, overtaken>>
        BY <1>0, <2>10 DEF IngestOne, RunnerType, Inside
      <3>2. Keeps(r)
        BY <3>1 DEF Keeps, Held, Importing
      <3> QED
        BY <3>1, <3>2, CustodyKept
    <2>11. CASE Conclude(r)
      <3>1. /\ runner'[r].pc = "finish" /\ runner'[r].day = runner[r].day
            /\ runner'[r].status \in {"PARTIAL", "COMPLETED"}
            /\ \A s \in Runners \ {r} : runner'[s] = runner[s]
            /\ runner[r].pc \in {"batch", "ingest"} /\ UNCHANGED <<run, overtaken>>
        BY <1>0, <2>11 DEF Conclude, RunnerType, Inside
      <3>2. Keeps(r)
        BY <3>1 DEF Keeps, Held, Importing
      <3> QED
        BY <3>1, <3>2, CustodyKept
    <2>12. CASE FinishRun(r)
      BY <2>12, CustodyFinished
    <2>13. CASE RecordRunOutcome(r) \/ ReturnImport(r)
      <3>1. /\ Ending(r, "return", "STARTED") \/ runner' = [runner EXCEPT ![r] = AtRest]
            /\ UNCHANGED <<run, overtaken>> /\ runner[r].pc \in {"outcome", "return"}
        BY <2>13 DEF RecordRunOutcome, ReturnImport
      <3>2. runner'[r].pc \in {"return", "idle"} /\ \A s \in Runners \ {r} : runner'[s] = runner[s]
        <4>1. CASE Ending(r, "return", "STARTED")
          BY <4>1, EndingIsTyped DEF ImportTyped, RunStatus
        <4>2. CASE runner' = [runner EXCEPT ![r] = AtRest]
          BY <1>0, <4>2 DEF AtRest
        <4> QED
          BY <3>1, <4>1, <4>2
      <3>3. ~Held(runner[r]) /\ ~Held(runner'[r])
        BY <3>1, <3>2 DEF Held, Importing
      <3> QED
        BY <3>1, <3>2, <3>3, CustodyOfOthers
    <2> QED
      BY <1>5, <2>1, <2>2, <2>3, <2>4, <2>5, <2>6, <2>7, <2>8, <2>9, <2>10, <2>11, <2>12, <2>13
      DEF RunnerStep
  <1>6. ASSUME NEW d \in Days, LeaseRunsOut(d)
        PROVE  Custody'
    <2>1. /\ \A e \in Days : run'[e].status = run[e].status
          /\ UNCHANGED <<runner, overtaken, struck>>
      BY <1>0, <1>6 DEF LeaseRunsOut, RowType, faulty
    <2> QED
      BY <1>0, <2>1 DEF Custody, HeldRunsExist, HoldersAgree, HoldersRemain, Held
  <1>7. ASSUME NEW r \in Runners, NEW d \in Days, Begin(r, d), runner[r].pc = "idle",
               overtaken' = overtaken \ {r}, UNCHANGED <<run, struck>>
        PROVE  Custody'
    <2>1. ~Held(runner[r]) /\ ~Held(runner'[r]) /\ \A s \in Runners \ {r} : runner'[s] = runner[s]
      BY <1>0, <1>7 DEF Begin, AtRest, Held, Importing
    <2> QED
      BY <1>7, <2>1, CustodyOfOthers
  <1>8. CASE HandOutImport
    BY <1>7, <1>8 DEF HandOutImport, TakeImport, Runners, faulty
  <1>9. CASE ImportNow
    BY <1>7, <1>9, TodayIsADay DEF ImportNow, Runners, ImportTyped, AroundTyped
  <1>10. CASE ImportFault
    <2>1. ASSUME NEW r \in Runners, ImportBreaks(r)
          PROVE  Custody'
      BY <1>3, <2>1 DEF ImportBreaks, Strike
    <2>2. ASSUME NEW r \in Runners, ImportThrows(r) \/ ImportDies(r)
          PROVE  Custody'
      BY <2>2, CustodyLost DEF ImportThrows, ImportDies, Strike
    <2>3. ASSUME NEW d \in Days, ImportLosesLock(d)
          PROVE  Custody'
      BY <1>1, <2>3 DEF ImportLosesLock, Strike
    <2> QED
      BY <1>10, <2>1, <2>2, <2>3 DEF ImportFault
  <1>11. CASE PassTime \/ ScheduleStep \/ RecoverImports \/ Beside \/ UNCHANGED importVars
    BY <1>1, <1>11, BesideImports
    DEF PassTime, ScheduleStep, ScheduleStart, ScheduleAsk, ScheduleAdd, RecoverImports,
        RecoverImport, importVars, faulty
  <1> QED
    BY <1>5, <1>6, <1>8, <1>9, <1>10, <1>11 DEF ImportNext, Beside

LEMMA CustodyAlways == ImportSpec => [](ImportTyped /\ Custody)
  <1>1. ImportInit => ImportTyped /\ Custody
    BY ImportTypedInit, CustodyInit
  <1>2. ImportTyped /\ Custody /\ [ImportNext]_importVars => (ImportTyped /\ Custody)'
    BY ImportTypedStep, CustodyStep
  <1> QED
    BY <1>1, <1>2, PTL DEF ImportSpec

\* A set any two members of which are equal has one at most.
LEMMA AtMostOne ==
    ASSUME NEW S, \A a, b \in S : a = b
    PROVE  Cardinality(S) <= 1
  <1>1. CASE S = {}
    BY <1>1, FS_EmptySet
  <1>2. ASSUME NEW a \in S
        PROVE  Cardinality(S) <= 1
    <2>1. S = {a}
      OBVIOUS
    <2> QED
      BY <2>1, FS_Singleton
  <1> QED
    BY <1>1, <1>2

\* However triggers, retries, takeovers and faults interleave, at most one
\* execution works on a day's run that no takeover has put aside.
THEOREM OneRunner == ImportSpec => []OneRunnerPerRun
  <1>1. ImportTyped /\ Custody => OneRunnerPerRun
    <2> SUFFICES ASSUME ImportTyped, Custody, NEW d \in Days
                 PROVE  Cardinality(Holding(d) \ overtaken) <= 1
      BY DEF OneRunnerPerRun
    <2>1. \A r, s \in Holding(d) \ overtaken : r = s
      BY DEF Custody, HoldersAgree, Holding, Working, Held
    <2> HIDE DEF Holding
    <2> QED
      BY <2>1, AtMostOne
  <1> QED
    BY <1>1, CustodyAlways, PTL

-----------------------------------------------------------------------------
(***************************************************************************)
(* What a run's record says of its prices.                                 *)
(***************************************************************************)
Used(d) == observed[d] \cup confirmed[d]

\* Until something of it falls short, what an execution read of the feed is
\* still to be done, or used.
Accounted(it) ==
    /\ it.pc \in {"batch", "confirm", "ingest"} /\ ~it.short => it.feed \subseteq it.todo \cup Used(it.day)
    /\ it.pc = "finish" /\ it.status = "COMPLETED" => it.feed \subseteq Used(it.day)

Accounts == CompletedMeansUsed /\ \A r \in Runners : Accounted(runner[r])

LEMMA AccountsInit == ImportInit => Accounts
  BY DEF ImportInit, Accounts, CompletedMeansUsed, Accounted, NoRun, AtRest

\* Nothing that was used stops being so.
LEMMA UsedGrows ==
    ASSUME ImportTyped, ImportNext
    PROVE  \A d \in Days : Used(d) \subseteq Used(d)'
  <1>0. \A r \in Runners : runner[r].day \in Days
    BY DEF ImportTyped, RunnersTyped, RunnerType
  <1>1. CASE UNCHANGED prices
    BY <1>1 DEF prices, Used
  <1>2. ASSUME NEW r \in Runners, ConfirmUnchanged(r)
        PROVE  \A d \in Days : Used(d) \subseteq Used(d)'
    BY <1>0, <1>2 DEF ConfirmUnchanged, Used, ImportTyped, PricesTyped
  <1>3. ASSUME NEW r \in Runners, NEW x \in Externals, IngestOne(r, x)
        PROVE  \A d \in Days : Used(d) \subseteq Used(d)'
    BY <1>0, <1>3 DEF IngestOne, Used, ImportTyped, PricesTyped
  <1>4. ASSUME NEW r \in Runners, RunnerStep(r)
        PROVE  \A d \in Days : Used(d) \subseteq Used(d)'
    BY <1>1, <1>2, <1>3, <1>4
    DEF RunnerStep, FindRun, CreateRun, TakeOverRun, FetchProducts, LinkOne, HeartbeatAfterLinks,
        FetchPrices, HeartbeatBeforeBatch, Conclude, FinishRun, RecordRunOutcome, ReturnImport, Aside
  <1>5. CASE \/ PassTime \/ ScheduleStep \/ HandOutImport \/ RecoverImports \/ ImportFault
             \/ ImportNow \/ Beside \/ \E d \in Days : LeaseRunsOut(d)
    BY <1>1, <1>5, BesideImports
    DEF PassTime, ScheduleStep, ScheduleStart, ScheduleAsk, ScheduleAdd, HandOutImport, TakeImport,
        RecoverImports, RecoverImport, LeaseRunsOut, ImportNow,
        ImportFault, ImportBreaks, ImportThrows, ImportDies, ImportLosesLock
  <1> QED
    BY <1>4, <1>5 DEF ImportNext, Beside

LEMMA AccountsStep == ImportTyped /\ Accounts /\ [ImportNext]_importVars => Accounts'
  <1> SUFFICES ASSUME ImportTyped, Accounts, [ImportNext]_importVars PROVE Accounts'
    OBVIOUS
  <1>0. /\ runner \in [Runners -> RunnerType] /\ run \in [Days -> RowType]
        /\ \A r \in Runners : runner[r] \in RunnerType /\ runner[r].day \in Days
    BY DEF ImportTyped, RunnersTyped, RunnerType, RowsTyped
  <1>g. \A d \in Days : Used(d) \subseteq Used(d)'
    BY UsedGrows DEF importVars, Used
  \* An execution that is accounted for stays so while others work.
  <1>k. ASSUME NEW r \in Runners PROVE Accounted(runner[r])'
        \/ runner'[r] # runner[r]
    BY <1>0, <1>g DEF Accounts, Accounted
  <1>1. ASSUME \A d \in Days : run'[d].status = run[d].status /\ run'[d].feed = run[d].feed
        PROVE  CompletedMeansUsed'
    BY <1>g, <1>1 DEF Accounts, CompletedMeansUsed, Used
  <1>2. ASSUME NEW r \in Runners, NEW it, runner' = [runner EXCEPT ![r] = it], Accounted(it)'
        PROVE  \A s \in Runners : Accounted(runner[s])'
    BY <1>0, <1>k, <1>2
  <1>3. ASSUME UNCHANGED runner PROVE \A s \in Runners : Accounted(runner[s])'
    BY <1>3, <1>k
  \* Steps that leave an execution with no feed to account for.
  <1>4. ASSUME NEW r \in Runners, NEW it, runner' = [runner EXCEPT ![r] = it],
               it.pc \notin {"batch", "confirm", "ingest"},
               it.pc = "finish" => it.status # "COMPLETED"
        PROVE  \A s \in Runners : Accounted(runner[s])'
    <2>1. Accounted(it)'
      BY <1>4 DEF Accounted
    <2> QED
      BY <1>2, <1>4, <2>1
  <1>5. ASSUME NEW r \in Runners, Fail(r)
        PROVE  \A s \in Runners : Accounted(runner[s])'
    <2> DEFINE it == [AtRest EXCEPT !.pc = "finish", !.day = runner[r].day, !.status = "FAILED"]
    <2>1. it.pc = "finish" /\ it.status = "FAILED"
      BY DEF AtRest
    <2> QED
      BY <1>4, <1>5, <2>1 DEF Fail, Ending
  <1>6. ASSUME NEW r \in Runners, runner' = [runner EXCEPT ![r] = AtRest]
        PROVE  \A s \in Runners : Accounted(runner[s])'
    BY <1>4, <1>6 DEF AtRest
  <1>7. ASSUME NEW r \in Runners, NEW pc \in {"products", "create", "takeover", "return"}, Go(r, pc)
        PROVE  \A s \in Runners : Accounted(runner[s])'
    <2>1. [runner[r] EXCEPT !.pc = pc].pc = pc
      BY <1>0 DEF RunnerType
    <2> QED
      BY <1>4, <1>7, <2>1 DEF Go
  <1>e. ASSUME NEW r \in Runners, NEW pc \in {"outcome", "return"}, NEW how, Ending(r, pc, how)
        PROVE  \A s \in Runners : Accounted(runner[s])'
    <2> DEFINE it == [AtRest EXCEPT !.pc = pc, !.day = runner[r].day, !.status = how]
    <2>1. it.pc = pc
      BY DEF AtRest
    <2> QED
      BY <1>4, <1>e, <2>1 DEF Ending
  <1>8. ASSUME NEW r \in Runners, FindRun(r) \/ CreateRun(r) \/ TakeOverRun(r)
        PROVE  Accounts'
    <2>1. \E pc \in {"products", "create", "takeover", "return"} : Go(r, pc)
      BY <1>8 DEF FindRun, CreateRun, TakeOverRun
    <2>2. \A s \in Runners : Accounted(runner[s])'
      BY <1>7, <2>1
    <2>3. \A d \in Days : \/ run'[d].status = run[d].status /\ run'[d].feed = run[d].feed
                          \/ run'[d].status = "STARTED"
      BY <1>0, <1>8 DEF FindRun, CreateRun, TakeOverRun, RowType
    <2>4. CompletedMeansUsed'
      BY <1>g, <2>3 DEF Accounts, CompletedMeansUsed, Used
    <2> QED
      BY <2>2, <2>4 DEF Accounts
  <1>9. ASSUME NEW d \in Days
        PROVE  \A e \in Days : Beat(d)[e].status = run[e].status /\ Beat(d)[e].feed = run[e].feed
    BY <1>0 DEF Beat, RowType
  <1>10. ASSUME NEW r \in Runners, RunnerStep(r), UNCHANGED run \/ run' = Beat(runner[r].day),
                \A s \in Runners : Accounted(runner[s])'
         PROVE  Accounts'
    BY <1>0, <1>1, <1>9, <1>10 DEF Accounts
  <1>11. ASSUME NEW r \in Runners, FetchProducts(r)
         PROVE  \A s \in Runners : Accounted(runner[s])'
    <2>1. CASE ~Fail(r)
      <3>1. PICK feed : runner' = [runner EXCEPT ![r] =
                                     [runner[r] EXCEPT !.pc = "link", !.todo = feed, !.seen = link]]
        BY <1>11, <2>1 DEF FetchProducts
      <3>2. [runner[r] EXCEPT !.pc = "link", !.todo = feed, !.seen = link].pc = "link"
        BY <1>0 DEF RunnerType
      <3> QED
        BY <1>4, <3>1, <3>2
    <2> QED
      BY <1>5, <2>1
  <1>12. ASSUME NEW r \in Runners, NEW x \in Externals, LinkOne(r, x)
         PROVE  \A s \in Runners : Accounted(runner[s])'
    <2>1. \/ runner' = [runner EXCEPT ![r] = LeftOut(r, x)]
          \/ \E p : runner' = [runner EXCEPT ![r] = LinkedTo(r, x, p)]
      BY <1>12, LinkOneResolves DEF ImportTyped
    <2>2. LeftOut(r, x).pc = "link" /\ \A p : LinkedTo(r, x, p).pc = "link"
      BY <1>0, <1>12 DEF LinkOne, RunnerType, LeftOut, LinkedTo
    <2> QED
      BY <1>4, <2>1, <2>2
  <1>13. ASSUME NEW r \in Runners, HeartbeatAfterLinks(r)
         PROVE  \A s \in Runners : Accounted(runner[s])'
    <2>1. [runner[r] EXCEPT !.pc = "prices", !.seen = Unread].pc = "prices"
      BY <1>0 DEF RunnerType
    <2>2. runner' = [runner EXCEPT ![r] = [runner[r] EXCEPT !.pc = "prices", !.seen = Unread]]
      BY <1>13 DEF HeartbeatAfterLinks
    <2> QED
      BY <1>4, <2>1, <2>2
  <1>14. ASSUME NEW r \in Runners, FetchPrices(r)
         PROVE  \A s \in Runners : Accounted(runner[s])'
    <2>1. CASE ~Fail(r)
      <3>1. PICK feed :
              runner' = [runner EXCEPT ![r].pc = "batch", ![r].feed = feed,
                           ![r].todo = Placed(r, feed), ![r].resolved = Unresolved,
                           ![r].short = @ \/ Placed(r, feed) # feed]
        BY <1>14, <2>1 DEF FetchPrices
      <3>2. PICK it : it = [runner[r] EXCEPT !.pc = "batch", !.feed = feed, !.todo = Placed(r, feed),
                          !.resolved = Unresolved, !.short = @ \/ Placed(r, feed) # feed]
        OBVIOUS
      <3>3. /\ it.pc = "batch" /\ it.feed = feed /\ it.todo = Placed(r, feed)
            /\ ~it.short => Placed(r, feed) = feed
        BY <1>0, <3>2 DEF RunnerType
      <3>4. runner' = [runner EXCEPT ![r] = it]
        BY <3>1, <3>2
      <3>5. Accounted(it)'
        BY <3>3 DEF Accounted
      <3> QED
        BY <1>2, <3>4, <3>5
    <2> QED
      BY <1>5, <2>1
  <1>15. ASSUME NEW r \in Runners, HeartbeatBeforeBatch(r)
         PROVE  \A s \in Runners : Accounted(runner[s])'
    <2>1. PICK it : it = [runner[r] EXCEPT !.pc = "confirm"]
      OBVIOUS
    <2>2. /\ it.pc = "confirm" /\ it.feed = runner[r].feed /\ it.todo = runner[r].todo
          /\ it.short = runner[r].short /\ it.day = runner[r].day
      BY <1>0, <2>1 DEF RunnerType
    <2>3. runner' = [runner EXCEPT ![r] = it] /\ runner[r].pc = "batch"
      BY <1>15, <2>1 DEF HeartbeatBeforeBatch, Go
    <2>4. Accounted(it)'
      BY <1>0, <1>g, <2>2, <2>3 DEF Accounts, Accounted
    <2> QED
      BY <1>2, <2>3, <2>4
  <1>16. ASSUME NEW r \in Runners, ConfirmUnchanged(r)
         PROVE  \A s \in Runners : Accounted(runner[s])'
    <2>1. PICK same :
            /\ confirmed' = [confirmed EXCEPT ![runner[r].day] = @ \cup same]
            /\ runner' = [runner EXCEPT ![r].pc = "ingest", ![r].todo = @ \ same]
      BY <1>16 DEF ConfirmUnchanged
    <2>2. PICK it : it = [runner[r] EXCEPT !.pc = "ingest", !.todo = @ \ same]
      OBVIOUS
    <2>3. /\ it.pc = "ingest" /\ it.feed = runner[r].feed /\ it.todo = runner[r].todo \ same
          /\ it.short = runner[r].short /\ it.day = runner[r].day
      BY <1>0, <2>2 DEF RunnerType
    <2>4. same \subseteq Used(it.day)'
      BY <1>0, <2>1, <2>3 DEF Used, ImportTyped, PricesTyped
    <2>5. runner[r].pc = "confirm" /\ runner' = [runner EXCEPT ![r] = it]
      BY <1>16, <2>1, <2>2 DEF ConfirmUnchanged
    <2>6. Accounted(it)'
      BY <1>0, <1>g, <2>3, <2>4, <2>5 DEF Accounts, Accounted
    <2> QED
      BY <1>2, <2>5, <2>6
  <1>17. ASSUME NEW r \in Runners, NEW x \in Externals, IngestOne(r, x)
         PROVE  \A s \in Runners : Accounted(runner[s])'
    <2>1. CASE /\ observed' = [observed EXCEPT ![runner[r].day] = @ \cup {x}]
               /\ runner' = [runner EXCEPT ![r].todo = @ \ {x}]
      <3>1. PICK it : it = [runner[r] EXCEPT !.todo = @ \ {x}]
        OBVIOUS
      <3>2. /\ it.pc = "ingest" /\ it.feed = runner[r].feed /\ it.todo = runner[r].todo \ {x}
            /\ it.short = runner[r].short /\ it.day = runner[r].day /\ runner[r].pc = "ingest"
        BY <1>0, <1>17, <3>1 DEF IngestOne, RunnerType
      <3>3. x \in Used(it.day)'
        BY <1>0, <2>1, <3>2 DEF Used, ImportTyped, PricesTyped
      <3>4. runner' = [runner EXCEPT ![r] = it]
        BY <2>1, <3>1
      <3>5. Accounted(it)'
        BY <1>0, <1>g, <3>2, <3>3 DEF Accounts, Accounted
      <3> QED
        BY <1>2, <3>4, <3>5
    <2>2. CASE runner' = [runner EXCEPT ![r].todo = @ \ {x}, ![r].short = TRUE]
      <3>1. PICK it : it = [runner[r] EXCEPT !.todo = @ \ {x}, !.short = TRUE]
        OBVIOUS
      <3>2. it.pc = "ingest" /\ it.short
        BY <1>0, <1>17, <3>1 DEF IngestOne, RunnerType
      <3>3. runner' = [runner EXCEPT ![r] = it]
        BY <2>2, <3>1
      <3>4. Accounted(it)'
        BY <3>2 DEF Accounted
      <3> QED
        BY <1>2, <3>3, <3>4
    <2> QED
      BY <1>17, <2>1, <2>2 DEF IngestOne
  <1>18. ASSUME NEW r \in Runners, Conclude(r)
         PROVE  \A s \in Runners : Accounted(runner[s])'
    <2>1. PICK it : it = [runner[r] EXCEPT !.pc = "finish",
                            !.status = IF runner[r].short THEN "PARTIAL" ELSE "COMPLETED"]
      OBVIOUS
    <2>2. /\ it.pc = "finish" /\ it.feed = runner[r].feed /\ it.day = runner[r].day
          /\ it.status = "COMPLETED" => ~runner[r].short
      BY <1>0, <2>1 DEF RunnerType
    <2>3. runner' = [runner EXCEPT ![r] = it] /\ runner[r].pc \in {"batch", "ingest"} /\ runner[r].todo = {}
      BY <1>18, <2>1 DEF Conclude
    <2>4. Accounted(it)'
      BY <1>0, <1>g, <2>2, <2>3 DEF Accounts, Accounted
    <2> QED
      BY <1>2, <2>3, <2>4
  <1>19. ASSUME NEW r \in Runners, FinishRun(r)
         PROVE  Accounts'
    <2>1. \A s \in Runners : Accounted(runner[s])'
      BY <1>e, <1>19 DEF FinishRun
    <2> DEFINE d == runner[r].day
    <2>2. run' = [run EXCEPT ![d] = [run[d] EXCEPT !.status = runner[r].status,
                    !.feed = IF runner[r].status = "COMPLETED" THEN runner[r].feed ELSE {}]]
      BY <1>19 DEF FinishRun
    <2>3. /\ run'[d].status = runner[r].status
          /\ run'[d].status = "COMPLETED" => run'[d].feed = runner[r].feed
          /\ \A e \in Days \ {d} : run'[e] = run[e]
      BY <1>0, <2>2 DEF RowType
    <2>4. runner[r].status = "COMPLETED" => runner[r].feed \subseteq Used(d)
      BY <1>19 DEF FinishRun, Accounts, Accounted
    <2>5. CompletedMeansUsed'
      BY <1>0, <1>g, <2>3, <2>4 DEF Accounts, CompletedMeansUsed, Used
    <2> QED
      BY <2>1, <2>5 DEF Accounts
  <1>20. ASSUME NEW r \in Runners, RecordRunOutcome(r) \/ ReturnImport(r)
         PROVE  \A s \in Runners : Accounted(runner[s])'
    BY <1>6, <1>e, <1>20 DEF RecordRunOutcome, ReturnImport
  <1>21. ASSUME NEW r \in Runners, RunnerStep(r)
         PROVE  Accounts'
    <2>1. \/ FindRun(r) \/ CreateRun(r) \/ TakeOverRun(r) \/ FinishRun(r)
          \/ UNCHANGED run \/ run' = Beat(runner[r].day)
      BY <1>21
      DEF RunnerStep, FetchProducts, LinkOne, HeartbeatAfterLinks, FetchPrices, HeartbeatBeforeBatch,
          ConfirmUnchanged, IngestOne, Conclude, RecordRunOutcome, ReturnImport
    <2>2. \/ FindRun(r) \/ CreateRun(r) \/ TakeOverRun(r) \/ FinishRun(r)
          \/ \A s \in Runners : Accounted(runner[s])'
      BY <1>11, <1>12, <1>13, <1>14, <1>15, <1>16, <1>17, <1>18, <1>20, <1>21 DEF RunnerStep
    <2> QED
      BY <1>8, <1>10, <1>19, <1>21, <2>1, <2>2
  <1>22. CASE ImportFault
    <2>1. UNCHANGED run
      BY <1>22 DEF ImportFault, ImportBreaks, ImportThrows, ImportDies, ImportLosesLock
    <2>2. \A s \in Runners : Accounted(runner[s])'
      BY <1>3, <1>5, <1>6, <1>22 DEF ImportFault, ImportBreaks, ImportThrows, ImportDies, ImportLosesLock
    <2> QED
      BY <1>1, <2>1, <2>2 DEF Accounts
  <1>23. ASSUME NEW r \in Runners, NEW d \in Days, Begin(r, d), UNCHANGED run
         PROVE  Accounts'
    <2>1. [AtRest EXCEPT !.pc = "find", !.day = d].pc = "find"
      BY DEF AtRest
    <2>2. \A s \in Runners : Accounted(runner[s])'
      BY <1>4, <1>23, <2>1 DEF Begin
    <2> QED
      BY <1>1, <1>23, <2>2 DEF Accounts
  <1>24. CASE HandOutImport \/ ImportNow
    BY <1>23, <1>24, TodayIsADay DEF HandOutImport, TakeImport, ImportNow, Runners, ImportTyped, AroundTyped
  <1>25. ASSUME NEW d \in Days, LeaseRunsOut(d)
         PROVE  Accounts'
    <2>1. \A e \in Days : run'[e].status = run[e].status /\ run'[e].feed = run[e].feed
      BY <1>0, <1>25 DEF LeaseRunsOut, RowType
    <2> QED
      BY <1>1, <1>3, <1>25, <2>1 DEF LeaseRunsOut, Accounts
  <1>26. CASE PassTime \/ ScheduleStep \/ RecoverImports \/ Beside \/ UNCHANGED importVars
    <2>1. UNCHANGED <<run, runner>>
      BY <1>26, BesideImports
      DEF PassTime, ScheduleStep, ScheduleStart, ScheduleAsk, ScheduleAdd, RecoverImports,
          RecoverImport, importVars
    <2> QED
      BY <1>1, <1>3, <2>1 DEF Accounts
  <1> QED
    BY <1>21, <1>22, <1>24, <1>25, <1>26 DEF ImportNext, Beside

\* A run that ended COMPLETED used all its prices, and a run under way is in
\* somebody's hands, unless a fault struck its day.
THEOREM RecordsAreTrue == ImportSpec => []RunsTellTheTruth
  <1>1. ImportTyped /\ Custody /\ Accounts => RunsTellTheTruth
    BY DEF Custody, HoldersRemain, Held, Accounts, RunsTellTheTruth, StartedRunIsHeld, Holding, Working,
           Importing
  <1>2. ImportInit => ImportTyped /\ Custody /\ Accounts
    BY ImportTypedInit, CustodyInit, AccountsInit
  <1>3. ImportTyped /\ Custody /\ Accounts /\ [ImportNext]_importVars => (ImportTyped /\ Custody /\ Accounts)'
    BY ImportTypedStep, CustodyStep, AccountsStep
  <1> QED
    BY <1>1, <1>2, <1>3, PTL DEF ImportSpec

-----------------------------------------------------------------------------
(***************************************************************************)
(* What a person decided, and what the links lead to.                      *)
(***************************************************************************)
\* A link, or an older reading of one, that still says what was decided: nothing
\* worth matching, or a product that by merges became the one it leads to.
Tells(it, of, merges) ==
    /\ of = NoProduct => it.status = "IGNORED"
    /\ of \in Catalog =>
         /\ it.status = "MATCHED" /\ it.product \in Catalog
         /\ \A S \in SUBSET Catalog :
              of \in S /\ (\A m \in merges : m[1] \in S => m[2] \in S) => it.product \in S

\* Readings still to be saved over a link are as true as the link itself.
Readings ==
    \A x \in Externals \ raced :
        /\ Tells(link[x], decided[x], merged)
        /\ \A r \in Runners : runner[r].pc = "link" /\ x \in runner[r].todo =>
              Tells(runner[r].seen[x], decided[x], merged)

\* Links move only to the product the one they lead to was merged into.
MovesFollow == moves \subseteq merged

LEMMA ReadingsInit == ImportInit => Readings /\ MovesFollow
  <1> SUFFICES ASSUME ImportInit
               PROVE  /\ \A x \in Externals : Tells(link[x], decided[x], merged)
                      /\ \A r \in Runners : runner[r].pc # "link"
                      /\ moves = {}
    BY DEF Readings, MovesFollow
  <1> USE ImportAssumption DEF ImportInit
  <1>1. ASSUME NEW x \in Externals PROVE Tells(link[x], decided[x], merged)
    <2>1. decided[x] = "undecided"
      OBVIOUS
    <2> QED
      BY <2>1 DEF Tells
  <1> QED
    BY <1>1 DEF AtRest

\* What is saved of a reading that still tells the decision tells it too: a
\* decided product is saved as it is.
LEMMA SavedTells ==
    ASSUME NEW of, NEW merges, NEW it \in Link, Tells(it, of, merges), it.status # "IGNORED",
           NEW byBarcode \in Resolution, NEW identical \in SUBSET Catalog
    PROVE  Tells(Saved(MatchExternalProduct(it.product, byBarcode, identical)), of, merges)
  <1> DEFINE p == MatchExternalProduct(it.product, byBarcode, identical)
  <1>1. it.product \in Resolution
    BY DEF Link
  <1>2. it.product # NoProduct => p = it.product
    BY <1>1, MatchIsAProduct
  <1> HIDE DEF p
  <1>3. of # NoProduct
    BY DEF Tells
  <1>4. of \in Catalog => p = it.product /\ p # NoProduct
    BY <1>2, ImportAssumption DEF Tells
  <1>5. of \in Catalog => Saved(p).status = "MATCHED" /\ Saved(p).product = it.product
    BY <1>4 DEF Saved
  <1>6. Tells(Saved(p), of, merges)
    BY <1>3, <1>5 DEF Tells
  <1> QED
    BY <1>6 DEF p

\* A merge leaves every reading true: what became of a product before still did.
LEMMA TellsAfterMerge ==
    ASSUME NEW from, NEW into, NEW it, NEW of, Tells(it, of, merged)
    PROVE  Tells(it, of, merged \cup {<<from, into>>})
  BY DEF Tells

LEMMA MovesStep == ImportTyped /\ MovesFollow /\ [ImportNext]_importVars => MovesFollow'
  <1> SUFFICES ASSUME ImportTyped, MovesFollow, [ImportNext]_importVars PROVE MovesFollow'
    OBVIOUS
  <1>1. CASE UNCHANGED <<merged, moves>>
    BY <1>1 DEF MovesFollow
  <1>2. ASSUME NEW from \in Catalog, NEW into \in Catalog,
               MergeProducts(from, into) \/ MoveLinks(from, into) \/ MoveLost(from, into)
        PROVE  MovesFollow'
    <2>1. CASE MergeProducts(from, into)
      BY <2>1 DEF MergeProducts, MovesFollow
    <2>2. CASE MoveLinks(from, into) \/ MoveLost(from, into)
      BY <2>2 DEF MoveLinks, MoveLost, MovesFollow
    <2> QED
      BY <1>2, <2>1, <2>2
  <1>6. ASSUME NEW p \in Catalog, ReviveProduct(p)
        PROVE  MovesFollow'
    BY <1>1, <1>6 DEF ReviveProduct
  <1>3. ASSUME NEW r \in Runners, RunnerStep(r)
        PROVE  MovesFollow'
    BY <1>1, <1>3
    DEF RunnerStep, FindRun, CreateRun, TakeOverRun, FetchProducts, LinkOne, HeartbeatAfterLinks,
        FetchPrices, HeartbeatBeforeBatch, ConfirmUnchanged, IngestOne, Conclude, FinishRun,
        RecordRunOutcome, ReturnImport, Inside, Aside, people
  <1>4. CASE PeopleStep
    BY <1>1, <1>4
    DEF PeopleStep, ImportNow, UpdateSource, LinkStore, UnlinkStore, ResolveLink, FindDecided,
        SaveDecision, EditFails, people
  <1>5. CASE \/ PassTime \/ ScheduleStep \/ HandOutImport \/ RecoverImports \/ ImportFault
             \/ (\E d \in Days : LeaseRunsOut(d)) \/ UNCHANGED importVars
    BY <1>1, <1>5
    DEF PassTime, ScheduleStep, ScheduleStart, ScheduleAsk, ScheduleAdd, HandOutImport, TakeImport,
        RecoverImports, RecoverImport, LeaseRunsOut, importVars, people,
        ImportFault, ImportBreaks, ImportThrows, ImportDies, ImportLosesLock
  <1> QED
    BY <1>2, <1>3, <1>4, <1>5, <1>6 DEF ImportNext, MergeStep

LEMMA ReadingsStep == ImportTyped /\ Readings /\ MovesFollow /\ [ImportNext]_importVars => Readings'
  <1> SUFFICES ASSUME ImportTyped, Readings, MovesFollow, [ImportNext]_importVars PROVE Readings'
    OBVIOUS
  <1>0. /\ runner \in [Runners -> RunnerType]
        /\ \A r \in Runners : runner[r] \in RunnerType
        /\ link \in [Externals -> Link]
    BY DEF ImportTyped, RunnersTyped, LinksTyped
  \* Executions stop looking at links, or look at no more of them.
  <1>1. ASSUME UNCHANGED <<link, decided, merged, raced>>,
               \A r \in Runners : runner'[r].pc = "link" =>
                  /\ runner[r].pc = "link" /\ runner'[r].todo \subseteq runner[r].todo
                  /\ runner'[r].seen = runner[r].seen
        PROVE  Readings'
    BY <1>1 DEF Readings
  <1>2. ASSUME UNCHANGED <<link, decided, merged, raced>>, NEW r \in Runners, NEW it,
               runner' = [runner EXCEPT ![r] = it], it.pc # "link"
        PROVE  Readings'
    BY <1>0, <1>1, <1>2
  <1>3. ASSUME UNCHANGED <<link, decided, merged, raced>>, UNCHANGED runner
        PROVE  Readings'
    BY <1>1, <1>3
  <1>4. ASSUME UNCHANGED <<link, decided, merged, raced>>, NEW r \in Runners, Fail(r)
        PROVE  Readings'
    <2> DEFINE it == [AtRest EXCEPT !.pc = "finish", !.day = runner[r].day, !.status = "FAILED"]
    <2>1. it.pc = "finish"
      BY DEF AtRest
    <2> QED
      BY <1>2, <1>4, <2>1 DEF Fail, Ending
  <1>5. ASSUME UNCHANGED <<link, decided, merged, raced>>, NEW r \in Runners,
               runner' = [runner EXCEPT ![r] = AtRest]
        PROVE  Readings'
    <2>1. AtRest.pc # "link"
      BY DEF AtRest
    <2> QED
      BY <1>2, <1>5, <2>1
  <1>6. ASSUME UNCHANGED <<link, decided, merged, raced>>, NEW r \in Runners, NEW pc, Go(r, pc), pc # "link"
        PROVE  Readings'
    <2>1. [runner[r] EXCEPT !.pc = pc].pc = pc
      BY <1>0 DEF RunnerType
    <2> QED
      BY <1>2, <1>6, <2>1 DEF Go
  <1>e. ASSUME UNCHANGED <<link, decided, merged, raced>>, NEW r \in Runners,
               NEW pc, NEW how, Ending(r, pc, how), pc # "link"
        PROVE  Readings'
    <2> DEFINE it == [AtRest EXCEPT !.pc = pc, !.day = runner[r].day, !.status = how]
    <2>1. it.pc = pc
      BY DEF AtRest
    <2> QED
      BY <1>2, <1>e, <2>1 DEF Ending
  \* The links are read, all at once, as they are.
  <1>7. ASSUME NEW r \in Runners, FetchProducts(r)
        PROVE  Readings'
    <2>1. UNCHANGED <<link, decided, merged, raced>>
      BY <1>7 DEF FetchProducts, Inside, people
    <2>2. CASE ~Fail(r)
      <3>1. PICK feed : runner' = [runner EXCEPT ![r] =
                                     [runner[r] EXCEPT !.pc = "link", !.todo = feed, !.seen = link]]
        BY <1>7, <2>2 DEF FetchProducts
      <3>2. runner'[r].seen = link /\ \A s \in Runners \ {r} : runner'[s] = runner[s]
        BY <1>0, <3>1 DEF RunnerType
      <3> QED
        BY <2>1, <3>2 DEF Readings
    <2> QED
      BY <1>4, <2>1, <2>2
  \* A reading is saved over the link, which other edits may have changed.
  <1>8. ASSUME NEW r \in Runners, NEW x \in Externals, LinkOne(r, x)
        PROVE  Readings'
    <2>1. UNCHANGED <<decided, merged, raced>> /\ runner[r].pc = "link" /\ x \in runner[r].todo
      BY <1>8 DEF LinkOne, Inside, people
    <2>4. \/ runner' = [runner EXCEPT ![r] = LeftOut(r, x)] /\ UNCHANGED link
          \/ /\ runner[r].seen[x].status # "IGNORED"
             /\ \E p \in Resolution, byBarcode \in Resolution, identical \in SUBSET Catalog :
                  /\ p = MatchExternalProduct(runner[r].seen[x].product, byBarcode, identical)
                  /\ link' = [link EXCEPT ![x] = Saved(p)]
                  /\ runner' = [runner EXCEPT ![r] = LinkedTo(r, x, p)]
      BY <1>8, LinkOneResolves DEF ImportTyped
    <2>2. ASSUME NEW p
          PROVE  /\ LeftOut(r, x).seen = runner[r].seen /\ LinkedTo(r, x, p).seen = runner[r].seen
                 /\ LeftOut(r, x).todo = runner[r].todo \ {x}
                 /\ LinkedTo(r, x, p).todo = runner[r].todo \ {x}
      BY <1>0 DEF RunnerType, LeftOut, LinkedTo
    <2>5. /\ runner'[r].seen = runner[r].seen /\ runner'[r].todo = runner[r].todo \ {x}
          /\ \A s \in Runners \ {r} : runner'[s] = runner[s]
      BY <1>0, <2>2, <2>4
    <2>6. CASE UNCHANGED link
      BY <1>1, <2>1, <2>5, <2>6
    <2>7. ASSUME runner[r].seen[x].status # "IGNORED",
                 NEW p \in Resolution, NEW byBarcode \in Resolution, NEW identical \in SUBSET Catalog,
                 p = MatchExternalProduct(runner[r].seen[x].product, byBarcode, identical),
                 link' = [link EXCEPT ![x] = Saved(p)]
          PROVE  Readings'
      <3>1. runner[r].seen[x] \in Link
        BY <1>0 DEF RunnerType
      <3>2. x \notin raced => Tells(Saved(p), decided[x], merged)
        BY <2>1, <2>7, <3>1, SavedTells DEF Readings
      <3>3. \A y \in Externals \ raced : Tells(link'[y], decided[y], merged)
        BY <1>0, <2>7, <3>2 DEF Readings
      <3>4. \A y \in Externals \ raced, s \in Runners :
              runner'[s].pc = "link" /\ y \in runner'[s].todo =>
                Tells(runner'[s].seen[y], decided[y], merged)
        BY <2>1, <2>5 DEF Readings
      <3> QED
        BY <2>1, <3>3, <3>4 DEF Readings
    <2> QED
      BY <2>4, <2>6, <2>7
  <1>9. ASSUME NEW r \in Runners, RunnerStep(r)
        PROVE  Readings'
    <2>1. UNCHANGED <<decided, merged, raced>>
      BY <1>9
      DEF RunnerStep, FindRun, CreateRun, TakeOverRun, FetchProducts, LinkOne, HeartbeatAfterLinks,
          FetchPrices, HeartbeatBeforeBatch, ConfirmUnchanged, IngestOne, Conclude, FinishRun,
          RecordRunOutcome, ReturnImport, Inside, Aside, people
    <2>2. CASE FindRun(r) \/ CreateRun(r) \/ TakeOverRun(r)
      BY <1>6, <2>1, <2>2 DEF FindRun, CreateRun, TakeOverRun, Aside
    <2>8. CASE FinishRun(r) \/ RecordRunOutcome(r)
      BY <1>e, <2>1, <2>8 DEF FinishRun, RecordRunOutcome, Aside
    <2>3. CASE HeartbeatAfterLinks(r) \/ HeartbeatBeforeBatch(r) \/ ConfirmUnchanged(r) \/ Conclude(r)
      <3>1. runner'[r].pc # "link" /\ \A s \in Runners \ {r} : runner'[s] = runner[s]
        BY <1>0, <2>3 DEF HeartbeatAfterLinks, HeartbeatBeforeBatch, Go, ConfirmUnchanged, Conclude, RunnerType
      <3>2. UNCHANGED link
        BY <2>3 DEF HeartbeatAfterLinks, HeartbeatBeforeBatch, ConfirmUnchanged, Conclude
      <3> QED
        BY <1>1, <2>1, <3>1, <3>2
    <2>4. CASE FetchPrices(r) /\ ~Fail(r)
      <3>1. PICK feed :
              runner' = [runner EXCEPT ![r].pc = "batch", ![r].feed = feed,
                           ![r].todo = Placed(r, feed), ![r].resolved = Unresolved,
                           ![r].short = @ \/ Placed(r, feed) # feed]
        BY <2>4 DEF FetchPrices
      <3>2. runner'[r].pc # "link" /\ \A s \in Runners \ {r} : runner'[s] = runner[s]
        BY <1>0, <3>1 DEF RunnerType
      <3> QED
        BY <1>1, <2>1, <2>4, <3>2 DEF FetchPrices
    <2>5. CASE FetchPrices(r) /\ Fail(r)
      BY <1>4, <2>1, <2>5 DEF FetchPrices
    <2>6. ASSUME NEW x \in Externals, IngestOne(r, x)
          PROVE  Readings'
      <3>1. runner'[r].pc # "link" /\ \A s \in Runners \ {r} : runner'[s] = runner[s]
        <4>1. CASE runner' = [runner EXCEPT ![r].todo = @ \ {x}]
          BY <1>0, <2>6, <4>1 DEF IngestOne, RunnerType
        <4>2. CASE runner' = [runner EXCEPT ![r].todo = @ \ {x}, ![r].short = TRUE]
          BY <1>0, <2>6, <4>2 DEF IngestOne, RunnerType
        <4> QED
          BY <2>6, <4>1, <4>2 DEF IngestOne
      <3> QED
        BY <1>1, <2>1, <2>6, <3>1 DEF IngestOne
    <2>7. CASE ReturnImport(r)
      BY <1>5, <2>1, <2>7 DEF ReturnImport
    <2> QED
      BY <1>7, <1>8, <1>9, <2>2, <2>3, <2>4, <2>5, <2>6, <2>7, <2>8 DEF RunnerStep
  <1>10. CASE ImportFault
    BY <1>3, <1>4, <1>5, <1>10
    DEF ImportFault, ImportBreaks, ImportThrows, ImportDies, ImportLosesLock, people
  <1>11. CASE HandOutImport \/ ImportNow
    <2>a. PICK r \in Runners : \E d : Begin(r, d)
      BY <1>11 DEF HandOutImport, TakeImport, ImportNow, Runners
    <2>1. PICK d : Begin(r, d)
      BY <2>a
    <2>2. [AtRest EXCEPT !.pc = "find", !.day = d].pc = "find"
      BY DEF AtRest
    <2>3. UNCHANGED <<link, decided, merged, raced>>
      BY <1>11 DEF HandOutImport, TakeImport, ImportNow, people
    <2> QED
      BY <1>2, <2>1, <2>2, <2>3 DEF Begin
  \* A decision: an import that holds an older reading makes it a race.
  <1>12. ASSUME NEW e \in edits, SaveDecision(e)
         PROVE  Readings'
    <2>0. PICK x \in Externals, p \in Resolution : x = e.of /\ p = e.to
      BY DEF ImportTyped, LinksTyped, Edit
    <2>1. /\ link' = [link EXCEPT ![x] = [status |-> IF p = NoProduct THEN "IGNORED" ELSE "MATCHED",
                                          product |-> p]]
          /\ decided' = [decided EXCEPT ![x] = p]
          /\ raced' = IF HoldsOldReading(x) THEN raced \cup {x} ELSE raced \ {x}
          /\ UNCHANGED <<runner, merged>>
      BY <1>12, <2>0 DEF SaveDecision
    <2>2. link'[x].product = p /\ link'[x].status = (IF p = NoProduct THEN "IGNORED" ELSE "MATCHED")
      BY <1>0, <2>1
    <2>3. decided'[x] = p
      BY <2>1 DEF ImportTyped, LinksTyped
    <2>4. Tells(link'[x], decided'[x], merged')
      BY <2>2, <2>3, ImportAssumption DEF Tells
    <2>5. \A y \in Externals \ {x} :
            link'[y] = link[y] /\ decided'[y] = decided[y] /\ (y \in raced' <=> y \in raced)
      BY <2>1 DEF ImportTyped, LinksTyped
    <2>6. x \notin raced' => ~HoldsOldReading(x)
      BY <2>1
    <2>7. \A y \in Externals \ raced' : Tells(link'[y], decided'[y], merged')
      BY <2>1, <2>4, <2>5 DEF Readings
    <2>8. \A y \in Externals \ raced', r \in Runners :
            runner[r].pc = "link" /\ y \in runner[r].todo => Tells(runner[r].seen[y], decided'[y], merged')
      BY <2>1, <2>5, <2>6 DEF Readings, HoldsOldReading
    <2> QED
      BY <2>1, <2>7, <2>8 DEF Readings
  <1>13. ASSUME NEW from \in Catalog, NEW into \in Catalog, MergeProducts(from, into)
         PROVE  Readings'
    <2>1. /\ merged' = merged \cup {<<from, into>>}
          /\ UNCHANGED <<link, decided, raced, runner>>
      BY <1>13 DEF MergeProducts
    <2>2. ASSUME NEW it, NEW of, Tells(it, of, merged) PROVE Tells(it, of, merged')
      BY <2>1, <2>2, TellsAfterMerge
    <2> QED
      BY <2>1, <2>2 DEF Readings
  \* The links follow a merge, and the readings of imports stay behind.
  <1>14. ASSUME NEW from \in Catalog, NEW into \in Catalog, MoveLinks(from, into)
         PROVE  Readings'
    <2>1. /\ <<from, into>> \in merged
          /\ link' = [x \in Externals |->
                        IF link[x].product = from THEN [link[x] EXCEPT !.product = into] ELSE link[x]]
          /\ UNCHANGED <<decided, merged, raced, runner>>
      BY <1>14 DEF MoveLinks, MovesFollow
    <2>2. ASSUME NEW y \in Externals \ raced PROVE Tells(link'[y], decided[y], merged)
      <3>1. Tells(link[y], decided[y], merged)
        BY <2>2 DEF Readings
      <3>2. CASE link[y].product = from
        <4>1. link'[y].product = into /\ link'[y].status = link[y].status
          BY <1>0, <2>1, <3>2 DEF Link
        <4>2. ASSUME NEW S, \A m \in merged : m[1] \in S => m[2] \in S
              PROVE  from \in S => into \in S
          BY <2>1, <4>2
        <4> QED
          BY <3>1, <3>2, <4>1, <4>2 DEF Tells
      <3>3. CASE link[y].product # from
        BY <2>1, <3>1, <3>3
      <3> QED
        BY <3>2, <3>3
    <2> QED
      BY <2>1, <2>2 DEF Readings
  <1>16. CASE Beside
    <2>1. CASE UpdateSource \/ LinkStore \/ UnlinkStore
      BY <1>3, <1>16, <2>1, BesideImports DEF UpdateSource, LinkStore, UnlinkStore, people
    <2>2. ASSUME NEW x \in Externals, NEW p \in Resolution, ResolveLink(x, p) PROVE Readings'
      BY <1>3, <2>2 DEF ResolveLink
    <2>3. ASSUME NEW e \in edits, FindDecided(e) \/ EditFails(e) PROVE Readings'
      BY <1>3, <2>3 DEF FindDecided, EditFails
    <2>4. ASSUME NEW from \in Catalog, NEW into \in Catalog, MoveLost(from, into) PROVE Readings'
      BY <1>3, <2>4 DEF MoveLost
    <2>5. ASSUME NEW p \in Catalog, ReviveProduct(p) PROVE Readings'
      BY <1>3, <2>5 DEF ReviveProduct
    <2> QED
      BY <1>12, <1>13, <1>14, <1>16, <2>1, <2>2, <2>3, <2>4, <2>5 DEF Beside, PeopleStep, MergeStep
  <1>15. CASE \/ PassTime \/ ScheduleStep \/ RecoverImports \/ (\E d \in Days : LeaseRunsOut(d))
              \/ UNCHANGED importVars
    BY <1>3, <1>15
    DEF PassTime, ScheduleStep, ScheduleStart, ScheduleAsk, ScheduleAdd, RecoverImports,
        RecoverImport, LeaseRunsOut, importVars, people
  <1> QED
    BY <1>9, <1>10, <1>11, <1>15, <1>16 DEF ImportNext, Beside

\* Outside the races, what a person decided of a product outlasts every import,
\* merge and lost move of links: what was ignored stays ignored, and what was
\* matched leads to the product decided or to what it was merged into.
THEOREM DecisionsLast == ImportSpec => []DecisionsOutlastImports
  <1>1. Readings => DecisionsOutlastImports
    BY DEF Readings, Tells, DecisionsOutlastImports, Became
  <1>2. ImportInit => ImportTyped /\ Readings /\ MovesFollow
    BY ImportTypedInit, ReadingsInit
  <1>3. ImportTyped /\ Readings /\ MovesFollow /\ [ImportNext]_importVars
          => (ImportTyped /\ Readings /\ MovesFollow)'
    BY ImportTypedStep, ReadingsStep, MovesStep
  <1> QED
    BY <1>1, <1>2, <1>3, PTL DEF ImportSpec

-----------------------------------------------------------------------------
(***************************************************************************)
(* NotificationDelivery.                                                   *)
(***************************************************************************)
Tries == [sent : BOOLEAN, attempts : Nat, abandoned : BOOLEAN]
History == [ChannelNames -> Tries]
Setup == {"idle", "find", "recipient", "history"}

ExecutionType ==
    [pc : Setup \cup {"send", "ok", "bad"}, applies : SUBSET ChannelNames, past : History,
     next : 1 .. 4, failed : BOOLEAN, stale : BOOLEAN]

\* An execution starts at the first channel, the in-app one, which applies to
\* everybody and cannot fail, and is on a channel while it sends.
Ordered(of) ==
    /\ of.pc \in Setup => of.next = 1
    /\ of.pc \in {"history", "send", "ok", "bad"} /\ of.next = 1 => "in-app" \in of.applies
    /\ of.pc \in {"ok", "bad"} => of.next <= 3
    /\ of.pc = "bad" => of.next # 1

RunsTyped == deliverer \in [Deliverers -> ExecutionType] /\ \A d \in Deliverers : Ordered(deliverer[d])
MessageTyped ==
    /\ message \in {"PENDING", "FAILED", "SENT", "GONE"}
    /\ ledger \in History
    /\ ~Exists => ledger = NoPast
OutsideTyped ==
    /\ hour \in 0 .. MaxHour /\ emailEnabled \in BOOLEAN
    /\ phone \in {"holder", "other", "nobody"}
    /\ events \in 0 .. MaxEvents
SendsTyped == misdirected \subseteq {"push", "email"} /\ emails \in Nat

DeliveryTyped == RunsTyped /\ MessageTyped /\ OutsideTyped /\ SendsTyped /\ SoundJob(deliveryJob)

-----------------------------------------------------------------------------
(***************************************************************************)
(* What an execution read of the person holds until they change it.        *)
(***************************************************************************)
Consents(of) ==
    of.pc \in {"history", "send", "ok", "bad"} /\ ~of.stale =>
        /\ "push" \in of.applies => phone # "other"
        /\ "email" \in of.applies => emailEnabled

Informed == \A d \in Deliverers : Consents(deliverer[d])

-----------------------------------------------------------------------------
(***************************************************************************)
(* What becomes of an execution.                                           *)
(***************************************************************************)
Move(d, of) == deliverer' = [deliverer EXCEPT ![d] = of]

LEMMA ChannelOrder ==
    /\ Len(Channels) = 3
    /\ Channels[1] = "in-app" /\ Channels[2] = "push" /\ Channels[3] = "email"
    /\ \A n \in 1 .. 3 : Channels[n] \in ChannelNames
  BY DEF Channels, ChannelNames

LEMMA NothingYet == NoDelivery \in Tries /\ NoPast \in History
  BY DEF NoDelivery, Tries, NoPast, History

\* A try is counted in the row.
LEMMA TryCounted ==
    ASSUME NEW row \in Tries, NEW giveUp \in BOOLEAN
    PROVE  /\ [row EXCEPT !.sent = TRUE, !.attempts = @ + 1] \in Tries
           /\ [row EXCEPT !.sent = TRUE, !.attempts = @ + 1].sent
           /\ [row EXCEPT !.attempts = @ + 1, !.abandoned = giveUp] \in Tries
           /\ [row EXCEPT !.attempts = @ + 1, !.abandoned = giveUp].sent = row.sent
  <1> DEFINE n == row.attempts + 1
  <1>1. n \in Nat
    BY DEF Tries
  <1> HIDE DEF n
  <1>2. /\ [row EXCEPT !.sent = TRUE, !.attempts = n] \in Tries
        /\ [row EXCEPT !.attempts = n, !.abandoned = giveUp] \in Tries
    BY <1>1 DEF Tries
  <1>3. /\ [row EXCEPT !.sent = TRUE, !.attempts = n].sent = TRUE
        /\ [row EXCEPT !.attempts = n, !.abandoned = giveUp].sent = row.sent
    BY DEF Tries
  <1> QED
    BY <1>2, <1>3 DEF n

LEMMA RestingExecution ==
    /\ AtEase \in ExecutionType /\ Ordered(AtEase)
    /\ AtEase.pc = "idle"
  BY NothingYet DEF AtEase, ExecutionType, Ordered, Setup

LEMMA MoveRuns ==
    ASSUME RunsTyped, NEW d \in Deliverers, NEW of \in ExecutionType, Ordered(of), Move(d, of)
    PROVE  /\ RunsTyped'
           /\ deliverer'[d] = of
           /\ \A o \in Deliverers \ {d} : deliverer'[o] = deliverer[o]
  BY DEF RunsTyped, Move

\* A change of pc changes nothing else.
LEMMA PcChanges ==
    ASSUME NEW of \in ExecutionType, NEW pc \in Setup \cup {"send", "ok", "bad"}
    PROVE  LET after == [of EXCEPT !.pc = pc] IN
           /\ after \in ExecutionType /\ after.pc = pc
           /\ after.applies = of.applies /\ after.past = of.past /\ after.next = of.next
           /\ after.stale = of.stale
  BY DEF ExecutionType

LEMMA NextChannelRun ==
    ASSUME NEW of \in ExecutionType, of.next <= 3, Ordered(of), NEW failed \in BOOLEAN
    PROVE  LET after == NextChannel(of, failed) IN
           /\ after \in ExecutionType /\ Ordered(after)
           /\ after.pc = "send" /\ after.next = of.next + 1
           /\ after.applies \subseteq of.applies /\ after.stale = of.stale
           /\ of.next # 3 => after.past["email"] = of.past["email"]
  <1> DEFINE after == NextChannel(of, failed)
             channel == Channels[of.next]
  <1>1. of.next \in 1 .. 3 /\ of.next + 1 \in 1 .. 4 /\ of.next + 1 # 1
    BY DEF ExecutionType
  <1>2. channel \in ChannelNames /\ (of.next # 3 => channel # "email")
    BY <1>1, ChannelOrder
  <1>3. [of.past EXCEPT ![channel] = NoDelivery] \in History
    BY NothingYet DEF ExecutionType, History
  <1>4. (of.failed \/ failed) \in BOOLEAN
    BY DEF ExecutionType
  <1>5. after = [of EXCEPT !.pc = "send", !.next = of.next + 1,
                            !.applies = of.applies \ {channel},
                            !.past = [of.past EXCEPT ![channel] = NoDelivery],
                            !.failed = of.failed \/ failed]
    BY DEF NextChannel, ExecutionType, History
  <1> HIDE DEF after, channel
  <1>6. after \in ExecutionType
    BY <1>1, <1>3, <1>4, <1>5 DEF ExecutionType
  <1>7. /\ after.pc = "send" /\ after.next = of.next + 1
        /\ after.applies = of.applies \ {channel} /\ after.stale = of.stale
        /\ after.past = [of.past EXCEPT ![channel] = NoDelivery]
    BY <1>5 DEF ExecutionType
  <1>8. of.next # 3 => after.past["email"] = of.past["email"]
    BY <1>2, <1>7 DEF ExecutionType, History, ChannelNames
  <1>9. Ordered(after)
    BY <1>1, <1>7 DEF Ordered, Setup
  <1> QED
    BY <1>6, <1>7, <1>8, <1>9 DEF after

\* The kinds of step an execution takes.
Rests(d) == Move(d, AtEase)
Prepares(d) ==
    /\ deliverer[d].pc \in {"idle", "find"}
    /\ \E pc \in {"find", "recipient"} : Move(d, [deliverer[d] EXCEPT !.pc = pc])
Asks(d) ==
    /\ deliverer[d].pc = "recipient"
    /\ Move(d, [deliverer[d] EXCEPT !.pc = "history",
                    !.applies = {"in-app"} \cup (IF phone = "holder" THEN {"push"} ELSE {})
                                           \cup (IF emailEnabled THEN {"email"} ELSE {})])
Reads(d) ==
    /\ deliverer[d].pc = "history"
    /\ Move(d, [deliverer[d] EXCEPT !.pc = "send", !.past = ledger])
Sends(d) ==
    /\ deliverer[d].pc = "send" /\ deliverer[d].next <= 3 /\ ~Passed(d)
    /\ \E pc \in {"ok", "bad"} : /\ pc = "bad" => Now(d) # "in-app"
                                 /\ Move(d, [deliverer[d] EXCEPT !.pc = pc])
Passes(d) ==
    /\ deliverer[d].pc \in {"send", "ok", "bad"} /\ deliverer[d].next <= 3
    /\ Exists \/ (deliverer[d].pc = "send" /\ Passed(d))
    /\ \E failed \in BOOLEAN : Move(d, NextChannel(deliverer[d], failed))

LEMMA ExecutionSteps ==
    ASSUME DeliveryTyped, NEW d \in Deliverers
    PROVE  /\ DeliverStep(d) =>
                \/ Rests(d) \/ Prepares(d) \/ Asks(d) \/ Reads(d) \/ Sends(d) \/ Passes(d)
           /\ DeliveryDies(d) => Rests(d)
           /\ \A w \in Workers : TakeDelivery(w) => Prepares(w)
           /\ SweepFinds => Prepares(Sweeper)
  <1> USE DEF DeliveryTyped
  <1>0. /\ deliverer \in [Deliverers -> ExecutionType] /\ Len(Channels) = 3
        /\ deliverer[d] \in ExecutionType /\ Ordered(deliverer[d])
    BY ChannelOrder DEF RunsTyped
  <1>p. ASSUME NEW e \in Deliverers, NEW pc, Step(e, pc)
        PROVE  Move(e, [deliverer[e] EXCEPT !.pc = pc])
    BY <1>p DEF Step, Move
  <1>o. ASSUME NEW failed, Onward(d, failed)
        PROVE  Move(d, NextChannel(deliverer[d], failed))
    BY <1>o DEF Onward, Move
  <1>e. EndDelivery(d) => Rests(d)
    BY DEF EndDelivery, Rests, Move
  <1>1. FindMessage(d) => Rests(d) \/ Prepares(d)
    BY <1>e, <1>p DEF FindMessage, Prepares
  <1>2. ReadRecipient(d) => Asks(d)
    BY <1>0 DEF ReadRecipient, Asks, Move
  <1>3. ReadHistory(d) => Reads(d)
    BY <1>0 DEF ReadHistory, Reads, Move
  <1>4. SkipChannel(d) => Passes(d)
    BY <1>0, <1>o DEF SkipChannel, Passes
  <1>5. SendOnChannel(d) => Sends(d)
    <2> SUFFICES ASSUME SendOnChannel(d) PROVE Sends(d)
      OBVIOUS
    <2>1. \E pc \in {"ok", "bad"} : Step(d, pc) /\ (pc = "bad" => Now(d) # "in-app")
      BY DEF SendOnChannel
    <2> QED
      BY <1>0, <1>p, <2>1 DEF SendOnChannel, Sends
  <1>6. RecordSent(d) \/ RecordFailure(d) => Rests(d) \/ Passes(d)
    <2>0. deliverer[d].pc \in {"ok", "bad"} => deliverer[d].next <= 3
      BY <1>0 DEF Ordered
    <2>1. CASE RecordSent(d)
      BY <1>e, <1>o, <2>0, <2>1 DEF RecordSent, Passes
    <2>2. CASE RecordFailure(d)
      <3> DEFINE giveUp == deliverer[d].past[Now(d)].attempts + 1 >= MaxChannelAttempts
      <3>1. EndDelivery(d) \/ (Exists /\ deliverer[d].pc = "bad" /\ Onward(d, ~giveUp))
        BY <2>2 DEF RecordFailure
      <3>2. (~giveUp) \in BOOLEAN
        OBVIOUS
      <3> HIDE DEF giveUp
      <3> QED
        BY <1>e, <1>o, <2>0, <3>1, <3>2 DEF Passes
    <2> QED
      BY <2>1, <2>2
  <1>7. MarkSent(d) \/ MarkFailed(d) => Rests(d)
    BY <1>e DEF MarkSent, MarkFailed, Rests, Move
  <1>8. DeliveryDies(d) => Rests(d)
    BY DEF DeliveryDies, Rests, Move
  <1>9. ASSUME NEW w \in Workers, TakeDelivery(w) PROVE Prepares(w)
    BY <1>9, <1>p DEF TakeDelivery, Prepares, Deliverers
  <1>10. SweepFinds => Prepares(Sweeper)
    BY <1>p DEF SweepFinds, Prepares, Deliverers
  <1> QED
    BY <1>1, <1>2, <1>3, <1>4, <1>5, <1>6, <1>7, <1>8, <1>9, <1>10 DEF DeliverStep

\* Every kind of step leaves executions that are typed and ordered.
LEMMA KindsRuns ==
    ASSUME DeliveryTyped, NEW d \in Deliverers,
           Rests(d) \/ Prepares(d) \/ Asks(d) \/ Reads(d) \/ Sends(d) \/ Passes(d)
    PROVE  RunsTyped'
  <1> USE DEF DeliveryTyped
  <1>0. deliverer[d] \in ExecutionType /\ Ordered(deliverer[d]) /\ ledger \in History
    BY DEF RunsTyped, MessageTyped
  <1>1. CASE Rests(d)
    BY <1>1, RestingExecution, MoveRuns DEF Rests
  <1>2. CASE Prepares(d)
    <2> PICK pc \in {"find", "recipient"} : Move(d, [deliverer[d] EXCEPT !.pc = pc])
      BY <1>2 DEF Prepares
    <2> DEFINE of == [deliverer[d] EXCEPT !.pc = pc]
    <2>1. of \in ExecutionType /\ of.pc = pc /\ of.next = deliverer[d].next
      BY <1>0, PcChanges DEF Setup
    <2>2. deliverer[d].next = 1
      BY <1>0, <1>2 DEF Prepares, Ordered, Setup
    <2> HIDE DEF of
    <2>3. Ordered(of)
      BY <2>1, <2>2 DEF Ordered
    <2> QED
      BY <2>1, <2>3, MoveRuns DEF of
  <1>3. CASE Asks(d)
    <2> DEFINE applies == {"in-app"} \cup (IF phone = "holder" THEN {"push"} ELSE {})
                                     \cup (IF emailEnabled THEN {"email"} ELSE {})
               of == [deliverer[d] EXCEPT !.pc = "history", !.applies = applies]
    <2>0. applies \in SUBSET ChannelNames /\ "in-app" \in applies /\ Move(d, of)
      BY <1>3 DEF Asks, ChannelNames
    <2>1. deliverer[d].next = 1
      BY <1>0, <1>3 DEF Asks, Ordered, Setup
    <2> HIDE DEF applies
    <2>2. of \in ExecutionType /\ of.pc = "history" /\ of.next = 1 /\ of.applies = applies
      BY <1>0, <2>0, <2>1 DEF ExecutionType, Setup
    <2> HIDE DEF of
    <2>3. Ordered(of)
      BY <2>0, <2>2 DEF Ordered
    <2> QED
      BY <2>0, <2>2, <2>3, MoveRuns
  <1>4. CASE Reads(d)
    <2> DEFINE of == [deliverer[d] EXCEPT !.pc = "send", !.past = ledger]
    <2>1. Move(d, of) /\ deliverer[d].next = 1 /\ "in-app" \in deliverer[d].applies
      BY <1>0, <1>4 DEF Reads, Ordered, Setup
    <2>2. /\ of \in ExecutionType /\ of.pc = "send" /\ of.next = deliverer[d].next
          /\ of.applies = deliverer[d].applies
      BY <1>0 DEF ExecutionType
    <2> HIDE DEF of
    <2>3. Ordered(of)
      BY <2>1, <2>2 DEF Ordered, Setup
    <2> QED
      BY <2>1, <2>2, <2>3, MoveRuns
  <1>5. CASE Sends(d)
    <2> PICK pc \in {"ok", "bad"} : /\ pc = "bad" => Now(d) # "in-app"
                                    /\ Move(d, [deliverer[d] EXCEPT !.pc = pc])
      BY <1>5 DEF Sends
    <2> DEFINE of == [deliverer[d] EXCEPT !.pc = pc]
    <2>1. /\ of \in ExecutionType /\ of.pc = pc /\ of.next = deliverer[d].next
          /\ of.applies = deliverer[d].applies
      BY <1>0, PcChanges
    <2>2. deliverer[d].pc = "send" /\ deliverer[d].next <= 3
      BY <1>5 DEF Sends
    <2>3. pc = "bad" => deliverer[d].next # 1
      BY ChannelOrder DEF Now
    <2> HIDE DEF of
    <2>4. Ordered(of)
      BY <1>0, <2>1, <2>2, <2>3 DEF Ordered, Setup
    <2> QED
      BY <2>1, <2>4, MoveRuns DEF of
  <1>6. CASE Passes(d)
    <2> PICK failed \in BOOLEAN : Move(d, NextChannel(deliverer[d], failed))
      BY <1>6 DEF Passes
    <2>1. /\ NextChannel(deliverer[d], failed) \in ExecutionType
          /\ Ordered(NextChannel(deliverer[d], failed))
      BY <1>0, <1>6, NextChannelRun DEF Passes
    <2> QED
      BY <2>1, MoveRuns
  <1> QED
    BY <1>1, <1>2, <1>3, <1>4, <1>5, <1>6

-----------------------------------------------------------------------------
(***************************************************************************)
(* Type correctness.                                                       *)
(***************************************************************************)
LEMMA DeliveryTypedIsTypeOK == DeliveryTyped => DeliveryTypeOK
  <1> SUFFICES ASSUME DeliveryTyped PROVE DeliveryTypeOK
    OBVIOUS
  <1>1. \A d \in Deliverers : deliverer[d] \in ExecutionType
    BY DEF DeliveryTyped, RunsTyped
  <1>2. \A d \in Deliverers :
          /\ deliverer[d].pc \in {"idle", "find", "recipient", "history", "send", "ok", "bad", "mark"}
          /\ deliverer[d].applies \subseteq ChannelNames
          /\ deliverer[d].next \in 1 .. Len(Channels) + 1
    BY <1>1, ChannelOrder DEF ExecutionType, Setup
  <1> QED
    BY <1>2 DEF DeliveryTyped, MessageTyped, OutsideTyped, SendsTyped, SoundJob, DeliveryTypeOK, History, Tries

LEMMA DeliveryTypedInit == DeliveryInit => DeliveryTyped
  <1> SUFFICES ASSUME DeliveryInit PROVE DeliveryTyped
    OBVIOUS
  <1> USE DeliveryAssumption DEF DeliveryInit
  <1>1. RunsTyped
    BY RestingExecution DEF RunsTyped
  <1>2. MessageTyped
    BY NothingYet DEF MessageTyped
  <1>3. OutsideTyped /\ SendsTyped
    BY DEF OutsideTyped, SendsTyped
  <1>4. SoundJob(NoJob)
    BY JobAssumption DEF SoundJob, Job, NoJob, MaxStalls
  <1>5. SoundJob(deliveryJob)
    BY <1>4, JobOperations
  <1> QED
    BY <1>1, <1>2, <1>3, <1>5 DEF DeliveryTyped

\* The sweep holds no job, and ends or fails none.
LEMMA JobKept ==
    ASSUME SoundJob(deliveryJob), NEW d \in Deliverers
    PROVE  SoundJob(Done(deliveryJob, d)) /\ SoundJob(Threw(deliveryJob, d))
  <1>1. CASE d \in Workers
    BY <1>1, JobOperations
  <1>2. CASE d = Sweeper
    <2>1. deliveryJob.holder # Sweeper
      BY DeliveryAssumption DEF SoundJob, Job
    <2> QED
      BY <1>2, <2>1 DEF Done, Threw
  <1> QED
    BY <1>1, <1>2 DEF Deliverers

LEMMA RunsStep == DeliveryTyped /\ [DeliveryNext]_deliveryVars => RunsTyped'
  <1> SUFFICES ASSUME DeliveryTyped, [DeliveryNext]_deliveryVars PROVE RunsTyped'
    OBVIOUS
  <1>1. ASSUME deliverer' = deliverer PROVE RunsTyped'
    BY <1>1 DEF DeliveryTyped, RunsTyped
  <1>2. CASE \E d \in Deliverers : DeliverStep(d) \/ DeliveryDies(d)
    BY <1>2, ExecutionSteps, KindsRuns
  <1>3. CASE (\E w \in Workers : TakeDelivery(w)) \/ SweepFinds
    <2>1. Workers \subseteq Deliverers /\ Sweeper \in Deliverers
      BY DEF Deliverers
    <2> QED
      BY <1>3, <2>1, ExecutionSteps, KindsRuns
  <1>4. CASE ChangeConsent \/ \E owner \in {"holder", "other", "nobody"} : ChangePhone(owner)
    <2>1. deliverer' = Outdated
      BY <1>4 DEF ChangeConsent, ChangePhone
    <2>2. ASSUME NEW d \in Deliverers
          PROVE  Outdated[d] \in ExecutionType /\ Ordered(Outdated[d])
      <3>1. deliverer[d] \in ExecutionType /\ Ordered(deliverer[d])
        BY DEF DeliveryTyped, RunsTyped
      <3>2. PICK stale \in BOOLEAN : Outdated[d] = [deliverer[d] EXCEPT !.stale = stale]
        BY <3>1 DEF Outdated, ExecutionType
      <3> QED
        BY <3>1, <3>2 DEF ExecutionType, Ordered
    <2> QED
      BY <2>1, <2>2 DEF RunsTyped, Outdated
  <1>5. CASE NextHour \/ RecoverDelivery \/ PruneMessage \/ AccountGoes \/ UNCHANGED deliveryVars
    BY <1>1, <1>5 DEF NextHour, RecoverDelivery, PruneMessage, AccountGoes, deliveryVars
  <1> QED
    BY <1>2, <1>3, <1>4, <1>5 DEF DeliveryNext

\* No execution that starts now sends the email: a copy is recorded, or the
\* message is deleted.
Closed == ~Exists \/ ledger["email"].sent

\* A message that is gone stays gone, and its email, once recorded, stays so.
LEMMA MessageStep ==
    ASSUME DeliveryTyped, [DeliveryNext]_deliveryVars
    PROVE  MessageTyped' /\ (~Exists => ~Exists') /\ (Closed => Closed')
  <1> USE DEF DeliveryTyped, MessageTyped
  <1>1. ASSUME UNCHANGED <<message, ledger>>
        PROVE  MessageTyped' /\ (~Exists => ~Exists') /\ (Closed => Closed')
    BY <1>1 DEF Exists, Closed
  <1>2. ASSUME message' = "GONE", ledger' = NoPast
        PROVE  MessageTyped' /\ (~Exists => ~Exists') /\ (Closed => Closed')
    BY <1>2, NothingYet DEF Exists, Closed
  <1>3. ASSUME NEW told \in {"SENT", "FAILED"}, message' = IF Exists THEN told ELSE message,
               ledger' = ledger
        PROVE  MessageTyped' /\ (~Exists => ~Exists') /\ (Closed => Closed')
    BY <1>3 DEF Exists, Closed
  <1>4. ASSUME NEW channel \in ChannelNames, NEW tries \in Tries, Exists,
               ledger[channel].sent => tries.sent,
               ledger' = [ledger EXCEPT ![channel] = tries], message' = message
        PROVE  MessageTyped' /\ (~Exists => ~Exists') /\ (Closed => Closed')
    BY <1>4 DEF Exists, Closed, History, ChannelNames
  <1>5. ASSUME NEW d \in Deliverers, RecordSent(d) \/ RecordFailure(d), Exists
        PROVE  MessageTyped' /\ (~Exists => ~Exists') /\ (Closed => Closed')
    <2> DEFINE row == ledger[Now(d)]
    <2>0. Now(d) \in ChannelNames /\ row \in Tries
      <3>0. /\ deliverer[d].pc \in {"ok", "bad"} /\ deliverer[d].next \in 1 .. 4
            /\ Ordered(deliverer[d])
        BY <1>5 DEF RunsTyped, ExecutionType, RecordSent, RecordFailure
      <3>1. deliverer[d].next \in 1 .. 3
        BY <3>0 DEF Ordered
      <3> QED
        BY <3>1, ChannelOrder DEF Now, History
    <2>1. CASE RecordSent(d)
      <3> DEFINE tries == [row EXCEPT !.sent = TRUE, !.attempts = @ + 1]
      <3>1. tries \in Tries /\ tries.sent
        BY <2>0, TryCounted
      <3>2. ledger' = [ledger EXCEPT ![Now(d)] = tries] /\ message' = message
        BY <1>5, <2>0, <2>1 DEF RecordSent, History
      <3> HIDE DEF tries
      <3> QED
        BY <1>4, <1>5, <2>0, <3>1, <3>2
    <2>2. CASE RecordFailure(d)
      <3> DEFINE giveUp == deliverer[d].past[Now(d)].attempts + 1 >= MaxChannelAttempts
                 tries == [row EXCEPT !.attempts = @ + 1, !.abandoned = giveUp]
      <3>0. giveUp \in BOOLEAN
        OBVIOUS
      <3>1. tries \in Tries /\ tries.sent = row.sent
        <4> HIDE DEF giveUp, row
        <4> QED
          BY <2>0, <3>0, TryCounted
      <3>2. ledger' = [ledger EXCEPT ![Now(d)] = tries] /\ message' = message
        BY <1>5, <2>0, <2>2 DEF RecordFailure, History
      <3> HIDE DEF tries
      <3> QED
        BY <1>4, <1>5, <2>0, <3>1, <3>2
    <2> QED
      BY <1>5, <2>1, <2>2
  <1>6. ASSUME NEW d \in Deliverers, DeliverStep(d)
        PROVE  MessageTyped' /\ (~Exists => ~Exists') /\ (Closed => Closed')
    <2>1. CASE MarkSent(d) \/ MarkFailed(d)
      BY <1>3, <2>1 DEF MarkSent, MarkFailed
    <2>2. CASE (RecordSent(d) \/ RecordFailure(d)) /\ Exists
      BY <1>5, <2>2
    <2>3. CASE \/ (RecordSent(d) \/ RecordFailure(d)) /\ ~Exists
               \/ FindMessage(d) \/ ReadRecipient(d) \/ ReadHistory(d) \/ SkipChannel(d)
               \/ SendOnChannel(d)
      BY <1>1, <2>3 DEF RecordSent, RecordFailure, FindMessage, ReadRecipient, ReadHistory,
                        SkipChannel, SendOnChannel
    <2> QED
      BY <1>6, <2>1, <2>2, <2>3 DEF DeliverStep
  <1>7. CASE PruneMessage \/ AccountGoes
    BY <1>2, <1>7 DEF PruneMessage, AccountGoes
  <1>8. CASE \/ NextHour \/ SweepFinds \/ RecoverDelivery \/ ChangeConsent
             \/ (\E w \in Workers : TakeDelivery(w)) \/ (\E d \in Deliverers : DeliveryDies(d))
             \/ (\E owner \in {"holder", "other", "nobody"} : ChangePhone(owner))
             \/ UNCHANGED deliveryVars
    BY <1>1, <1>8 DEF NextHour, SweepFinds, RecoverDelivery, ChangeConsent, TakeDelivery,
                      DeliveryDies, ChangePhone, deliveryVars
  <1> QED
    BY <1>6, <1>7, <1>8 DEF DeliveryNext

LEMMA OutsideStep == DeliveryTyped /\ [DeliveryNext]_deliveryVars => OutsideTyped'
  <1> SUFFICES ASSUME DeliveryTyped, [DeliveryNext]_deliveryVars PROVE OutsideTyped'
    OBVIOUS
  <1> USE DeliveryAssumption DEF DeliveryTyped, OutsideTyped
  <1>1. ASSUME UNCHANGED <<hour, emailEnabled, events>>, phone' \in {phone, "nobody"}
        PROVE  OutsideTyped'
    BY <1>1
  <1>2. ASSUME Event, UNCHANGED hour, emailEnabled' \in BOOLEAN,
               phone' \in {"holder", "other", "nobody"}
        PROVE  OutsideTyped'
    BY <1>2 DEF Event
  <1>3. CASE NextHour
    BY <1>3 DEF NextHour
  <1>4. CASE \/ ChangeConsent \/ (\E owner \in {"holder", "other", "nobody"} : ChangePhone(owner))
             \/ AccountGoes \/ (\E d \in Deliverers : DeliveryDies(d))
    BY <1>2, <1>4 DEF ChangeConsent, ChangePhone, AccountGoes, DeliveryDies
  <1>5. CASE \/ SweepFinds \/ RecoverDelivery \/ PruneMessage \/ UNCHANGED deliveryVars
             \/ (\E w \in Workers : TakeDelivery(w)) \/ (\E d \in Deliverers : DeliverStep(d))
    BY <1>1, <1>5, ZenonT(60) DEF SweepFinds, RecoverDelivery, PruneMessage, TakeDelivery, DeliverStep,
        FindMessage, ReadRecipient, ReadHistory, SkipChannel, SendOnChannel, RecordSent,
        RecordFailure, MarkSent, MarkFailed, Settings, deliveryVars
  <1> QED
    BY <1>3, <1>4, <1>5 DEF DeliveryNext

LEMMA JobStep == DeliveryTyped /\ [DeliveryNext]_deliveryVars => SoundJob(deliveryJob)'
  <1> SUFFICES ASSUME DeliveryTyped, [DeliveryNext]_deliveryVars PROVE SoundJob(deliveryJob)'
    OBVIOUS
  <1>0. SoundJob(deliveryJob)
    BY DEF DeliveryTyped
  <1>1. \/ deliveryJob' = deliveryJob
        \/ \E w \in Workers : deliveryJob.state = "waiting" /\ deliveryJob' = Taken(deliveryJob, w)
        \/ \E d \in Deliverers : \/ deliveryJob' = Done(deliveryJob, d)
                                 \/ deliveryJob' = Threw(deliveryJob, d)
        \/ deliveryJob.state = "active" /\ deliveryJob' = Stalled(deliveryJob)
    BY DEF DeliveryNext, NextHour, SweepFinds, RecoverDelivery, TakeDelivery, DeliveryDies,
           ChangeConsent, ChangePhone, PruneMessage, AccountGoes, DeliverStep, FindMessage,
           ReadRecipient, ReadHistory, SkipChannel, SendOnChannel, RecordSent, RecordFailure,
           MarkSent, MarkFailed, EndDelivery, deliveryVars
  <1> QED
    BY <1>0, <1>1, JobOperations, JobKept

LEMMA SendsStep == DeliveryTyped /\ [DeliveryNext]_deliveryVars => SendsTyped'
  <1> SUFFICES ASSUME DeliveryTyped, [DeliveryNext]_deliveryVars PROVE SendsTyped'
    OBVIOUS
  <1> USE DEF DeliveryTyped, SendsTyped
  <1>1. CASE UNCHANGED sends
    BY <1>1 DEF sends
  <1>2. ASSUME NEW d \in Deliverers, SendOnChannel(d)
        PROVE  SendsTyped'
    <2>1. deliverer[d].next \in 1 .. 3
      BY <1>2, ChannelOrder DEF RunsTyped, ExecutionType, SendOnChannel
    <2>2. Astray(d) \subseteq {"push", "email"}
      BY <2>1, ChannelOrder DEF Astray, Now, ChannelNames
    <2>3. UNCHANGED sends \/ (misdirected' = misdirected \cup Astray(d) /\ emails' \in {emails, emails + 1})
      BY <1>2 DEF SendOnChannel
    <2> HIDE DEF DeliveryTyped
    <2>4. CASE misdirected' = misdirected \cup Astray(d) /\ emails' \in {emails, emails + 1}
      <3>1. misdirected \subseteq {"push", "email"} /\ emails \in Nat
        BY DEF DeliveryTyped
      <3>2. misdirected' \subseteq {"push", "email"}
        BY <2>2, <2>4, <3>1
      <3>3. emails' \in Nat
        BY <2>4, <3>1
      <3> QED
        BY <3>2, <3>3
    <2> QED
      BY <1>1, <2>3, <2>4
  <1>3. UNCHANGED sends \/ \E d \in Deliverers : SendOnChannel(d)
    BY DEF DeliveryNext, NextHour, SweepFinds, RecoverDelivery, TakeDelivery, DeliveryDies,
           ChangeConsent, ChangePhone, PruneMessage, AccountGoes, DeliverStep, FindMessage,
           ReadRecipient, ReadHistory, SkipChannel, RecordSent, RecordFailure, MarkSent,
           MarkFailed, sends, deliveryVars
  <1> QED
    BY <1>1, <1>2, <1>3

LEMMA DeliveryTypedStep == DeliveryTyped /\ [DeliveryNext]_deliveryVars => DeliveryTyped'
  BY RunsStep, MessageStep, OutsideStep, JobStep, SendsStep DEF DeliveryTyped

LEMMA DeliveryTypedAlways == DeliverySpec => []DeliveryTyped
  BY DeliveryTypedInit, DeliveryTypedStep, PTL DEF DeliverySpec

\* The delivery of a message keeps to the types of its state.
THEOREM DeliveriesKeepTypes == DeliverySpec => []DeliveryTypeOK
  BY DeliveryTypedAlways, DeliveryTypedIsTypeOK, PTL

-----------------------------------------------------------------------------
(***************************************************************************)
(* Consent.  Whoever is not outdated still knows the person's settings: a  *)
(* change outdates everybody who read them, a channel passed is forgotten, *)
(* and a phone that is found gone is nobody else's.                        *)
(***************************************************************************)
LEMMA InformedInit == DeliveryInit => Informed
  BY RestingExecution DEF DeliveryInit, Informed, Consents

\* Settings left alone, but for a phone that may be found gone.
SettingsHeld == emailEnabled' = emailEnabled /\ phone' \in {phone, "nobody"}

LEMMA KindsInformed ==
    ASSUME DeliveryTyped, Informed, SettingsHeld, NEW d \in Deliverers,
           Rests(d) \/ Prepares(d) \/ Asks(d) \/ Reads(d) \/ Sends(d) \/ Passes(d)
    PROVE  Informed'
  <1> USE DEF DeliveryTyped
  <1>0. deliverer \in [Deliverers -> ExecutionType] /\ deliverer[d] \in ExecutionType
    BY DEF RunsTyped
  <1>1. ASSUME NEW o \in Deliverers, deliverer'[o] = deliverer[o]
        PROVE  Consents(deliverer[o])'
    BY <1>1 DEF Informed, Consents, SettingsHeld
  <1>2. ASSUME NEW of, Move(d, of)
        PROVE  deliverer'[d] = of /\ \A o \in Deliverers \ {d} : deliverer'[o] = deliverer[o]
    BY <1>0, <1>2 DEF Move
  \* The execution goes on with what it knew, or with less.
  <1>3. ASSUME NEW of, Move(d, of), deliverer[d].pc \in {"history", "send", "ok", "bad"},
               of.stale = deliverer[d].stale, of.applies \subseteq deliverer[d].applies
        PROVE  Informed'
    <2>1. Consents(deliverer[d])
      BY DEF Informed
    <2>2. Consents(deliverer[d])'
      BY <1>2, <1>3, <2>1 DEF Consents, SettingsHeld
    <2> QED
      BY <1>1, <1>2, <1>3, <2>2 DEF Informed
  <1>4. ASSUME NEW of, Move(d, of), of.pc \notin {"history", "send", "ok", "bad"}
        PROVE  Informed'
    <2>1. Consents(deliverer[d])'
      BY <1>2, <1>4 DEF Consents
    <2> QED
      BY <1>1, <1>2, <1>4, <2>1 DEF Informed
  <1>5. CASE Rests(d)
    BY <1>4, <1>5, RestingExecution DEF Rests
  <1>6. CASE Prepares(d)
    <2> PICK pc \in {"find", "recipient"} : Move(d, [deliverer[d] EXCEPT !.pc = pc])
      BY <1>6 DEF Prepares
    <2>1. [deliverer[d] EXCEPT !.pc = pc].pc = pc
      BY <1>0 DEF ExecutionType
    <2> QED
      BY <1>4, <2>1
  <1>7. CASE Asks(d)
    <2> DEFINE applies == {"in-app"} \cup (IF phone = "holder" THEN {"push"} ELSE {})
                                     \cup (IF emailEnabled THEN {"email"} ELSE {})
               of == [deliverer[d] EXCEPT !.pc = "history", !.applies = applies]
    <2>1. Move(d, of) /\ ("push" \in applies => phone = "holder") /\ ("email" \in applies => emailEnabled)
      BY <1>7 DEF Asks
    <2> HIDE DEF applies
    <2>2. of.applies = applies
      BY <1>0 DEF ExecutionType
    <2>3. Consents(deliverer[d])'
      BY <1>2, <2>1, <2>2 DEF Consents, SettingsHeld
    <2> QED
      BY <1>1, <1>2, <2>1, <2>3 DEF Informed
  <1>8. CASE Reads(d)
    <2> DEFINE of == [deliverer[d] EXCEPT !.pc = "send", !.past = ledger]
    <2>1. Move(d, of) /\ of.stale = deliverer[d].stale /\ of.applies = deliverer[d].applies
      BY <1>0, <1>8 DEF Reads, ExecutionType
    <2> QED
      BY <1>3, <1>8, <2>1 DEF Reads
  <1>9. CASE Sends(d)
    <2> PICK pc \in {"ok", "bad"} : Move(d, [deliverer[d] EXCEPT !.pc = pc])
      BY <1>9 DEF Sends
    <2>1. /\ [deliverer[d] EXCEPT !.pc = pc].stale = deliverer[d].stale
          /\ [deliverer[d] EXCEPT !.pc = pc].applies = deliverer[d].applies
      BY <1>0 DEF ExecutionType
    <2> QED
      BY <1>3, <1>9, <2>1 DEF Sends
  <1>10. CASE Passes(d)
    <2> PICK failed \in BOOLEAN : Move(d, NextChannel(deliverer[d], failed))
      BY <1>10 DEF Passes
    <2>1. /\ NextChannel(deliverer[d], failed).stale = deliverer[d].stale
          /\ NextChannel(deliverer[d], failed).applies \subseteq deliverer[d].applies
      BY <1>0, <1>10, NextChannelRun DEF Passes, RunsTyped
    <2> QED
      BY <1>3, <1>10, <2>1 DEF Passes
  <1> QED
    BY <1>5, <1>6, <1>7, <1>8, <1>9, <1>10

LEMMA InformedStep == DeliveryTyped /\ Informed /\ [DeliveryNext]_deliveryVars => Informed'
  <1> SUFFICES ASSUME DeliveryTyped, Informed, [DeliveryNext]_deliveryVars PROVE Informed'
    OBVIOUS
  <1>1. CASE \E d \in Deliverers : DeliverStep(d) \/ DeliveryDies(d)
    <2> PICK d \in Deliverers : DeliverStep(d) \/ DeliveryDies(d)
      BY <1>1
    <2>1. SettingsHeld
      BY DEF SettingsHeld, DeliveryDies, DeliverStep, FindMessage, ReadRecipient, ReadHistory,
             SkipChannel, SendOnChannel, RecordSent, RecordFailure, MarkSent, MarkFailed, Settings
    <2> QED
      BY <2>1, ExecutionSteps, KindsInformed
  <1>2. CASE (\E w \in Workers : TakeDelivery(w)) \/ SweepFinds
    <2>1. SettingsHeld
      BY <1>2 DEF SettingsHeld, TakeDelivery, SweepFinds, Settings
    <2>2. Workers \subseteq Deliverers /\ Sweeper \in Deliverers
      BY DEF Deliverers
    <2> QED
      BY <1>2, <2>1, <2>2, ExecutionSteps, KindsInformed
  <1>3. CASE ChangeConsent \/ \E owner \in {"holder", "other", "nobody"} : ChangePhone(owner)
    <2>1. deliverer' = Outdated
      BY <1>3 DEF ChangeConsent, ChangePhone
    <2>2. ASSUME NEW d \in Deliverers
          PROVE  deliverer'[d].pc \in {"history", "send", "ok", "bad"} => deliverer'[d].stale
      <3>0. deliverer[d] \in ExecutionType
        BY DEF DeliveryTyped, RunsTyped
      <3>1. deliverer'[d] = [deliverer[d] EXCEPT !.stale = @ \/ deliverer[d].pc \notin {"idle", "find", "recipient"}]
        BY <2>1 DEF Outdated
      <3> QED
        BY <3>0, <3>1 DEF ExecutionType
    <2> QED
      BY <2>2 DEF Informed, Consents
  <1>4. CASE NextHour \/ RecoverDelivery \/ PruneMessage \/ AccountGoes \/ UNCHANGED deliveryVars
    BY <1>4 DEF NextHour, RecoverDelivery, PruneMessage, AccountGoes, Settings, deliveryVars,
                Informed, Consents
  <1> QED
    BY <1>1, <1>2, <1>3, <1>4 DEF DeliveryNext

\* Nothing goes astray while the executions are informed.
LEMMA NothingAstray ==
    DeliveryTyped /\ Informed /\ ConsentHolds /\ [DeliveryNext]_deliveryVars => ConsentHolds'
  <1> SUFFICES ASSUME DeliveryTyped, Informed, ConsentHolds, [DeliveryNext]_deliveryVars PROVE ConsentHolds'
    OBVIOUS
  <1>1. ASSUME NEW d \in Deliverers, SendOnChannel(d)
        PROVE  ConsentHolds'
    <2>1. /\ deliverer[d].pc = "send" /\ Now(d) \in deliverer[d].applies
          /\ Consents(deliverer[d])
      BY <1>1 DEF SendOnChannel, Passed, Informed
    <2>2. deliverer[d].applies \subseteq {"in-app", "push", "email"}
      BY DEF DeliveryTyped, RunsTyped, ExecutionType, ChannelNames
    <2>3. Astray(d) = {}
      BY <2>1, <2>2 DEF Astray, Consents
    <2> QED
      BY <1>1, <2>3 DEF SendOnChannel, ConsentHolds, sends
  <1>2. misdirected' = misdirected \/ \E d \in Deliverers : SendOnChannel(d)
    BY DEF DeliveryNext, NextHour, SweepFinds, RecoverDelivery, TakeDelivery, DeliveryDies,
           ChangeConsent, ChangePhone, PruneMessage, AccountGoes, DeliverStep, FindMessage,
           ReadRecipient, ReadHistory, SkipChannel, RecordSent, RecordFailure, MarkSent,
           MarkFailed, sends, deliveryVars
  <1> QED
    BY <1>1, <1>2 DEF ConsentHolds

\* However the job, the sweep, crashes and the person's changes interleave, an
\* attempt that knew sends no email refused and no push to another's phone.
THEOREM ConsentIsKept == DeliverySpec => []ConsentHolds
  <1>1. DeliveryInit => ConsentHolds
    BY DEF DeliveryInit, ConsentHolds
  <1> QED
    BY <1>1, DeliveryTypedAlways, InformedInit, InformedStep, NothingAstray, PTL DEF DeliverySpec

-----------------------------------------------------------------------------
(***************************************************************************)
(* The copies of the email.                                                *)
(***************************************************************************)
\* A copy has gone out that is not recorded yet.
Owing(of) == of.pc = "ok" /\ of.next = 3

\* The execution sends no more copies once the email is closed: it has not
\* started, it is past the channel, it read that a copy went out, or it will
\* fail to record an earlier channel of a message that is gone.
Harmless(of) ==
    \/ of.pc \in Setup
    \/ of.next = 4 \/ (of.next = 3 /\ of.pc # "send")
    \/ of.past["email"].sent
    \/ ~Exists /\ (of.pc # "send" \/ (of.next = 1 /\ of.past["in-app"] = NoDelivery))

Debtors == {d \in Deliverers : IF Closed THEN Harmless(deliverer[d]) ELSE Owing(deliverer[d])}

\* Every copy is put down to an execution that has sent its own, or to a
\* crash: while the email is open each of them still owes its record, and
\* once it is closed each has no other to send.
CopiesAccounted == emails + events <= Cardinality(Debtors) + MaxEvents

\* Nobody else's step brings a debtor's debt back.
LEMMA OthersDebts ==
    ASSUME ~Exists => ~Exists', Closed => Closed', NEW o \in Deliverers,
           deliverer'[o] = deliverer[o], o \in Debtors
    PROVE  o \in Debtors'
  <1>1. Owing(deliverer[o]) => Harmless(deliverer[o])'
    BY DEF Owing, Harmless
  <1>2. Harmless(deliverer[o]) => Harmless(deliverer[o])'
    BY DEF Harmless
  <1>3. Owing(deliverer[o]) => Owing(deliverer[o])'
    BY DEF Owing
  <1> QED
    BY <1>1, <1>2, <1>3 DEF Debtors

LEMMA DebtorsAreFinite ==
    ASSUME NEW debtors \in SUBSET Deliverers
    PROVE  /\ IsFiniteSet(debtors) /\ Cardinality(debtors) \in Nat
           /\ Cardinality(debtors) <= Cardinality(Deliverers) /\ Cardinality(Deliverers) \in Nat
  <1>1. IsFiniteSet(Deliverers)
    BY DeliveryAssumption, FS_AddElement DEF Deliverers
  <1> QED
    BY <1>1, FS_Subset, FS_CardinalityType

\* A copy that goes out finds one more debtor, a crash may lose one.
LEMMA DebtsStep ==
    ASSUME DeliveryTyped, DeliveryTyped', CopiesAccounted,
           \/ /\ emails' = emails /\ events' = events /\ Debtors \subseteq Debtors'
           \/ /\ emails' = emails + 1 /\ events' = events
              /\ \E d \in Deliverers : d \notin Debtors /\ Debtors \cup {d} \subseteq Debtors'
           \/ /\ emails' = emails /\ events' = events - 1
              /\ \E d \in Deliverers : Debtors \ {d} \subseteq Debtors'
    PROVE  CopiesAccounted'
  <1>0. Debtors \in SUBSET Deliverers /\ Debtors' \in SUBSET Deliverers
    BY DEF Debtors
  <1>1. /\ IsFiniteSet(Debtors) /\ IsFiniteSet(Debtors')
        /\ Cardinality(Debtors) \in Nat /\ Cardinality(Debtors') \in Nat
    BY <1>0, DebtorsAreFinite
  <1>2. emails \in Nat /\ events \in Nat /\ MaxEvents \in Nat
    BY DeliveryAssumption DEF DeliveryTyped, SendsTyped, OutsideTyped
  <1>3. emails + events <= Cardinality(Debtors) + MaxEvents
    BY DEF CopiesAccounted
  <1>4. CASE emails' = emails /\ events' = events /\ Debtors \subseteq Debtors'
    <2>1. Cardinality(Debtors) <= Cardinality(Debtors')
      BY <1>1, <1>4, FS_Subset
    <2>2. emails' + events' <= Cardinality(Debtors') + MaxEvents
      BY <1>1, <1>2, <1>3, <1>4, <2>1
    <2> QED
      BY <2>2 DEF CopiesAccounted
  <1>5. ASSUME emails' = emails + 1, events' = events, NEW d \in Deliverers,
               d \notin Debtors, Debtors \cup {d} \subseteq Debtors'
        PROVE  CopiesAccounted'
    <2>1. Cardinality(Debtors \cup {d}) = Cardinality(Debtors) + 1
      BY <1>1, <1>5, FS_AddElement
    <2>2. Cardinality(Debtors \cup {d}) <= Cardinality(Debtors')
      BY <1>1, <1>5, FS_Subset
    <2>3. emails' + events' <= Cardinality(Debtors') + MaxEvents
      BY <1>1, <1>2, <1>3, <1>5, <2>1, <2>2
    <2> QED
      BY <2>3 DEF CopiesAccounted
  <1>6. ASSUME emails' = emails, events' = events - 1, NEW d \in Deliverers,
               Debtors \ {d} \subseteq Debtors'
        PROVE  CopiesAccounted'
    <2>1. Cardinality(Debtors \ {d}) \in {Cardinality(Debtors), Cardinality(Debtors) - 1}
      BY <1>1, FS_RemoveElement
    <2>2. Cardinality(Debtors \ {d}) <= Cardinality(Debtors')
      BY <1>1, <1>6, FS_Subset
    <2>3. emails' + events' <= Cardinality(Debtors') + MaxEvents
      BY <1>1, <1>2, <1>3, <1>6, <2>1, <2>2
    <2> QED
      BY <2>3 DEF CopiesAccounted
  <1> QED
    BY <1>4, <1>5, <1>6

\* What one execution does to its own debt.  While the email is open only the
\* record of a copy ends the debt of whoever sent it, and closes the email.
LEMMA OwnDebt ==
    ASSUME DeliveryTyped, ~Exists => ~Exists', Closed => Closed', NEW d \in Deliverers,
           Rests(d) \/ Prepares(d) \/ Asks(d) \/ Reads(d) \/ Sends(d) \/ Passes(d),
           deliverer[d].pc # "ok" \/ deliverer[d].next # 3 \/ Closed',
           d \in Debtors
    PROVE  d \in Debtors'
  <1> USE DEF DeliveryTyped
  <1>0. /\ deliverer \in [Deliverers -> ExecutionType] /\ deliverer[d] \in ExecutionType
        /\ Ordered(deliverer[d])
    BY DEF RunsTyped
  <1>1. ASSUME NEW of, Move(d, of)
        PROVE  deliverer'[d] = of
    BY <1>0, <1>1 DEF Move
  <1>2. ASSUME Owing(deliverer[d])
        PROVE  Closed'
    BY <1>2 DEF Owing
  <1>3. Closed'
    BY <1>2 DEF Debtors
  <1>4. Closed => Harmless(deliverer[d])
    BY DEF Debtors
  <1>5. ~Closed => Owing(deliverer[d])
    BY DEF Debtors
  <1> SUFFICES Harmless(deliverer[d])'
    BY <1>3 DEF Debtors
  <1>6. CASE Rests(d)
    <2>1. deliverer'[d].pc = "idle"
      BY <1>1, <1>6, RestingExecution DEF Rests
    <2> QED
      BY <2>1 DEF Harmless, Setup
  <1>7. CASE Prepares(d)
    <2> PICK pc \in {"find", "recipient"} : Move(d, [deliverer[d] EXCEPT !.pc = pc])
      BY <1>7 DEF Prepares
    <2>1. deliverer'[d].pc = pc
      BY <1>0, <1>1 DEF ExecutionType
    <2> QED
      BY <2>1 DEF Harmless, Setup
  <1>8. CASE Asks(d)
    <2> DEFINE applies == {"in-app"} \cup (IF phone = "holder" THEN {"push"} ELSE {})
                                     \cup (IF emailEnabled THEN {"email"} ELSE {})
    <2>1. Move(d, [deliverer[d] EXCEPT !.pc = "history", !.applies = applies])
      BY <1>8 DEF Asks
    <2> HIDE DEF applies
    <2>2. deliverer'[d].pc = "history"
      BY <1>0, <1>1, <2>1 DEF ExecutionType
    <2> QED
      BY <2>2 DEF Harmless, Setup
  \* What is read after a copy was recorded says so, and what is read of a
  \* message that is gone says nothing went out on any channel.
  <1>9. CASE Reads(d)
    <2> DEFINE of == [deliverer[d] EXCEPT !.pc = "send", !.past = ledger]
    <2>0. Move(d, of) /\ deliverer[d].pc = "history" /\ deliverer[d].next = 1
      BY <1>0, <1>9 DEF Reads, Ordered, Setup
    <2>1. deliverer'[d].pc = "send" /\ deliverer'[d].past = ledger /\ deliverer'[d].next = 1
      BY <1>0, <1>1, <2>0 DEF ExecutionType
    <2>2. Closed
      BY <1>5, <2>0 DEF Owing
    <2>3. CASE Exists
      <3>1. ledger["email"].sent
        BY <2>2, <2>3 DEF Closed
      <3> QED
        BY <2>1, <3>1 DEF Harmless
    <2>4. CASE ~Exists
      <3>1. ledger["in-app"] = NoDelivery /\ ~Exists'
        BY <2>4 DEF MessageTyped, NoPast, ChannelNames
      <3> QED
        BY <2>1, <3>1 DEF Harmless
    <2> QED
      BY <2>3, <2>4
  <1>10. CASE Sends(d)
    <2> PICK pc \in {"ok", "bad"} : Move(d, [deliverer[d] EXCEPT !.pc = pc])
      BY <1>10 DEF Sends
    <2>1. deliverer'[d].pc = pc /\ deliverer'[d].past = deliverer[d].past
      BY <1>0, <1>1 DEF ExecutionType
    <2>2. /\ deliverer[d].pc = "send" /\ deliverer[d].next <= 3 /\ Closed
      BY <1>5, <1>10 DEF Sends, Owing
    <2>3. deliverer[d].past["email"].sent \/ ~Exists
      BY <1>4, <2>2 DEF Harmless, Setup
    <2> QED
      BY <2>1, <2>3 DEF Harmless
  <1>11. CASE Passes(d)
    <2> PICK failed \in BOOLEAN : Move(d, NextChannel(deliverer[d], failed))
      BY <1>11 DEF Passes
    <2>1. /\ deliverer[d].next <= 3 /\ deliverer[d].pc \in {"send", "ok", "bad"}
          /\ deliverer[d].next \in Nat
      BY <1>0, <1>11 DEF Passes, ExecutionType
    <2>2. /\ deliverer'[d].pc = "send" /\ deliverer'[d].next = deliverer[d].next + 1
          /\ deliverer[d].next # 3 => deliverer'[d].past["email"] = deliverer[d].past["email"]
      BY <1>0, <1>1, <2>1, NextChannelRun
    <2>3. CASE deliverer[d].next = 3
      BY <2>2, <2>3 DEF Harmless
    <2>4. CASE deliverer[d].next # 3
      <3>1. Closed
        BY <1>5, <2>4 DEF Owing
      <3>2. Harmless(deliverer[d])
        BY <1>4, <3>1
      <3>3. CASE Exists
        BY <2>1, <2>2, <2>4, <3>2, <3>3 DEF Harmless, Setup
      <3>4. CASE deliverer[d].pc = "send" /\ Passed(d)
        <4>1. ~(deliverer[d].next = 1 /\ deliverer[d].past["in-app"] = NoDelivery)
          <5> SUFFICES ASSUME deliverer[d].next = 1, deliverer[d].past["in-app"] = NoDelivery
                       PROVE  FALSE
            OBVIOUS
          <5>1. Now(d) = "in-app" /\ "in-app" \in deliverer[d].applies
            BY <1>0, <3>4, ChannelOrder DEF Now, Ordered
          <5> QED
            BY <3>4, <5>1 DEF Passed, NoDelivery
        <4>2. deliverer[d].past["email"].sent
          BY <2>1, <2>4, <3>2, <3>4, <4>1 DEF Harmless, Setup
        <4> QED
          BY <2>2, <2>4, <4>2 DEF Harmless
      <3> QED
        BY <1>11, <3>3, <3>4 DEF Passes
    <2> QED
      BY <2>3, <2>4
  <1> QED
    BY <1>6, <1>7, <1>8, <1>9, <1>10, <1>11

\* A step of one execution that sends nothing.
LEMMA QuietDebts ==
    ASSUME DeliveryTyped, ~Exists => ~Exists', Closed => Closed', NEW d \in Deliverers,
           Rests(d) \/ Prepares(d) \/ Asks(d) \/ Reads(d) \/ Sends(d) \/ Passes(d)
    PROVE  /\ Debtors \ {d} \subseteq Debtors'
           /\ deliverer[d].pc # "ok" \/ deliverer[d].next # 3 \/ Closed' => Debtors \subseteq Debtors'
  <1>1. \A o \in Deliverers \ {d} : deliverer'[o] = deliverer[o]
    BY DEF DeliveryTyped, RunsTyped, Rests, Prepares, Asks, Reads, Sends, Passes, Move
  <1>2. Debtors \ {d} \subseteq Debtors'
    <2> SUFFICES ASSUME NEW o \in Debtors \ {d} PROVE o \in Debtors'
      OBVIOUS
    <2>1. o \in Deliverers \ {d}
      BY DEF Debtors
    <2> QED
      BY <1>1, <2>1, OthersDebts
  <1>3. deliverer[d].pc # "ok" \/ deliverer[d].next # 3 \/ Closed' => (d \in Debtors => d \in Debtors')
    BY OwnDebt
  <1> QED
    BY <1>2, <1>3

\* An email that goes out is the first of an execution that owed none and had
\* one to send, and it owes its record now.
LEMMA CopyDebts ==
    ASSUME DeliveryTyped, ~Exists => ~Exists', Closed => Closed', UNCHANGED <<message, ledger>>,
           NEW d \in Deliverers, deliverer[d].pc = "send", deliverer[d].next = 3, ~Passed(d),
           Step(d, "ok"), Sends(d)
    PROVE  d \notin Debtors /\ Debtors \cup {d} \subseteq Debtors'
  <1>0. deliverer[d] \in ExecutionType /\ deliverer \in [Deliverers -> ExecutionType]
    BY DEF DeliveryTyped, RunsTyped
  <1>1. ~deliverer[d].past["email"].sent
    BY ChannelOrder DEF Passed, Now
  <1>2. d \notin Debtors
    BY <1>1 DEF Debtors, Harmless, Owing, Setup
  <1>3. deliverer'[d].pc = "ok" /\ deliverer'[d].next = 3
    BY <1>0 DEF Step, ExecutionType
  <1>4. d \in Debtors'
    BY <1>3 DEF Debtors, Harmless, Owing
  <1>5. Debtors \ {d} \subseteq Debtors'
    BY QuietDebts
  <1> QED
    BY <1>2, <1>4, <1>5

LEMMA CopiesStep == DeliveryTyped /\ CopiesAccounted /\ [DeliveryNext]_deliveryVars => CopiesAccounted'
  <1> SUFFICES ASSUME DeliveryTyped, CopiesAccounted, [DeliveryNext]_deliveryVars PROVE CopiesAccounted'
    OBVIOUS
  <1>0. DeliveryTyped' /\ (~Exists => ~Exists') /\ (Closed => Closed')
    BY DeliveryTypedStep, MessageStep
  <1>i. events \in Int
    BY DeliveryAssumption DEF DeliveryTyped, OutsideTyped
  <1>1. ASSUME NEW d \in Deliverers, DeliverStep(d)
        PROVE  CopiesAccounted'
    <2>0. Rests(d) \/ Prepares(d) \/ Asks(d) \/ Reads(d) \/ Sends(d) \/ Passes(d)
      BY <1>1, ExecutionSteps
    <2>1. events' = events
      BY <1>1 DEF DeliverStep, FindMessage, ReadRecipient, ReadHistory, SkipChannel, SendOnChannel,
             RecordSent, RecordFailure, MarkSent, MarkFailed, Settings
    <2>2. CASE emails' = emails
      <3>1. deliverer[d].pc # "ok" \/ deliverer[d].next # 3 \/ Closed'
        <4> SUFFICES ASSUME deliverer[d].pc = "ok", deliverer[d].next = 3 PROVE Closed'
          OBVIOUS
        <4>1. RecordSent(d)
          BY <1>1 DEF DeliverStep, FindMessage, ReadRecipient, ReadHistory, SkipChannel,
             SendOnChannel, RecordFailure, MarkSent, MarkFailed
        <4>2. Now(d) = "email"
          BY ChannelOrder DEF Now
        <4>3. CASE Exists
          <5>1. ledger' = [ledger EXCEPT !["email"].sent = TRUE, !["email"].attempts = @ + 1]
            BY <4>1, <4>2, <4>3 DEF RecordSent
          <5>2. ledger["email"] \in Tries /\ ledger \in History /\ "email" \in ChannelNames
            BY DEF DeliveryTyped, MessageTyped, History, ChannelNames
          <5>3. ledger'["email"].sent
            BY <5>1, <5>2 DEF Tries, History
          <5> QED
            BY <5>3 DEF Closed
        <4>4. CASE ~Exists
          BY <1>0, <4>4 DEF Closed
        <4> QED
          BY <4>3, <4>4
      <3>2. Debtors \subseteq Debtors'
        BY <1>0, <2>0, <3>1, QuietDebts
      <3> QED
        BY <1>0, <2>1, <2>2, <3>2, DebtsStep
    <2>3. CASE emails' # emails
      <3>1. SendOnChannel(d)
        BY <1>1, <2>3 DEF DeliverStep, FindMessage, ReadRecipient, ReadHistory, SkipChannel,
             RecordSent, RecordFailure, MarkSent, MarkFailed, sends
      <3>2. /\ deliverer[d].pc = "send" /\ ~Passed(d) /\ Step(d, "ok") /\ Now(d) = "email"
            /\ deliverer[d].next <= 3 /\ emails' = emails + 1 /\ UNCHANGED <<message, ledger>>
        BY <2>3, <3>1, ChannelOrder DEF SendOnChannel, sends
      <3>3. deliverer[d].next = 3
        <4>1. deliverer[d].next \in 1 .. 3
          BY <3>2 DEF DeliveryTyped, RunsTyped, ExecutionType
        <4> QED
          BY <3>2, <4>1, ChannelOrder DEF Now
      <3>4. Move(d, [deliverer[d] EXCEPT !.pc = "ok"])
        BY <3>2 DEF Step, Move
      <3>5. Sends(d)
        BY <3>2, <3>4 DEF Sends
      <3>6. d \notin Debtors /\ Debtors \cup {d} \subseteq Debtors'
        BY <1>0, <3>2, <3>3, <3>5, CopyDebts
      <3> QED
        BY <1>0, <2>1, <3>2, <3>6, DebtsStep
    <2> QED
      BY <2>2, <2>3
  <1>2. ASSUME NEW d \in Deliverers, DeliveryDies(d)
        PROVE  CopiesAccounted'
    <2>1. Debtors \ {d} \subseteq Debtors'
      BY <1>0, <1>2, ExecutionSteps, QuietDebts
    <2>2. emails' = emails /\ events' = events - 1
      BY <1>2 DEF DeliveryDies, Event, sends
    <2> QED
      BY <1>0, <2>1, <2>2, DebtsStep
  <1>3. ASSUME NEW d \in Deliverers, Prepares(d), emails' = emails, events' = events
        PROVE  CopiesAccounted'
    <2>1. deliverer[d].pc # "ok"
      BY <1>3 DEF Prepares
    <2>2. Debtors \subseteq Debtors'
      BY <1>0, <1>3, <2>1, QuietDebts
    <2> QED
      BY <1>0, <1>3, <2>2, DebtsStep
  <1>4. CASE (\E w \in Workers : TakeDelivery(w)) \/ SweepFinds
    <2>1. emails' = emails /\ events' = events
      BY <1>4 DEF TakeDelivery, SweepFinds, Settings, sends
    <2>2. Workers \subseteq Deliverers /\ Sweeper \in Deliverers
      BY DEF Deliverers
    <2> QED
      BY <1>3, <1>4, <2>1, <2>2, ExecutionSteps
  \* Nobody's execution moves.
  <1>5. ASSUME \A o \in Deliverers : /\ Owing(deliverer[o]) => Owing(deliverer[o])'
                                     /\ Owing(deliverer[o]) => Harmless(deliverer[o])'
                                     /\ Harmless(deliverer[o]) => Harmless(deliverer[o])',
               emails' = emails, events' \in {events, events - 1}
        PROVE  CopiesAccounted'
    <2>1. Debtors \subseteq Debtors'
      BY <1>0, <1>5 DEF Debtors
    <2>2. Sweeper \in Deliverers /\ Debtors \ {Sweeper} \subseteq Debtors'
      BY <2>1 DEF Deliverers
    <2> QED
      BY <1>0, <1>5, <2>1, <2>2, DebtsStep
  <1>6. CASE ChangeConsent \/ \E owner \in {"holder", "other", "nobody"} : ChangePhone(owner)
    <2>1. /\ deliverer' = Outdated /\ emails' = emails /\ events' = events - 1
          /\ message' = message
      BY <1>6 DEF ChangeConsent, ChangePhone, Event, sends
    <2>2. ASSUME NEW o \in Deliverers
          PROVE  /\ deliverer'[o].pc = deliverer[o].pc /\ deliverer'[o].next = deliverer[o].next
                 /\ deliverer'[o].past = deliverer[o].past
      <3>1. deliverer[o] \in ExecutionType
        BY DEF DeliveryTyped, RunsTyped
      <3> QED
        BY <2>1, <3>1 DEF Outdated, ExecutionType
    <2>3. Exists' = Exists
      BY <2>1 DEF Exists
    <2> QED
      BY <1>5, <2>1, <2>2, <2>3 DEF Owing, Harmless
  <1>7. CASE NextHour \/ RecoverDelivery \/ PruneMessage \/ AccountGoes \/ UNCHANGED deliveryVars
    <2>1. /\ deliverer' = deliverer /\ emails' = emails /\ events' \in {events, events - 1}
      BY <1>7 DEF NextHour, RecoverDelivery, PruneMessage, AccountGoes, Event, Settings, sends,
                  deliveryVars
    <2> QED
      BY <1>0, <1>5, <2>1 DEF Owing, Harmless
  <1> QED
    BY <1>1, <1>2, <1>4, <1>6, <1>7 DEF DeliveryNext

\* Retries, passes of the sweep and overlapping attempts multiply an email no
\* further: a copy for each execution that can overlap, and one more for each
\* that died between sending and recording.
THEOREM CopiesStayBounded == DeliverySpec => []CopiesAreBounded
  <1>1. DeliveryInit => CopiesAccounted
    <2> SUFFICES ASSUME DeliveryInit PROVE CopiesAccounted
      OBVIOUS
    <2>1. Cardinality(Debtors) \in Nat
      BY DebtorsAreFinite DEF Debtors
    <2> QED
      BY <2>1, DeliveryAssumption DEF DeliveryInit, CopiesAccounted
  <1>2. DeliveryTyped /\ CopiesAccounted => CopiesAreBounded
    <2> SUFFICES ASSUME DeliveryTyped, CopiesAccounted PROVE CopiesAreBounded
      OBVIOUS
    <2>1. /\ Cardinality(Debtors) <= Cardinality(Deliverers)
          /\ Cardinality(Debtors) \in Nat /\ Cardinality(Deliverers) \in Nat
      BY DebtorsAreFinite DEF Debtors
    <2>2. emails \in Nat /\ events \in Nat /\ MaxEvents \in Nat
      BY DeliveryAssumption DEF DeliveryTyped, SendsTyped, OutsideTyped
    <2> QED
      BY <2>1, <2>2 DEF CopiesAccounted, CopiesAreBounded
  <1> QED
    BY <1>1, <1>2, DeliveryTypedAlways, CopiesStep, PTL DEF DeliverySpec

-----------------------------------------------------------------------------
(***************************************************************************)
(* ShoppingSession.  A trip's safety rests on two facts about requests in  *)
(* flight: a status write still waiting was decided from an open trip, and *)
(* a line write still waiting carries a sane moment.                       *)
(***************************************************************************)
\* A status write waiting for the lock was decided from a status its verb may
\* start from.
DecidedFromOpen ==
    \A c \in Changers : changer[c].pc = "write" =>
        changer[c].seen \in AllowedFrom[changer[c].verb]

Sane(moment) == moment # NoTime /\ moment \in StartedAt .. (clock + Skew)

\* A line write waiting for the lock carries a sane moment.
PendingMomentsAreSane ==
    /\ clock >= StartedAt
    /\ \A w \in Writers : writer[w].pc = "write" => Sane(writer[w].moment)

-----------------------------------------------------------------------------
(***************************************************************************)
(* What the operators return.                                              *)
(***************************************************************************)
\* An update of a line is a line.
LEMMA UpdatedIsLine ==
    ASSUME NEW line \in Line, NEW cmd \in Commands, NEW moment \in Nat
    PROVE  Updated(line, cmd, moment) \in Line
  BY ConstantsAssumption DEF Updated, Line, Commands, NoTime

\* The moment a command is given is a natural number.
LEMMA MomentIsNat ==
    ASSUME NEW line \in Line, NEW cmd \in Commands, NEW now \in Nat
    PROVE  MomentOf(line, cmd, now) \in Nat
  BY ConstantsAssumption
  DEF MomentOf, ResolvePurchasedAt, Line, Commands, NoTime

\* A reported time, or its absence, is a natural number.
LEMMA ReportIsNat ==
    ASSUME NEW cmd \in Commands
    PROVE  cmd.at \in Nat
  <1>1. cmd.at \in Reported \cup {NoTime}
    BY DEF Commands
  <1>2. Reported \cup {NoTime} \subseteq Nat
    <2>1. Reported \subseteq Nat
      BY ConstantsAssumption
    <2>2. NoTime \in Nat
      BY DEF NoTime
    <2> QED
      BY <2>1, <2>2
  <1> QED
    BY <1>1, <1>2

\* The purchases of well-formed lines are well-formed.
LEMMA PurchasesAreTyped ==
    ASSUME NEW its \in [Items -> Line]
    PROVE  PurchasesOf(its) \in SUBSET [item : Items, line : Line]
  BY DEF PurchasesOf

\* The resting record of a request is of its type.
LEMMA RestingIsTyped ==
    /\ NoCommand \in Commands
    /\ Resting.cmd \in Commands
    /\ Resting.moment \in Nat
    /\ Resting.pc = "idle"
  <1>1. (CHOOSE i \in Items : TRUE) \in Items
    BY ConstantsAssumption
  <1>2. NoCommand \in Commands
    BY <1>1 DEF NoCommand, Commands, NoTime
  <1> QED
    BY <1>2 DEF Resting, NoTime

-----------------------------------------------------------------------------
(***************************************************************************)
(* Type correctness.                                                       *)
(***************************************************************************)
\* The records of the requests stay within their types.
ChangerType == [pc        : {"idle", "decide", "write", "publish"},
                verb      : Verbs,
                attempt   : 0 .. MaxAttempts - 1,
                seen      : Status,
                purchases : SUBSET [item : Items, line : Line]]

WriterType == [pc     : {"idle", "load", "write", "recheck", "replayed"},
               cmd    : Commands,
               moment : Nat]

LEMMA TripTypeInit == Init => TypeOK
  <1> SUFFICES ASSUME Init PROVE TypeOK
    OBVIOUS
  <1>1. changer \in [Changers -> ChangerType]
    BY ConstantsAssumption DEF Init, Idle, ChangerType, Verbs, Status
  <1>2. writer \in [Writers -> WriterType]
    BY RestingIsTyped DEF Init, Resting, WriterType
  <1>3. items \in [Items -> Line]
    BY DEF Init, Line, NoTime
  <1>4. published \in Seq(SUBSET [item : Items, line : Line])
    BY DEF Init
  <1>5. clock \in Nat /\ lost \in BOOLEAN /\ status \in Status /\ stamps \subseteq Stamps
    BY ConstantsAssumption DEF Init, Status, Stamps, NoTime
  <1> QED
    BY <1>1, <1>2, <1>3, <1>4, <1>5 DEF TypeOK, ChangerType, WriterType

LEMMA TripTypeStep == TypeOK /\ [Next]_vars => TypeOK'
  <1> SUFFICES ASSUME TypeOK, [Next]_vars PROVE TypeOK'
    OBVIOUS
  <1> USE DEF TypeOK
  <1>0. /\ changer \in [Changers -> ChangerType]
        /\ writer \in [Writers -> WriterType]
        /\ Idle \in ChangerType
        /\ Resting \in WriterType
    BY ConstantsAssumption, RestingIsTyped
    DEF ChangerType, WriterType, Idle, Resting, Verbs, Status
  <1>1. ASSUME NEW c \in Changers, NEW verb \in Verbs, RequestChange(c, verb)
        PROVE  TypeOK'
    BY <1>0, <1>1 DEF RequestChange, ChangerType
  <1>2. ASSUME NEW c \in Changers, Decide(c)
        PROVE  TypeOK'
    BY <1>0, <1>2, ZenonT(60) DEF Decide, ChangerType
  <1>3. ASSUME NEW c \in Changers, Apply(c)
        PROVE  TypeOK'
    <2>1. AfterWrite(changer[c], items) \in ChangerType
      BY <1>0, PurchasesAreTyped DEF AfterWrite, ChangerType
    <2>2. NextAttempt(changer[c]) \in ChangerType
      <3>1. changer[c] \in ChangerType
        BY <1>0
      <3>2. CASE changer[c].attempt + 1 < MaxAttempts
        <4>1. changer[c].attempt + 1 \in 0 .. MaxAttempts - 1
          BY <3>1, <3>2, ConstantsAssumption DEF ChangerType
        <4>2. NextAttempt(changer[c]) =
                [changer[c] EXCEPT !.pc = "decide", !.attempt = changer[c].attempt + 1]
          BY <3>2 DEF NextAttempt
        <4> QED
          BY <3>1, <4>1, <4>2 DEF ChangerType
      <3>3. CASE ~(changer[c].attempt + 1 < MaxAttempts)
        BY <1>0, <3>3 DEF NextAttempt
      <3> QED
        BY <3>2, <3>3
    <2>3. changer' \in [Changers -> ChangerType]
      BY <1>0, <1>3, <2>1, <2>2 DEF Apply
    <2>4. /\ Target[changer[c].verb] \in Status
          /\ ChangeFor(changer[c].verb, stamps) \subseteq Stamps
      BY DEF Target, Status, Verbs, ChangeFor, Stamps
    <2> QED
      BY <1>3, <2>3, <2>4 DEF Apply, ChangerType
  <1>4. ASSUME NEW c \in Changers, PublishCompleted(c)
        PROVE  TypeOK'
    BY <1>0, <1>4 DEF PublishCompleted, ChangerType
  <1>5. ASSUME NEW c \in Changers, Die(c)
        PROVE  TypeOK'
    BY <1>0, <1>5 DEF Die, ChangerType
  <1>6. ASSUME NEW w \in Writers, NEW cmd \in Commands, RequestWrite(w, cmd)
        PROVE  TypeOK'
    BY <1>0, <1>6 DEF RequestWrite, WriterType
  <1>7. ASSUME NEW w \in Writers, LoadLine(w)
        PROVE  TypeOK'
    <2>1. MomentOf(items[writer[w].cmd.item], writer[w].cmd, clock) \in Nat
      BY <1>0, MomentIsNat DEF WriterType, Commands
    <2> QED
      BY <1>0, <1>7, <2>1, ZenonT(60) DEF LoadLine, WriterType
  <1>8. ASSUME NEW w \in Writers, UpdateItemWhileOpen(w)
        PROVE  TypeOK'
    <2>1. Updated(items[writer[w].cmd.item], writer[w].cmd, writer[w].moment) \in Line
      BY <1>0, UpdatedIsLine DEF WriterType, Commands
    <2>2. items' \in [Items -> Line]
      BY <1>8, <2>1 DEF UpdateItemWhileOpen
    <2>3. writer' \in [Writers -> WriterType]
      <3>1. CASE IsOpen(status)
        BY <1>0, <1>8, <3>1 DEF UpdateItemWhileOpen
      <3>2. CASE ~IsOpen(status)
        <4>1. [writer[w] EXCEPT !.pc = "recheck"] \in WriterType
          BY <1>0 DEF WriterType
        <4>2. writer' = [writer EXCEPT ![w] = [writer[w] EXCEPT !.pc = "recheck"]]
          BY <1>8, <3>2 DEF UpdateItemWhileOpen
        <4> QED
          BY <1>0, <4>1, <4>2
      <3> QED
        BY <3>1, <3>2
    <2> QED
      BY <1>8, <2>2, <2>3 DEF UpdateItemWhileOpen, WriterType
  <1>9. ASSUME NEW w \in Writers, Recheck(w)
        PROVE  TypeOK'
    BY <1>0, <1>9, ZenonT(60) DEF Recheck, WriterType
  <1>10. ASSUME NEW w \in Writers, Leave(w)
         PROVE  TypeOK'
    BY <1>0, <1>10 DEF Leave, WriterType
  <1>11. CASE Tick
    BY <1>11 DEF Tick
  <1>12. CASE UNCHANGED vars
    BY <1>12 DEF vars
  <1> QED
    BY <1>1, <1>2, <1>3, <1>4, <1>5, <1>6, <1>7, <1>8, <1>9, <1>10, <1>11, <1>12
    DEF Next, ChangerStep, WriterStep

\* Every variable keeps its type: a request never holds a malformed command,
\* attempt count or event, whatever it was interrupted by.
THEOREM TripKeepsTypes == Spec => []TypeOK
  BY TripTypeInit, TripTypeStep, PTL DEF Spec

-----------------------------------------------------------------------------
(***************************************************************************)
(* The trip's status and its event.                                        *)
(***************************************************************************)
StatusInv == DecidedFromOpen /\ CompletionIsFinal /\ StampsTellStatus

\* No verb starts from a closed trip.
LEMMA AllowedFromOpen ==
    ASSUME NEW verb \in Verbs, NEW s \in AllowedFrom[verb]
    PROVE  IsOpen(s)
  BY DEF Verbs, AllowedFrom, IsOpen

\* A status write that takes effect moves an open trip, holds the event if it
\* completed it, and leaves the timestamps of the status it moved to.
LEMMA ApplyKeepsStatusInv ==
    ASSUME TypeOK, StatusInv, NEW c \in Changers, Apply(c)
    PROVE  StatusInv'
  <1> USE DEF TypeOK
  <1> DEFINE verb == changer[c].verb
  <1>1. /\ changer[c].pc = "write"
        /\ verb \in Verbs
        /\ changer[c].seen \in AllowedFrom[verb]
        /\ UNCHANGED <<items, writer, published, lost, clock>>
    BY DEF Apply, StatusInv, DecidedFromOpen
  <1>2. CASE status = changer[c].seen
    <2>1. /\ status' = Target[verb]
          /\ stamps' = ChangeFor(verb, stamps)
          /\ changer' = [changer EXCEPT ![c] = AfterWrite(changer[c], items)]
      BY <1>2 DEF Apply
    <2>2. IsOpen(status) /\ status \in AllowedFrom[verb]
      BY <1>1, <1>2, AllowedFromOpen
    <2>3. published = << >> /\ \A d \in Changers : changer[d].pc # "publish"
      BY <2>2 DEF StatusInv, CompletionIsFinal, IsOpen
    <2>4. changer'[c] = AfterWrite(changer[c], items)
      BY <2>1
    <2>5. \A d \in Changers \ {c} : changer'[d] = changer[d]
      BY <2>1
    <2>6. changer'[c].pc # "write"
      BY <1>1, <2>4 DEF AfterWrite, Idle
    <2>7. changer'[c].pc = "publish" =>
             /\ verb = "complete"
             /\ changer'[c].purchases = PurchasesOf(items)
      BY <1>1, <2>4 DEF AfterWrite, Idle
    <2>8. DecidedFromOpen'
      BY <2>5, <2>6 DEF StatusInv, DecidedFromOpen
    <2>9. CompletionIsFinal'
      <3>1. verb = "complete" => status' = "COMPLETED"
        BY <2>1 DEF Target
      <3>2. \A d \in Changers : changer'[d].pc = "publish" => d = c
        BY <2>3, <2>5
      <3> QED
        BY <1>1, <2>3, <2>7, <3>1, <3>2 DEF CompletionIsFinal
    <2>10. StampsTellStatus'
      <3>1. /\ status \in {"ACTIVE", "PAUSED"}
            /\ stamps = IF status = "ACTIVE" THEN {} ELSE {"pausedAt"}
        BY <2>2 DEF IsOpen, StatusInv, StampsTellStatus
      <3>2. CASE verb = "pause"
        BY <2>1, <2>2, <3>1, <3>2 DEF StampsTellStatus, Target, ChangeFor, AllowedFrom
      <3>3. CASE verb = "resume"
        BY <2>1, <2>2, <3>1, <3>3 DEF StampsTellStatus, Target, ChangeFor, AllowedFrom
      <3>4. CASE verb = "complete"
        BY <2>1, <3>1, <3>4 DEF StampsTellStatus, Target, ChangeFor
      <3>5. CASE verb = "abandon"
        BY <2>1, <3>1, <3>5 DEF StampsTellStatus, Target, ChangeFor
      <3> QED
        BY <1>1, <3>2, <3>3, <3>4, <3>5 DEF Verbs
    <2> QED
      BY <2>8, <2>9, <2>10 DEF StatusInv
  <1>3. CASE status # changer[c].seen
    <2>1. /\ changer' = [changer EXCEPT ![c] = NextAttempt(changer[c])]
          /\ UNCHANGED <<status, stamps>>
      BY <1>3 DEF Apply
    <2>2. changer'[c].pc \in {"idle", "decide"}
      BY <2>1 DEF NextAttempt, Idle
    <2>3. \A d \in Changers \ {c} : changer'[d] = changer[d]
      BY <2>1
    <2> QED
      BY <1>1, <2>1, <2>2, <2>3
      DEF StatusInv, DecidedFromOpen, CompletionIsFinal, StampsTellStatus
  <1> QED
    BY <1>2, <1>3

\* A line is written only while the trip is open, when no event exists yet.
LEMMA WriteKeepsStatusInv ==
    ASSUME TypeOK, StatusInv, NEW w \in Writers, UpdateItemWhileOpen(w)
    PROVE  StatusInv'
  <1>1. UNCHANGED <<status, stamps, changer, published>>
    BY DEF UpdateItemWhileOpen
  <1>2. CASE IsOpen(status)
    <2>1. published = << >> /\ \A d \in Changers : changer[d].pc # "publish"
      BY <1>2 DEF StatusInv, CompletionIsFinal, IsOpen
    <2> QED
      BY <1>1, <2>1 DEF StatusInv, DecidedFromOpen, CompletionIsFinal, StampsTellStatus
  <1>3. CASE ~IsOpen(status)
    BY <1>1, <1>3
    DEF UpdateItemWhileOpen, StatusInv, DecidedFromOpen, CompletionIsFinal, StampsTellStatus
  <1> QED
    BY <1>2, <1>3

LEMMA StatusStep == TypeOK /\ StatusInv /\ [Next]_vars => StatusInv'
  <1> SUFFICES ASSUME TypeOK, StatusInv, [Next]_vars PROVE StatusInv'
    OBVIOUS
  <1> USE DEF StatusInv, DecidedFromOpen, CompletionIsFinal, StampsTellStatus
  <1>1. ASSUME NEW c \in Changers, NEW verb \in Verbs, RequestChange(c, verb)
        PROVE  StatusInv'
    BY <1>1 DEF RequestChange, Idle, TypeOK
  <1>2. ASSUME NEW c \in Changers, Decide(c)
        PROVE  StatusInv'
    BY <1>2 DEF Decide, DecideTransition, Idle, TypeOK
  <1>3. ASSUME NEW c \in Changers, Apply(c)
        PROVE  StatusInv'
    BY <1>3, ApplyKeepsStatusInv
  <1>4. ASSUME NEW c \in Changers, PublishCompleted(c)
        PROVE  StatusInv'
    <2>1. /\ changer[c].pc = "publish"
          /\ published' = Append(published, changer[c].purchases)
          /\ changer' = [changer EXCEPT ![c] = Idle]
          /\ UNCHANGED <<status, stamps, items>>
      BY <1>4 DEF PublishCompleted
    <2>2. /\ published' = <<PurchasesOf(items)>>
          /\ status = "COMPLETED"
      <3>1. /\ published = << >>
            /\ status = "COMPLETED"
            /\ changer[c].purchases = PurchasesOf(items)
        BY <2>1
      <3>2. Append(<< >>, changer[c].purchases) = <<changer[c].purchases>>
        OBVIOUS
      <3> QED
        BY <2>1, <3>1, <3>2
    <2>3. \A d \in Changers : changer'[d].pc # "publish"
      <3>1. \A d \in Changers \ {c} : changer[d].pc # "publish"
        BY <2>1
      <3>2. changer'[c].pc = "idle" /\ \A d \in Changers \ {c} : changer'[d] = changer[d]
        BY <2>1 DEF Idle, TypeOK
      <3> QED
        BY <3>1, <3>2
    <2>4. \A d \in Changers : changer'[d].pc = "write" => changer'[d] = changer[d]
      BY <2>1 DEF Idle, TypeOK
    <2> QED
      BY <2>1, <2>2, <2>3, <2>4
  <1>5. ASSUME NEW c \in Changers, Die(c)
        PROVE  StatusInv'
    BY <1>5 DEF Die, Idle, TypeOK
  <1>6. ASSUME NEW w \in Writers, UpdateItemWhileOpen(w)
        PROVE  StatusInv'
    BY <1>6, WriteKeepsStatusInv
  <1>7. ASSUME UNCHANGED <<status, stamps, items, changer, published>>
        PROVE  StatusInv'
    BY <1>7
  <1> QED
    BY <1>1, <1>2, <1>3, <1>4, <1>5, <1>6, <1>7
    DEF Next, ChangerStep, WriterStep, RequestWrite, LoadLine, Recheck, Leave, Tick, vars

LEMMA StatusAlways == Spec => []StatusInv
  <1>1. Init => StatusInv
    BY DEF Init, StatusInv, DecidedFromOpen, CompletionIsFinal, StampsTellStatus, Idle
  <1> QED
    BY <1>1, StatusStep, TripKeepsTypes, PTL DEF Spec

\* The event goes out at most once, only for a completed trip, and lists what
\* the trip holds for good: changeStatus is conditional on the status it was
\* decided from, and no line is written once the trip has closed.
THEOREM CompletionFinal == Spec => []CompletionIsFinal
  BY StatusAlways, PTL DEF StatusInv

\* The timestamps tell the status whatever path of pauses and retries led to
\* it, because a status write takes effect only on the status it was decided
\* from.
THEOREM StampsTell == Spec => []StampsTellStatus
  BY StatusAlways, PTL DEF StatusInv

-----------------------------------------------------------------------------
(***************************************************************************)
(* The lines.                                                              *)
(***************************************************************************)
\* A request on its way to the replay check found the trip closed.
RecheckedWhenClosed ==
    \A w \in Writers : writer[w].pc = "recheck" => ~IsOpen(status)

LineInv ==
    /\ PendingMomentsAreSane
    /\ RecheckedWhenClosed
    /\ MomentsAreSane
    /\ ReplaysAreTrue

\* Whatever a phone reports, the moment a command is given is sane when the
\* line it was computed from is.
LEMMA MomentIsSane ==
    ASSUME TypeOK, NEW line \in Line, NEW cmd \in Commands, clock >= StartedAt,
           line.bought => line.at \in StartedAt .. (clock + Skew)
    PROVE  Sane(MomentOf(line, cmd, clock))
  <1>0. cmd.at \in Nat
    BY ReportIsNat
  <1> USE ConstantsAssumption DEF NoTime, Sane
  <1>1. Sane(clock)
    BY DEF TypeOK
  <1>2. Sane(ResolvePurchasedAt(cmd.at, clock))
    BY <1>0, <1>1 DEF ResolvePurchasedAt, TypeOK
  <1>3. CASE line.bought /\ line.at # NoTime /\ cmd.at = NoTime
    <2>1. MomentOf(line, cmd, clock) = line.at
      BY <1>3 DEF MomentOf
    <2> QED
      BY <1>3, <2>1
  <1>4. CASE ~(line.bought /\ line.at # NoTime /\ cmd.at = NoTime)
    <2>1. MomentOf(line, cmd, clock) = ResolvePurchasedAt(cmd.at, clock)
      BY <1>4 DEF MomentOf
    <2> QED
      BY <1>2, <2>1
  <1> QED
    BY <1>3, <1>4

\* An update leaves a line with a moment exactly while it is bought.
LEMMA UpdateKeepsLineSane ==
    ASSUME NEW line \in Line, NEW cmd \in Commands, NEW moment,
           cmd.buy = "yes" => Sane(moment),
           line.bought <=> line.at # NoTime,
           line.bought => Sane(line.at),
           NEW new, new = Updated(line, cmd, moment)
    PROVE  /\ new.bought <=> new.at # NoTime
           /\ new.bought => Sane(new.at)
  <1>1. CASE cmd.buy = "yes"
    BY <1>1 DEF Updated, Sane
  <1>2. CASE cmd.buy = "no"
    BY <1>2 DEF Updated
  <1>3. CASE cmd.buy = "keep"
    BY <1>3 DEF Updated
  <1> QED
    BY <1>1, <1>2, <1>3 DEF Commands

\* A line written while the trip is open stays sane, and no replay has been
\* acknowledged yet.
LEMMA WriteKeepsLineInv ==
    ASSUME TypeOK, LineInv, NEW w \in Writers, UpdateItemWhileOpen(w)
    PROVE  LineInv'
  <1> DEFINE cmd == writer[w].cmd
             i == cmd.item
             new == Updated(items[i], cmd, writer[w].moment)
  <1>1. /\ writer[w].pc = "write"
        /\ cmd \in Commands
        /\ i \in Items
        /\ UNCHANGED <<status, clock>>
    BY DEF UpdateItemWhileOpen, TypeOK, Commands
  <1>2. Sane(writer[w].moment)
    BY <1>1 DEF LineInv, PendingMomentsAreSane
  <1>3. CASE IsOpen(status)
    <2>1. items' = [items EXCEPT ![i] = new] /\ writer' = [writer EXCEPT ![w] = Resting]
      BY <1>3 DEF UpdateItemWhileOpen
    <2>2. /\ items[i] \in Line
          /\ items[i].bought <=> items[i].at # NoTime
          /\ items[i].bought => Sane(items[i].at)
      BY <1>1 DEF TypeOK, LineInv, MomentsAreSane, Sane
    <2>3. /\ new.bought <=> new.at # NoTime
          /\ new.bought => Sane(new.at)
      BY <1>1, <1>2, <2>2, UpdateKeepsLineSane
    <2>4. items'[i] = new /\ \A j \in Items \ {i} : items'[j] = items[j]
      BY <1>1, <2>1 DEF TypeOK
    <2>5. MomentsAreSane'
      BY <1>1, <2>3, <2>4 DEF LineInv, MomentsAreSane, Sane
    <2>6. PendingMomentsAreSane'
      BY <1>1, <2>1 DEF LineInv, PendingMomentsAreSane, Resting, Sane
    <2>7. \A v \in Writers : writer'[v].pc \notin {"replayed", "recheck"}
      <3>1. \A v \in Writers : writer[v].pc \notin {"replayed", "recheck"}
        BY <1>3 DEF LineInv, ReplaysAreTrue, RecheckedWhenClosed
      <3> QED
        BY <2>1, <3>1 DEF Resting
    <2> QED
      BY <2>5, <2>6, <2>7 DEF LineInv, ReplaysAreTrue, RecheckedWhenClosed
  <1>4. CASE ~IsOpen(status)
    <2>1. UNCHANGED items /\ writer' = [writer EXCEPT ![w].pc = "recheck"]
      BY <1>4 DEF UpdateItemWhileOpen
    <2>2. \A v \in Writers : writer'[v].pc \in {"write", "replayed"} => writer'[v] = writer[v]
      BY <2>1 DEF TypeOK
    <2> QED
      BY <1>1, <1>4, <2>1, <2>2
      DEF LineInv, PendingMomentsAreSane, RecheckedWhenClosed, MomentsAreSane,
          ReplaysAreTrue, Sane
  <1> QED
    BY <1>3, <1>4

\* A closed trip stays closed: nothing but a status write moves it.
LEMMA ClosedStaysClosed ==
    ASSUME TypeOK, StatusInv, [Next]_vars, ~IsOpen(status)
    PROVE  status' = status
  <1>1. ASSUME NEW c \in Changers, Apply(c)
        PROVE  status' = status
    <2>1. status # changer[c].seen
      BY <1>1, AllowedFromOpen DEF Apply, StatusInv, DecidedFromOpen, TypeOK
    <2> QED
      BY <1>1, <2>1 DEF Apply
  <1> QED
    BY <1>1
    DEF Next, ChangerStep, WriterStep, RequestChange, Decide, PublishCompleted, Die,
        RequestWrite, LoadLine, UpdateItemWhileOpen, Recheck, Leave, Tick, vars

LEMMA LineStep == TypeOK /\ StatusInv /\ LineInv /\ [Next]_vars => LineInv'
  <1> SUFFICES ASSUME TypeOK, StatusInv, LineInv, [Next]_vars PROVE LineInv'
    OBVIOUS
  <1> USE DEF LineInv, PendingMomentsAreSane, RecheckedWhenClosed, MomentsAreSane,
              ReplaysAreTrue
  <1>1. ASSUME NEW w \in Writers, NEW cmd \in Commands, RequestWrite(w, cmd)
        PROVE  LineInv'
    <2>1. /\ UNCHANGED <<status, items, clock>>
          /\ writer'[w].pc = "load"
          /\ \A v \in Writers \ {w} : writer'[v] = writer[v]
      BY <1>1 DEF RequestWrite, Resting, TypeOK
    <2> QED
      BY <2>1 DEF Sane
  <1>2. ASSUME NEW w \in Writers, LoadLine(w)
        PROVE  LineInv'
    <2> DEFINE moment == MomentOf(items[writer[w].cmd.item], writer[w].cmd, clock)
    <2>1. /\ UNCHANGED <<status, items, clock>>
          /\ \A v \in Writers \ {w} : writer'[v] = writer[v]
          /\ writer'[w].pc # "replayed"
          /\ writer'[w].pc = "recheck" => ~IsOpen(status)
          /\ writer'[w].pc = "write" => writer'[w].moment = moment
      BY <1>2 DEF LoadLine, TypeOK
    <2>2. Sane(moment)
      <3>1. writer[w].cmd \in Commands /\ writer[w].cmd.item \in Items
        BY DEF TypeOK, Commands
      <3> QED
        BY <3>1, MomentIsSane DEF TypeOK
    <2> QED
      BY <2>1, <2>2 DEF Sane
  <1>3. ASSUME NEW w \in Writers, UpdateItemWhileOpen(w)
        PROVE  LineInv'
    BY <1>3, WriteKeepsLineInv
  <1>4. ASSUME NEW w \in Writers, Recheck(w)
        PROVE  LineInv'
    <2> DEFINE cmd == writer[w].cmd
    <2>1. UNCHANGED <<status, items, clock>>
      BY <1>4 DEF Recheck
    <2>2. \A v \in Writers \ {w} : writer'[v] = writer[v]
      BY <1>4 DEF Recheck, TypeOK
    <2>3. /\ writer'[w].pc \notin {"write", "recheck"}
          /\ writer'[w].pc = "replayed" =>
                ChangesNothing(items[cmd.item], cmd) /\ writer'[w].cmd = cmd
      BY <1>4 DEF Recheck, Resting, TypeOK
    <2>4. ~IsOpen(status)
      BY <1>4 DEF Recheck
    <2> QED
      BY <2>1, <2>2, <2>3, <2>4 DEF Sane
  <1>5. ASSUME NEW w \in Writers, Leave(w)
        PROVE  LineInv'
    <2>1. /\ UNCHANGED <<status, items, clock>>
          /\ writer'[w].pc = "idle"
          /\ \A v \in Writers \ {w} : writer'[v] = writer[v]
      BY <1>5 DEF Leave, Resting, TypeOK
    <2> QED
      BY <2>1 DEF Sane
  <1>6. ASSUME Tick
        PROVE  LineInv'
    <2>1. /\ UNCHANGED <<status, items, writer>>
          /\ clock' = clock + 1
      BY <1>6 DEF Tick
    <2>2. \A m : Sane(m) => m # NoTime /\ m \in StartedAt .. (clock' + Skew)
      BY <2>1, ConstantsAssumption DEF Sane, TypeOK, NoTime
    <2>3. MomentsAreSane'
      BY <2>1, <2>2 DEF Sane
    <2>4. PendingMomentsAreSane'
      BY <2>1, <2>2, ConstantsAssumption DEF Sane, TypeOK, NoTime
    <2> QED
      BY <2>1, <2>3, <2>4
  <1>7. ASSUME UNCHANGED <<items, writer, clock>>
        PROVE  LineInv'
    BY <1>7, ClosedStaysClosed DEF Sane
  <1> QED
    BY <1>1, <1>2, <1>3, <1>4, <1>5, <1>6, <1>7
    DEF Next, ChangerStep, WriterStep, RequestChange, Decide, Apply, PublishCompleted, Die, vars

LEMMA LineAlways == Spec => []LineInv
  <1>1. Init => LineInv
    BY ConstantsAssumption
    DEF Init, LineInv, PendingMomentsAreSane, RecheckedWhenClosed, MomentsAreSane,
        ReplaysAreTrue, Resting, NoTime
  <1> QED
    BY <1>1, LineStep, TripKeepsTypes, StatusAlways, PTL DEF Spec

\* A line has a moment of purchase exactly while it is bought, within the trip
\* and the clock tolerance, although it was computed from a read that may be
\* stale by the time it is written.
THEOREM MomentsSane == Spec => []MomentsAreSane
  BY LineAlways, PTL DEF LineInv

\* A write acknowledged as a replay asked for what the closed trip holds, and
\* no write changes the trip between the re-read and the answer.
THEOREM ReplaysTrue == Spec => []ReplaysAreTrue
  BY LineAlways, PTL DEF LineInv

-----------------------------------------------------------------------------
(***************************************************************************)
(* The trip implements its promise.                                        *)
(***************************************************************************)
LEMMA PromiseInit == Init => Promise!Init
  BY DEF Init, Promise!Init, Line, NoTime

LEMMA PromiseStep ==
    TypeOK /\ TypeOK' /\ StatusInv /\ [Next]_vars => [Promise!Next]_(Promise!vars)
  <1> SUFFICES ASSUME TypeOK, TypeOK', StatusInv, [Next]_vars
               PROVE  Promise!Next \/ UNCHANGED Promise!vars
    OBVIOUS
  <1>1. ASSUME NEW c \in Changers, Apply(c)
        PROVE  Promise!Next \/ UNCHANGED Promise!vars
    <2>1. CASE status = changer[c].seen
      <3>1. IsOpen(status) /\ status \in AllowedFrom[changer[c].verb]
        BY <1>1, <2>1, AllowedFromOpen DEF Apply, StatusInv, DecidedFromOpen, TypeOK
      <3>2. status' = Target[changer[c].verb]
        BY <1>1, <2>1 DEF Apply
      <3>3. status' \in {"ACTIVE", "PAUSED", "COMPLETED", "ABANDONED"} \ {status}
        BY <3>1, <3>2 DEF Target, AllowedFrom, Verbs, TypeOK
      <3>4. Promise!Move
        BY <1>1, <3>1, <3>3 DEF Apply, Promise!Move, Promise!IsOpen, IsOpen
      <3> QED
        BY <3>4 DEF Promise!Next
    <2>2. CASE status # changer[c].seen
      BY <1>1, <2>2 DEF Apply, Promise!vars
    <2> QED
      BY <2>1, <2>2
  <1>2. ASSUME NEW c \in Changers, PublishCompleted(c)
        PROVE  Promise!Next \/ UNCHANGED Promise!vars
    <2>1. /\ status = "COMPLETED"
          /\ published = << >>
          /\ changer[c].purchases = PurchasesOf(items)
          /\ published' = Append(published, changer[c].purchases)
          /\ UNCHANGED <<status, items>>
      BY <1>2 DEF PublishCompleted, StatusInv, CompletionIsFinal
    <2>2. Append(<< >>, changer[c].purchases) = <<changer[c].purchases>>
      OBVIOUS
    <2>3. PurchasesOf(items) = Promise!PurchasesOf(items)
      BY DEF PurchasesOf, Promise!PurchasesOf
    <2>4. Promise!Announce
      BY <2>1, <2>2, <2>3 DEF Promise!Announce
    <2> QED
      BY <2>4 DEF Promise!Next
  <1>3. ASSUME NEW w \in Writers, UpdateItemWhileOpen(w)
        PROVE  Promise!Next \/ UNCHANGED Promise!vars
    <2>1. CASE IsOpen(status)
      <3>1. Promise!Shop
        BY <1>3, <2>1 DEF UpdateItemWhileOpen, TypeOK, Promise!Shop, Promise!IsOpen, IsOpen
      <3> QED
        BY <3>1 DEF Promise!Next
    <2>2. CASE ~IsOpen(status)
      BY <1>3, <2>2 DEF UpdateItemWhileOpen, Promise!vars
    <2> QED
      BY <2>1, <2>2
  <1>4. ASSUME UNCHANGED <<status, items, published>>
        PROVE  Promise!Next \/ UNCHANGED Promise!vars
    BY <1>4 DEF Promise!vars
  <1> QED
    BY <1>1, <1>2, <1>3, <1>4
    DEF Next, ChangerStep, WriterStep, RequestChange, Decide, Die, RequestWrite, LoadLine,
        Recheck, Leave, Tick, vars

\* However many requests race, retry or die, the trip behaves as TripPromise
\* says: what TLC checks for two requests holds for any number of them.
THEOREM TripKeepsPromise == Spec => KeepsPromise
  BY PromiseInit, PromiseStep, TripKeepsTypes, StatusAlways, PTL
  DEF Spec, KeepsPromise, Promise!Spec

-----------------------------------------------------------------------------
(***************************************************************************)
(* The three together, as they are checked: whichever of them moves.       *)
(***************************************************************************)
\* What the three do together is what each does alone: a step of one leaves the
\* state of the others.
THEOREM ExecutionsAreTheirParts == ExecutionsSpec => ImportSpec /\ DeliverySpec /\ Spec
  <1>1. ExecutionsInit => ImportInit /\ DeliveryInit /\ Init
    BY DEF ExecutionsInit
  <1>2. [ExecutionsNext]_all => [ImportNext]_importVars /\ [DeliveryNext]_deliveryVars /\ [Next]_vars
    BY DEF ExecutionsNext, all
  <1>3. QED
    BY <1>1, <1>2, PTL DEF ExecutionsSpec, ImportSpec, DeliverySpec, Spec

\* Whatever moves keeps its types, and nothing else is touched.
THEOREM ExecutionsKeepTypes == ExecutionsSpec => []ExecutionsTypeOK
  <1>1. ImportTypeOK /\ DeliveryTypeOK => ExecutionsTypeOK
    BY DEF ExecutionsTypeOK
  <1>2. QED
    BY <1>1, ExecutionsAreTheirParts, ImportsKeepTypes, DeliveriesKeepTypes, PTL

\* Whichever of imports, deliveries and trips moves: one runner at most has a
\* day's run, runs tell the truth and leave the operator's decisions, no channel
\* goes against consent or over its attempts, and a purchase's moment is sane.
THEOREM ExecutionsAreSafe ==
    ExecutionsSpec => [](/\ OneRunnerPerRun /\ RunsTellTheTruth /\ DecisionsOutlastImports
                         /\ ConsentHolds /\ CopiesAreBounded /\ MomentsAreSane)
  BY ExecutionsAreTheirParts, OneRunner, RecordsAreTrue, DecisionsLast, ConsentIsKept,
     CopiesStayBounded, MomentsSane, PTL
=============================================================================
