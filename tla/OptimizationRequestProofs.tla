----------------------- MODULE OptimizationRequestProofs -----------------------
(***************************************************************************)
(* Proofs about OptimizationRequest, for any number of requests, askers,   *)
(* workers, attempts and faults.                                           *)
(***************************************************************************)
EXTENDS OptimizationRequest, CommonProofs

\* Between a claim and its announcement, or its being given back.
Engaged(w) == Holds(w) \/ worker[w].pc \in {"release", "publish"}

RunsOn(w, r) == worker[w].pc # "idle" /\ worker[w].req = r

SoundJobs == \A r \in Requests : SoundJob(job[r])

\* A claim belongs to one run, and what it announces has never been announced.
Claims ==
    \A w \in Workers : Engaged(w) =>
        /\ row[worker[w].req].status \notin {"absent", "PENDING"}
        /\ announced[worker[w].req] = 0
        /\ \A v \in Workers : Engaged(v) /\ worker[v].req = worker[w].req => v = w

\* What is completed or announced was computed from some contents.
Answers ==
    /\ \A w \in Workers :
         /\ worker[w].pc = "complete" => worker[w].seen # NoContents
         /\ worker[w].pc = "publish" => row[worker[w].req].answer # NoContents
    /\ \A r \in Requests :
         /\ announced[r] <= 1
         /\ announced[r] = 1 => row[r].answer # NoContents
         /\ row[r].status \in {"absent", "PENDING"} => announced[r] = 0

\* A request is queued once, after its row is there.
Unqueued(r) == job[r].state = "none" /\ \A w \in Workers : ~RunsOn(w, r)

Queueing ==
    /\ \A r \in Requests : row[r].status = "absent" => Unqueued(r)
    /\ \A a \in Askers : asker[a].pc = "enqueue" =>
         /\ row[asker[a].req].status \in {"PENDING", "deleted"}
         /\ Unqueued(asker[a].req)
         /\ \A b \in Askers : asker[b].pc = "enqueue" /\ asker[b].req = asker[a].req => a = b

\* Short of a fault outside the computation, the run of a request is the one
\* that holds its job, knows whether it is the last, and finds the row as it
\* left it.
Expected(w) ==
    CASE worker[w].pc \in {"read", "claim", "giveUp"} -> {"PENDING"}
      [] worker[w].pc \in {"list", "fail", "complete", "release"} -> {"RUNNING"}
      [] worker[w].pc = "throw" /\ ~worker[w].last -> {"PENDING"}
      [] OTHER -> {"PENDING", "RUNNING", "COMPLETED", "FAILED"}

Undisturbed(r) ==
    /\ job[r].state = "active" => \E w \in Workers : RunsOn(w, r)
    /\ job[r].state = "waiting" => row[r].status \in {"PENDING", "deleted"}
    /\ \A w \in Workers : RunsOn(w, r) =>
         /\ job[r].holder = w
         /\ worker[w].last = (job[r].tries + 1 >= Attempts)
         /\ worker[w].pc = "giveUp" => worker[w].last
         /\ row[r].status \in Expected(w) \cup {"deleted"}

Quiet == \A r \in Requests \ struck : Undisturbed(r)

\* The inductive invariant behind ClaimIsExclusive, AnnouncedOnce and
\* FinishedIsFinal.
Custody == TypeOK /\ SoundJobs /\ Claims /\ Answers /\ Queueing /\ Quiet

-----------------------------------------------------------------------------
(***************************************************************************)
(* Type correctness.                                                       *)
(***************************************************************************)
AskerType == [pc : {"idle", "find", "create", "enqueue", "reused"},
              contents : Contents \cup {NoContents}, req : Requests]

WorkerType == [pc : {"idle", "read", "claim", "list", "fail", "complete", "publish",
                     "return", "release", "giveUp", "throw"},
               req : Requests, seen : Contents \cup {NoContents}, last : BOOLEAN]

RowType == [status : {"absent", "PENDING", "RUNNING", "COMPLETED", "FAILED", "deleted"},
            asked : Contents \cup {NoContents}, answer : Contents \cup {NoContents},
            fresh : BOOLEAN]

LEMMA RestIsTyped == AtRest \in AskerType /\ Resting \in WorkerType
  BY OptimizationAssumption DEF AtRest, Resting, AnyRequest, AskerType, WorkerType

LEMMA TypeInit == Init => TypeOK /\ SoundJobs
  <1> SUFFICES ASSUME Init PROVE TypeOK /\ SoundJobs
    OBVIOUS
  <1>1. SoundJob(NoJob)
    BY JobAssumption DEF SoundJob, NoJob, Job, MaxStalls
  <1>2. SoundJobs /\ job \in [Requests -> Job]
    BY <1>1 DEF Init, SoundJobs, SoundJob
  <1> QED
    BY <1>2, RestIsTyped, OptimizationAssumption DEF Init, TypeOK, Row, AskerType, WorkerType

\* The list, the requests in flight, the announcements and the faults.
LEMMA AroundStep ==
    ASSUME TypeOK, Next
    PROVE  /\ list' \in Contents \cup {NoContents}
           /\ asker' \in [Askers -> AskerType]
           /\ announced' \in [Requests -> Nat]
           /\ struck' \subseteq Requests
           /\ faults' \in 0 .. MaxFaults
  <1> USE DEF TypeOK
  <1>0. asker \in [Askers -> AskerType] /\ worker \in [Workers -> WorkerType]
    BY DEF AskerType, WorkerType
  <1>1. ASSUME Spend PROVE faults' \in 0 .. MaxFaults
    BY <1>1, OptimizationAssumption DEF Spend
  <1>2. CASE \/ \E contents \in Contents : EditList(contents)
             \/ DeleteList \/ EraseAccount
    BY <1>0, <1>2 DEF EditList, DeleteList, EraseAccount
  <1>3. ASSUME NEW a \in Askers, Ask(a) \/ AskerStep(a) \/ AskerDies(a)
        PROVE  /\ asker' \in [Askers -> AskerType]
               /\ UNCHANGED <<list, announced>>
               /\ struck' \subseteq Requests /\ faults' \in 0 .. MaxFaults
    <2>1. CASE Ask(a)
      <3>1. [AtRest EXCEPT !.pc = "find", !.contents = list] \in AskerType
        BY RestIsTyped DEF AskerType
      <3> QED
        BY <1>0, <2>1, <3>1 DEF Ask
    <2>2. CASE FindReusable(a) \/ Create(a)
      <3>1. ASSUME NEW pc \in {"reused", "enqueue"}, NEW r \in Requests,
                   asker' = [asker EXCEPT ![a].pc = pc, ![a].req = r]
            PROVE  asker' \in [Askers -> AskerType]
        <4>1. PICK it : it = [asker[a] EXCEPT !.pc = pc, !.req = r]
          OBVIOUS
        <4>2. it \in AskerType
          <5>1. asker[a] \in AskerType
            BY <1>0
          <5> QED
            BY <4>1, <5>1 DEF AskerType
        <4>3. asker' = [asker EXCEPT ![a] = it]
          BY <1>0, <3>1, <4>1 DEF AskerType
        <4> QED
          BY <1>0, <4>2, <4>3
      <3>2. ASSUME asker' = [asker EXCEPT ![a].pc = "create"]
            PROVE  asker' \in [Askers -> AskerType]
        BY <1>0, <3>2 DEF AskerType
      <3>3. ASSUME asker' = [asker EXCEPT ![a] = AtRest]
            PROVE  asker' \in [Askers -> AskerType]
        BY <1>0, <3>3, RestIsTyped
      <3>4. Reusable(asker[a].contents) \subseteq Requests
        BY DEF Reusable
      <3> QED
        BY <2>2, <3>1, <3>2, <3>3, <3>4 DEF FindReusable, Create
    <2>3. CASE Enqueue(a) \/ Leave(a)
      BY <1>0, <2>3, RestIsTyped DEF Enqueue, Leave
    <2>4. CASE AskerDies(a)
      BY <1>0, <1>1, <2>4, RestIsTyped DEF AskerDies, AskerType
    <2> QED
      BY <1>3, <2>1, <2>2, <2>3, <2>4 DEF AskerStep
  <1>4. ASSUME NEW w \in Workers, NEW r \in Requests, Take(w, r)
        PROVE  UNCHANGED <<list, asker, announced, struck, faults>>
    BY <1>4 DEF Take
  <1>5. ASSUME NEW w \in Workers, WorkerStep(w)
        PROVE  UNCHANGED <<list, asker, struck, faults>> /\ announced' \in [Requests -> Nat]
    <2>1. CASE Publish(w)
      BY <1>0, <2>1 DEF Publish, WorkerType
    <2>2. CASE ~Publish(w)
      BY <1>5, <2>2
      DEF WorkerStep, ReadRequest, Claim, Compute, CompleteRequest, FailRequest, FinishJob,
          Release, GiveUp, ThrowJob
    <2> QED
      BY <2>1, <2>2
  <1>6. ASSUME NEW w \in Workers, WorkerFault(w)
        PROVE  /\ UNCHANGED <<list, asker, announced>>
               /\ struck' \subseteq Requests /\ faults' \in 0 .. MaxFaults
    <2>1. worker[w].req \in Requests
      BY <1>0 DEF WorkerType
    <2> QED
      BY <1>1, <1>6, <2>1
      DEF WorkerFault, Break, BreakAfterCommit, BookkeepingFails, Die, Strike
  <1>7. ASSUME NEW r \in Requests,
               FindStalled(r) \/ LoseLock(r) \/ ReleaseFailed(r) \/ GoStale(r) \/ Prune(r)
        PROVE  /\ UNCHANGED <<list, asker, announced>>
               /\ struck' \subseteq Requests /\ faults' \in 0 .. MaxFaults
    BY <1>1, <1>7 DEF FindStalled, LoseLock, ReleaseFailed, GoStale, Prune
  <1> QED
    BY <1>0, <1>2, <1>3, <1>4, <1>5, <1>6, <1>7 DEF Next

\* The executions, whose seen contents are some when they complete.
LEMMA WorkersStep ==
    ASSUME TypeOK, Next
    PROVE  worker' \in [Workers -> WorkerType]
  <1> USE DEF TypeOK
  <1>0. worker \in [Workers -> WorkerType]
    BY DEF WorkerType
  <1>1. ASSUME NEW w \in Workers,
               NEW pc \in {"claim", "list", "fail", "complete", "publish", "return", "release",
                           "giveUp", "throw"},
               Go(w, pc)
        PROVE  worker' \in [Workers -> WorkerType]
    BY <1>0, <1>1 DEF Go, WorkerType
  <1>2. CASE \/ \E contents \in Contents : EditList(contents)
             \/ DeleteList \/ EraseAccount
             \/ \E a \in Askers : Ask(a) \/ AskerStep(a) \/ AskerDies(a)
             \/ \E r \in Requests :
                  FindStalled(r) \/ LoseLock(r) \/ ReleaseFailed(r) \/ GoStale(r) \/ Prune(r)
    <2>1. UNCHANGED worker
      BY <1>2
      DEF EditList, DeleteList, EraseAccount, Ask, AskerStep, FindReusable, Create, Enqueue,
          Leave, AskerDies, FindStalled, LoseLock, ReleaseFailed, GoStale, Prune
    <2> QED
      BY <1>0, <2>1
  <1>3. ASSUME NEW w \in Workers, NEW r \in Requests, Take(w, r)
        PROVE  worker' \in [Workers -> WorkerType]
    BY <1>0, <1>3 DEF Take, WorkerType
  <1>4. ASSUME NEW w \in Workers, WorkerStep(w)
        PROVE  worker' \in [Workers -> WorkerType]
    <2>1. CASE Compute(w)
      <3>1. PICK pc \in {"fail", "complete"} :
              worker' = [worker EXCEPT ![w].pc = pc, ![w].seen = list]
        BY <2>1 DEF Compute
      <3>2. PICK it : it = [worker[w] EXCEPT !.pc = pc, !.seen = list]
        OBVIOUS
      <3>3. it \in WorkerType
        BY <1>0, <3>2, ZenonT(60) DEF WorkerType
      <3> QED
        BY <1>0, <3>1, <3>2, <3>3
    <2>2. CASE FinishJob(w) \/ ThrowJob(w)
      BY <1>0, <2>2, RestIsTyped DEF FinishJob, ThrowJob
    <2>3. CASE ReadRequest(w) \/ Claim(w) \/ CompleteRequest(w) \/ FailRequest(w) \/ Publish(w)
      BY <1>1, <2>3 DEF ReadRequest, Claim, CompleteRequest, FailRequest, Publish
    <2>4. CASE Release(w) \/ GiveUp(w)
      BY <1>1, <2>4 DEF Release, GiveUp, Caught
    <2> QED
      BY <1>4, <2>1, <2>2, <2>3, <2>4 DEF WorkerStep
  <1>5. ASSUME NEW w \in Workers, WorkerFault(w)
        PROVE  worker' \in [Workers -> WorkerType]
    <2>1. CASE Die(w)
      BY <1>0, <2>1, RestIsTyped DEF Die
    <2>2. CASE Break(w) \/ BreakAfterCommit(w) \/ BookkeepingFails(w)
      BY <1>1, <2>2 DEF Break, BreakAfterCommit, BookkeepingFails, Caught
    <2> QED
      BY <1>5, <2>1, <2>2 DEF WorkerFault
  <1> QED
    BY <1>2, <1>3, <1>4, <1>5 DEF Next

\* The queue.
LEMMA JobsStep ==
    ASSUME TypeOK, SoundJobs, Next
    PROVE  job' \in [Requests -> Job] /\ SoundJobs'
  <1> USE DEF TypeOK
  <1>0. worker \in [Workers -> WorkerType] /\ asker \in [Askers -> AskerType]
    BY DEF WorkerType, AskerType
  <1>1. ASSUME NEW r \in Requests, NEW j, SoundJob(j), job' = [job EXCEPT ![r] = j]
        PROVE  job' \in [Requests -> Job] /\ SoundJobs'
    BY <1>1 DEF SoundJobs, SoundJob
  <1>2. CASE UNCHANGED job
    BY <1>2 DEF SoundJobs
  <1>3. CASE \/ \E contents \in Contents : EditList(contents)
             \/ DeleteList \/ EraseAccount
    BY <1>2, <1>3 DEF EditList, DeleteList, EraseAccount
  <1>4. ASSUME NEW a \in Askers, Ask(a) \/ AskerStep(a) \/ AskerDies(a)
        PROVE  job' \in [Requests -> Job] /\ SoundJobs'
    <2>1. CASE Enqueue(a)
      <3>1. asker[a].req \in Requests
        BY <1>0 DEF AskerType
      <3>2. SoundJob(Added(job[asker[a].req]))
        BY <3>1, JobOperations DEF SoundJobs
      <3> QED
        BY <1>1, <2>1, <3>1, <3>2 DEF Enqueue
    <2>2. CASE ~Enqueue(a)
      BY <1>2, <1>4, <2>2 DEF Ask, AskerStep, FindReusable, Create, Leave, AskerDies
    <2> QED
      BY <2>1, <2>2
  <1>5. ASSUME NEW w \in Workers, NEW r \in Requests, Take(w, r)
        PROVE  job' \in [Requests -> Job] /\ SoundJobs'
    <2>1. SoundJob(Taken(job[r], w))
      BY <1>5, JobOperations DEF SoundJobs, Take
    <2> QED
      BY <1>1, <1>5, <2>1 DEF Take
  <1>6. ASSUME NEW w \in Workers, WorkerStep(w) \/ WorkerFault(w)
        PROVE  job' \in [Requests -> Job] /\ SoundJobs'
    <2>1. worker[w].req \in Requests
      BY <1>0 DEF WorkerType
    <2>2. SoundJob(Done(job[worker[w].req], w)) /\ SoundJob(Threw(job[worker[w].req], w))
      BY <2>1, JobOperations DEF SoundJobs
    <2>3. CASE FinishJob(w) \/ ThrowJob(w)
      BY <1>1, <2>1, <2>2, <2>3 DEF FinishJob, ThrowJob
    <2>4. CASE ~(FinishJob(w) \/ ThrowJob(w))
      BY <1>2, <1>6, <2>4
      DEF WorkerStep, ReadRequest, Claim, Compute, CompleteRequest, FailRequest, Publish,
          Release, GiveUp, WorkerFault, Break, BreakAfterCommit, BookkeepingFails, Die
    <2> QED
      BY <2>3, <2>4
  <1>7. ASSUME NEW r \in Requests,
               FindStalled(r) \/ LoseLock(r) \/ ReleaseFailed(r) \/ GoStale(r) \/ Prune(r)
        PROVE  job' \in [Requests -> Job] /\ SoundJobs'
    <2>1. job[r].state = "active" => SoundJob(Stalled(job[r]))
      BY JobOperations DEF SoundJobs
    <2>2. SoundJob(NoJob)
      BY JobOperations DEF SoundJobs
    <2> QED
      BY <1>1, <1>2, <1>7, <2>1, <2>2 DEF FindStalled, LoseLock, ReleaseFailed, GoStale, Prune
  <1> QED
    BY <1>3, <1>4, <1>5, <1>6, <1>7 DEF Next

\* The rows: a completed one has an answer.
LEMMA RowsStep ==
    ASSUME TypeOK, Answers, Next
    PROVE  row' \in [Requests -> Row]
  <1> USE DEF TypeOK
  <1>11. \A it :
          /\ it \in Row => it \in RowType
          /\ it \in RowType /\ (it.status = "COMPLETED" => it.answer # NoContents) => it \in Row
    BY DEF Row, RowType
  <1>0. worker \in [Workers -> WorkerType] /\ asker \in [Askers -> AskerType]
    BY DEF WorkerType, AskerType
  <1>1. ASSUME NEW r \in Requests, NEW it \in Row, row' = [row EXCEPT ![r] = it]
        PROVE  row' \in [Requests -> Row]
    BY <1>1
  <1>2. CASE UNCHANGED row
    BY <1>2
  <1>3. ASSUME NEW r \in Requests, NEW status \in {"PENDING", "RUNNING", "FAILED", "deleted"},
               row' = [row EXCEPT ![r].status = status]
        PROVE  row' \in [Requests -> Row]
    <2>1. row[r] \in RowType
      BY <1>11
    <2>2. PICK it : it = [row[r] EXCEPT !.status = status]
      OBVIOUS
    <2>3. it \in RowType /\ it.status # "COMPLETED"
      BY <2>1, <2>2 DEF RowType
    <2> QED
      BY <1>1, <1>3, <1>11, <2>2, <2>3
  <1>4. CASE \/ \E contents \in Contents : EditList(contents)
             \/ DeleteList
    BY <1>2, <1>4 DEF EditList, DeleteList
  <1>5. CASE EraseAccount
    <2>1. ASSUME NEW r \in Requests
          PROVE  [row[r] EXCEPT !.status = "deleted"] \in Row
      <3>1. row[r] \in RowType
        BY <1>11
      <3>2. PICK it : it = [row[r] EXCEPT !.status = "deleted"]
        OBVIOUS
      <3>3. it \in RowType /\ it.status # "COMPLETED"
        BY <3>1, <3>2 DEF RowType
      <3> QED
        BY <1>11, <3>2, <3>3
    <2> QED
      BY <1>5, <2>1 DEF EraseAccount
  <1>6. ASSUME NEW a \in Askers, Ask(a) \/ AskerStep(a) \/ AskerDies(a)
        PROVE  row' \in [Requests -> Row]
    <2>1. CASE Create(a)
      <3>1. ASSUME NEW r \in Requests,
                   row' = [row EXCEPT ![r].status = "PENDING", ![r].asked = asker[a].contents]
            PROVE  row' \in [Requests -> Row]
        <4>1. row[r] \in RowType /\ asker[a].contents \in Contents \cup {NoContents}
          BY <1>0, <1>11 DEF AskerType
        <4>2. PICK it : it = [row[r] EXCEPT !.status = "PENDING", !.asked = asker[a].contents]
          OBVIOUS
        <4>3. it \in RowType /\ it.status # "COMPLETED"
          BY <4>1, <4>2 DEF RowType
        <4> QED
          BY <1>1, <1>11, <3>1, <4>2, <4>3
      <3> QED
        BY <1>2, <2>1, <3>1 DEF Create
    <2>2. CASE ~Create(a)
      BY <1>2, <1>6, <2>2 DEF Ask, AskerStep, FindReusable, Enqueue, Leave, AskerDies
    <2> QED
      BY <2>1, <2>2
  <1>7. ASSUME NEW w \in Workers,
               row' = [row EXCEPT ![worker[w].req].status = "COMPLETED",
                                  ![worker[w].req].answer = worker[w].seen,
                                  ![worker[w].req].fresh = TRUE],
               worker[w].pc = "complete"
        PROVE  row' \in [Requests -> Row]
    <2>1. /\ worker[w].req \in Requests /\ worker[w].seen \in Contents /\ row[worker[w].req] \in RowType
      BY <1>0, <1>7, <1>11 DEF WorkerType, Answers
    <2>2. PICK it : it = [row[worker[w].req] EXCEPT !.status = "COMPLETED",
                            !.answer = worker[w].seen, !.fresh = TRUE]
      OBVIOUS
    <2>3. it \in RowType /\ it.answer # NoContents
      BY <2>1, <2>2, OptimizationAssumption DEF RowType
    <2> QED
      BY <1>1, <1>7, <1>11, <2>1, <2>2, <2>3
  <1>8. ASSUME NEW w \in Workers, WorkerStep(w) \/ WorkerFault(w)
        PROVE  row' \in [Requests -> Row]
    <2>1. worker[w].req \in Requests
      BY <1>0 DEF WorkerType
    <2>2. CASE CompleteRequest(w) \/ BreakAfterCommit(w)
      BY <1>2, <1>7, <2>2 DEF CompleteRequest, BreakAfterCommit
    <2>3. CASE Claim(w) \/ FailRequest(w) \/ Release(w) \/ GiveUp(w) \/ BookkeepingFails(w)
      BY <1>2, <1>3, <2>1, <2>3 DEF Claim, FailRequest, Release, GiveUp, BookkeepingFails
    <2>4. CASE \/ ReadRequest(w) \/ Compute(w) \/ Publish(w) \/ FinishJob(w) \/ ThrowJob(w)
               \/ Break(w) \/ Die(w)
      BY <1>2, <2>4 DEF ReadRequest, Compute, Publish, FinishJob, ThrowJob, Break, Die
    <2> QED
      BY <1>8, <2>2, <2>3, <2>4 DEF WorkerStep, WorkerFault
  <1>9. ASSUME NEW r \in Requests,
               FindStalled(r) \/ LoseLock(r) \/ ReleaseFailed(r) \/ GoStale(r) \/ Prune(r)
        PROVE  row' \in [Requests -> Row]
    <2>1. CASE GoStale(r)
      <3>1. row[r] \in RowType /\ row[r].answer # NoContents
        BY <1>11, <2>1 DEF GoStale, Row
      <3>2. PICK it : it = [row[r] EXCEPT !.fresh = FALSE]
        OBVIOUS
      <3>3. it \in RowType /\ it.answer # NoContents
        BY <3>1, <3>2 DEF RowType
      <3> QED
        BY <1>1, <1>11, <2>1, <3>2, <3>3 DEF GoStale
    <2>2. CASE ~GoStale(r)
      BY <1>2, <1>3, <1>9, <2>2 DEF FindStalled, LoseLock, ReleaseFailed, Prune
    <2> QED
      BY <2>1, <2>2
  <1>10. ASSUME NEW w \in Workers, NEW r \in Requests, Take(w, r)
         PROVE  row' \in [Requests -> Row]
    BY <1>2, <1>10 DEF Take
  <1> QED
    BY <1>4, <1>5, <1>6, <1>8, <1>9, <1>10 DEF Next

LEMMA TypeStep ==
    ASSUME TypeOK, SoundJobs, Answers, [Next]_vars
    PROVE  TypeOK' /\ SoundJobs'
  <1>1. CASE Next
    <2>1. worker' \in [Workers -> WorkerType] /\ asker' \in [Askers -> AskerType]
      BY <1>1, AroundStep, WorkersStep
    <2> QED
      BY <1>1, <2>1, AroundStep, JobsStep, RowsStep DEF TypeOK, WorkerType, AskerType
  <1>2. CASE UNCHANGED vars
    BY <1>2 DEF TypeOK, SoundJobs, vars
  <1> QED
    BY <1>1, <1>2

-----------------------------------------------------------------------------
(***************************************************************************)
(* What the writes of a run change.                                        *)
(***************************************************************************)
LEMMA GoMoves ==
    ASSUME TypeOK, NEW w \in Workers, NEW pc, Go(w, pc)
    PROVE  /\ worker'[w].pc = pc /\ worker'[w].req = worker[w].req
           /\ worker'[w].seen = worker[w].seen /\ worker'[w].last = worker[w].last
           /\ \A v \in Workers \ {w} : worker'[v] = worker[v]
  BY DEF TypeOK, Go

LEMMA StatusWritten ==
    ASSUME TypeOK, NEW q \in Requests, NEW status, row' = [row EXCEPT ![q].status = status]
    PROVE  /\ row'[q].status = status /\ row'[q].answer = row[q].answer
           /\ \A r \in Requests \ {q} : row'[r] = row[r]
  <1>1. row[q] \in RowType
    BY DEF TypeOK, Row, RowType
  <1> QED
    BY <1>1 DEF TypeOK, RowType

WritesAnswer(w) ==
    row' = [row EXCEPT ![worker[w].req].status = "COMPLETED",
                       ![worker[w].req].answer = worker[w].seen,
                       ![worker[w].req].fresh = TRUE]

LEMMA AnswerWritten ==
    ASSUME TypeOK, NEW w \in Workers, WritesAnswer(w)
    PROVE  /\ row'[worker[w].req].status = "COMPLETED"
           /\ row'[worker[w].req].answer = worker[w].seen
           /\ \A r \in Requests \ {worker[w].req} : row'[r] = row[r]
  <1>1. worker[w].req \in Requests
    BY DEF TypeOK
  <1>2. row[worker[w].req] \in RowType
    BY <1>1 DEF TypeOK, Row, RowType
  <1> QED
    BY <1>1, <1>2 DEF WritesAnswer, TypeOK, RowType

LEMMA CreationWritten ==
    ASSUME TypeOK, NEW q \in Requests, NEW contents,
           row' = [row EXCEPT ![q].status = "PENDING", ![q].asked = contents]
    PROVE  /\ row'[q].status = "PENDING" /\ row'[q].answer = row[q].answer
           /\ \A r \in Requests \ {q} : row'[r] = row[r]
  <1>1. row[q] \in RowType
    BY DEF TypeOK, Row, RowType
  <1> QED
    BY <1>1 DEF TypeOK, RowType

LEMMA ErasureWritten ==
    ASSUME TypeOK, EraseAccount, NEW r \in Requests
    PROVE  /\ row[r].status = "absent" => row'[r] = row[r]
           /\ row[r].status # "absent" => row'[r].status = "deleted"
           /\ row'[r].answer = row[r].answer
  <1>1. row[r] \in RowType
    BY DEF TypeOK, Row, RowType
  <1> QED
    BY <1>1 DEF EraseAccount, RowType

\* What no row, job or run changes in.
Elsewhere ==
    \/ \E contents \in Contents : EditList(contents)
    \/ DeleteList
    \/ \E a \in Askers : Ask(a) \/ FindReusable(a) \/ Leave(a) \/ AskerDies(a)

\* Every step of Next, by what it does.
LEMMA StepKinds ==
    ASSUME Next
    PROVE  \/ Elsewhere /\ UNCHANGED <<row, job, worker, announced>>
           \/ EraseAccount
           \/ \E a \in Askers : Create(a) \/ Enqueue(a)
           \/ \E w \in Workers, r \in Requests : Take(w, r)
           \/ \E w \in Workers : WorkerStep(w) \/ WorkerFault(w)
           \/ \E r \in Requests : FindStalled(r) \/ LoseLock(r) \/ ReleaseFailed(r)
           \/ \E r \in Requests : GoStale(r) \/ Prune(r)
  BY DEF Next, Elsewhere, AskerStep, EditList, DeleteList, Ask, FindReusable, Leave, AskerDies

-----------------------------------------------------------------------------
(***************************************************************************)
(* Claims.                                                                 *)
(***************************************************************************)
\* A step that lets no run in and moves no row under one.
LEMMA ClaimsKept ==
    ASSUME Claims,
           \A w \in Workers : Engaged(w)' =>
               /\ Engaged(w) /\ worker'[w].req = worker[w].req
               /\ row'[worker[w].req].status \notin {"absent", "PENDING"}
               /\ announced'[worker[w].req] = announced[worker[w].req]
    PROVE  Claims'
  BY DEF Claims

LEMMA ClaimsStep ==
    ASSUME TypeOK, Claims, Answers, Next
    PROVE  Claims'
  <1>0. \A w \in Workers : worker[w].req \in Requests
    BY DEF TypeOK
  <1>1. CASE UNCHANGED <<row, worker, announced>>
    BY <1>1, ClaimsKept DEF Claims, Engaged, Holds
  <1>2. CASE EraseAccount
    <2>1. UNCHANGED <<worker, announced>>
      BY <1>2 DEF EraseAccount
    <2>2. \A r \in Requests : row[r].status \notin {"absent", "PENDING"}
                                => row'[r].status \notin {"absent", "PENDING"}
      BY <1>2, ErasureWritten
    <2> QED
      BY <1>0, <2>1, <2>2, ClaimsKept DEF Claims, Engaged, Holds
  <1>3. ASSUME NEW a \in Askers, Create(a)
        PROVE  Claims'
    <2>1. UNCHANGED <<worker, announced>>
      BY <1>3 DEF Create
    <2>2. CASE UNCHANGED row
      BY <1>1, <2>1, <2>2
    <2>3. ASSUME NEW r \in Requests, row[r].status = "absent",
                 row' = [row EXCEPT ![r].status = "PENDING", ![r].asked = asker[a].contents]
          PROVE  Claims'
      <3>1. \A q \in Requests \ {r} : row'[q] = row[q]
        BY <2>3, CreationWritten
      <3> QED
        BY <1>0, <2>1, <2>3, <3>1, ClaimsKept, ZenonT(60) DEF Claims, Engaged, Holds
    <2> QED
      BY <1>3, <2>2, <2>3 DEF Create
  <1>4. ASSUME NEW w \in Workers, NEW r \in Requests, Take(w, r)
        PROVE  Claims'
    <2>1. worker'[w].pc = "read" /\ \A v \in Workers \ {w} : worker'[v] = worker[v]
      BY <1>4 DEF Take, TypeOK
    <2> QED
      BY <1>4, <2>1, ClaimsKept DEF Take, Claims, Engaged, Holds
  <1>5. ASSUME NEW w \in Workers, WorkerStep(w) \/ WorkerFault(w)
        PROVE  Claims'
    <2> DEFINE q == worker[w].req
    <2>1. CASE FinishJob(w) \/ ThrowJob(w) \/ Die(w)
      <3>1. worker'[w].pc = "idle" /\ \A v \in Workers \ {w} : worker'[v] = worker[v]
        BY <2>1 DEF FinishJob, ThrowJob, Die, Resting, TypeOK
      <3> QED
        BY <2>1, <3>1, ClaimsKept DEF FinishJob, ThrowJob, Die, Claims, Engaged, Holds
    <2>2. CASE ReadRequest(w)
      BY <2>2, GoMoves, ClaimsKept DEF ReadRequest, Claims, Engaged, Holds
    <2>3. CASE Claim(w) \/ (BookkeepingFails(w) /\ worker[w].pc = "claim")
      <3>1. CASE Status(w) = "PENDING" /\ row' = [row EXCEPT ![q].status = "RUNNING"]
        <4>1. \A v \in Workers : ~(Engaged(v) /\ worker[v].req = q)
          BY <3>1 DEF Claims, Status
        <4>2. row'[q].status = "RUNNING" /\ \A r \in Requests \ {q} : row'[r] = row[r]
          BY <1>0, <3>1, StatusWritten
        <4>3. announced[q] = 0 /\ UNCHANGED announced
          BY <1>0, <2>3, <3>1 DEF Answers, Status, Claim, BookkeepingFails
        <4>4. worker'[w].req = q /\ \A v \in Workers \ {w} : worker'[v] = worker[v]
          BY <2>3, GoMoves DEF Claim, BookkeepingFails
        <4> QED
          BY <1>0, <4>1, <4>2, <4>3, <4>4 DEF Claims, Engaged, Holds
      <3>2. CASE Go(w, "return") /\ UNCHANGED <<row, announced>>
        BY <3>2, GoMoves, ClaimsKept DEF Claims, Engaged, Holds
      <3> QED
        BY <2>3, <3>1, <3>2 DEF Claim, BookkeepingFails
    <2>4. CASE Compute(w)
      <3>1. worker'[w].req = q /\ \A v \in Workers \ {w} : worker'[v] = worker[v]
        BY <2>4 DEF Compute, TypeOK
      <3> QED
        BY <2>4, <3>1, ClaimsKept DEF Compute, Claims, Engaged, Holds
    <2>5. CASE CompleteRequest(w) \/ FailRequest(w) \/ BreakAfterCommit(w)
      <3>1. Engaged(w) /\ UNCHANGED announced
        BY <2>5 DEF CompleteRequest, FailRequest, BreakAfterCommit, Engaged, Holds
      <3>2. worker'[w].req = q /\ \A v \in Workers \ {w} : worker'[v] = worker[v]
        BY <2>5, GoMoves DEF CompleteRequest, FailRequest, BreakAfterCommit
      <3>3. /\ row'[q].status \notin {"absent", "PENDING"}
            /\ \A r \in Requests \ {q} : row'[r] = row[r]
        <4>1. row[q].status \notin {"absent", "PENDING"}
          BY <3>1 DEF Claims
        <4>2. CASE UNCHANGED row
          BY <4>1, <4>2
        <4>3. CASE WritesAnswer(w)
          BY <1>0, <4>3, AnswerWritten
        <4>4. CASE \E status \in {"FAILED"} : row' = [row EXCEPT ![q].status = status]
          BY <1>0, <4>4, StatusWritten
        <4> QED
          BY <2>5, <4>2, <4>3, <4>4 DEF CompleteRequest, FailRequest, BreakAfterCommit, WritesAnswer
      <3> QED
        BY <1>0, <3>1, <3>2, <3>3, ClaimsKept DEF Claims, Engaged, Holds
    <2>6. CASE Publish(w)
      <3>1. Engaged(w) /\ UNCHANGED row
        BY <2>6 DEF Publish, Engaged
      <3>2. worker'[w].pc = "return" /\ \A v \in Workers \ {w} : worker'[v] = worker[v]
        BY <2>6, GoMoves DEF Publish
      <3>3. \A r \in Requests \ {q} : announced'[r] = announced[r]
        BY <2>6 DEF Publish, TypeOK
      <3>4. \A v \in Workers : Engaged(v)' => v # w /\ Engaged(v) /\ worker[v].req # q
        BY <3>1, <3>2 DEF Claims, Engaged, Holds
      <3> QED
        BY <1>0, <3>1, <3>2, <3>3, <3>4, ClaimsKept DEF Claims
    <2>7. CASE Release(w) \/ GiveUp(w) \/ (BookkeepingFails(w) /\ worker[w].pc # "claim")
      <3>1. worker'[w].pc \in {"throw", "giveUp"} /\ \A v \in Workers \ {w} : worker'[v] = worker[v]
        BY <2>7, GoMoves DEF Release, GiveUp, BookkeepingFails, Caught
      <3>2. /\ UNCHANGED announced /\ \A r \in Requests \ {q} : row'[r] = row[r]
            /\ row'[q].status \in {row[q].status, "PENDING", "FAILED"}
        BY <1>0, <2>7, StatusWritten DEF Release, GiveUp, BookkeepingFails
      <3>3. row'[q].status = "PENDING" => row[q].status = "PENDING" \/ Engaged(w)
        BY <1>0, <2>7, StatusWritten DEF Release, GiveUp, BookkeepingFails, Engaged
      <3>4. \A v \in Workers : Engaged(v)' => v # w /\ Engaged(v)
        BY <3>1 DEF Engaged, Holds
      <3> QED
        BY <1>0, <3>1, <3>2, <3>3, <3>4, ClaimsKept DEF Claims
    <2>8. CASE Break(w)
      <3>1. PICK pc : Go(w, pc) /\ (pc \in {"release"} => Holds(w)) /\ pc \in {"release", "giveUp", "throw"}
        BY <2>8 DEF Break, Caught, Holds
      <3> QED
        BY <2>8, <3>1, GoMoves, ClaimsKept DEF Break, Claims, Engaged, Holds
    <2> QED
      BY <1>5, <2>1, <2>2, <2>3, <2>4, <2>5, <2>6, <2>7, <2>8 DEF WorkerStep, WorkerFault
  <1>6. ASSUME NEW r \in Requests, FindStalled(r) \/ LoseLock(r) \/ ReleaseFailed(r)
        PROVE  Claims'
    BY <1>1, <1>6 DEF FindStalled, LoseLock, ReleaseFailed
  <1>7. ASSUME NEW r \in Requests, GoStale(r) \/ Prune(r)
        PROVE  Claims'
    <2>1. UNCHANGED <<worker, announced>> /\ \A q \in Requests \ {r} : row'[q] = row[q]
      BY <1>7 DEF GoStale, Prune, TypeOK
    <2>2. row'[r].status \in {"COMPLETED", "deleted"}
      <3>1. row[r] \in RowType
        BY DEF TypeOK, Row, RowType
      <3> QED
        BY <1>7, <3>1, StatusWritten DEF GoStale, Prune, TypeOK, RowType
    <2> QED
      BY <1>0, <2>1, <2>2, ClaimsKept DEF Claims, Engaged, Holds
  <1> QED
    BY <1>1, <1>2, <1>3, <1>4, <1>5, <1>6, <1>7, StepKinds DEF Enqueue

-----------------------------------------------------------------------------
(***************************************************************************)
(* Answers.                                                                *)
(***************************************************************************)
\* A step that announces nothing and takes no answer back.
LEMMA AnswersKept ==
    ASSUME TypeOK, Answers, UNCHANGED announced,
           \A w \in Workers :
               /\ worker'[w].pc = "complete" => worker'[w].seen # NoContents
               /\ worker'[w].pc = "publish" =>
                    /\ worker'[w].req \in Requests
                    /\ \/ worker[w].pc = "publish" /\ worker'[w].req = worker[w].req
                       \/ row'[worker'[w].req].answer # NoContents,
           \A r \in Requests :
               /\ row[r].answer # NoContents => row'[r].answer # NoContents
               /\ row'[r].status \in {"absent", "PENDING"} => announced[r] = 0
    PROVE  Answers'
  BY DEF TypeOK, Answers

LEMMA AnswersStep ==
    ASSUME TypeOK, Claims, Answers, Next
    PROVE  Answers'
  <1>0. \A w \in Workers : worker[w].req \in Requests
    BY DEF TypeOK
  <1>1. CASE UNCHANGED <<row, worker, announced>>
    BY <1>1 DEF Answers
  <1>2. CASE EraseAccount
    BY <1>0, <1>2, ErasureWritten, AnswersKept DEF EraseAccount, Answers
  <1>3. ASSUME NEW a \in Askers, Create(a)
        PROVE  Answers'
    <2>1. UNCHANGED <<worker, announced>>
      BY <1>3 DEF Create
    <2>2. CASE UNCHANGED row
      BY <1>1, <2>1, <2>2
    <2>3. ASSUME NEW r \in Requests, row[r].status = "absent",
                 row' = [row EXCEPT ![r].status = "PENDING", ![r].asked = asker[a].contents]
          PROVE  Answers'
      <3>1. /\ row'[r].answer = row[r].answer
            /\ \A q \in Requests \ {r} : row'[q] = row[q]
        BY <2>3, CreationWritten
      <3> QED
        BY <1>0, <2>1, <2>3, <3>1, AnswersKept DEF Answers
    <2> QED
      BY <1>3, <2>2, <2>3 DEF Create
  <1>4. ASSUME NEW w \in Workers, NEW r \in Requests, Take(w, r)
        PROVE  Answers'
    <2>1. worker'[w].pc = "read" /\ \A v \in Workers \ {w} : worker'[v] = worker[v]
      BY <1>4 DEF Take, TypeOK
    <2> QED
      BY <1>0, <1>4, <2>1, AnswersKept DEF Take, Answers
  <1>5. ASSUME NEW w \in Workers, WorkerStep(w) \/ WorkerFault(w)
        PROVE  Answers'
    <2> DEFINE q == worker[w].req
    <2>1. CASE FinishJob(w) \/ ThrowJob(w) \/ Die(w)
      <3>1. worker'[w].pc = "idle" /\ \A v \in Workers \ {w} : worker'[v] = worker[v]
        BY <2>1 DEF FinishJob, ThrowJob, Die, Resting, TypeOK
      <3> QED
        BY <1>0, <2>1, <3>1, AnswersKept DEF FinishJob, ThrowJob, Die, Answers
    <2>2. CASE ReadRequest(w) \/ Break(w)
      <3>1. PICK pc \in {"claim", "return", "release", "giveUp", "throw"} : Go(w, pc)
        BY <2>2 DEF ReadRequest, Break, Caught
      <3>2. UNCHANGED <<row, announced>>
        BY <2>2 DEF ReadRequest, Break
      <3> QED
        BY <1>0, <3>1, <3>2, GoMoves, AnswersKept DEF Answers
    <2>3. CASE Claim(w) \/ FailRequest(w) \/ Release(w) \/ GiveUp(w) \/ BookkeepingFails(w)
      <3>1. PICK pc \in {"list", "return", "release", "giveUp", "throw"} : Go(w, pc)
        BY <2>3 DEF Claim, FailRequest, Release, GiveUp, BookkeepingFails, Caught
      <3>2. /\ worker'[w].pc \notin {"complete", "publish"}
            /\ \A v \in Workers \ {w} : worker'[v] = worker[v]
        BY <3>1, GoMoves
      <3>3. UNCHANGED announced
        BY <2>3 DEF Claim, FailRequest, Release, GiveUp, BookkeepingFails
      <3>4. CASE UNCHANGED row
        BY <1>0, <3>2, <3>3, <3>4, AnswersKept DEF Answers
      <3>5. CASE \E status \in {"RUNNING", "FAILED"} : row' = [row EXCEPT ![q].status = status]
        <4>1. PICK status \in {"RUNNING", "FAILED"} : row' = [row EXCEPT ![q].status = status]
          BY <3>5
        <4>2. /\ row'[q].status = status /\ row'[q].answer = row[q].answer
              /\ \A r \in Requests \ {q} : row'[r] = row[r]
          BY <1>0, <4>1, StatusWritten
        <4> QED
          BY <1>0, <3>2, <3>3, <4>2, AnswersKept DEF Answers
      <3>6. CASE Engaged(w) /\ row' = [row EXCEPT ![q].status = "PENDING"]
        <4>1. announced[q] = 0
          BY <3>6 DEF Claims
        <4> QED
          <5>1. /\ row'[q].answer = row[q].answer
                /\ \A r \in Requests \ {q} : row'[r] = row[r]
            BY <1>0, <3>6, StatusWritten
          <5> QED
            BY <1>0, <3>2, <3>3, <4>1, <5>1, AnswersKept DEF Answers
      <3> QED
        BY <2>3, <3>4, <3>5, <3>6 DEF Claim, FailRequest, Release, GiveUp, BookkeepingFails, Engaged
    <2>4. CASE Compute(w)
      <3>1. /\ worker'[w].pc \in {"fail", "complete"}
            /\ worker'[w].pc = "complete" => worker'[w].seen # NoContents
            /\ \A v \in Workers \ {w} : worker'[v] = worker[v]
        BY <2>4 DEF Compute, TypeOK
      <3> QED
        BY <1>0, <2>4, <3>1, AnswersKept, ZenonT(60) DEF Compute, Answers
    <2>5. CASE CompleteRequest(w) \/ BreakAfterCommit(w)
      <3>1. worker[w].seen # NoContents /\ UNCHANGED announced
        BY <2>5 DEF CompleteRequest, BreakAfterCommit, Answers
      <3>2. CASE WritesAnswer(w)
        <4>1. /\ worker'[w].pc \in {"publish", "release"} /\ worker'[w].req = q
              /\ \A v \in Workers \ {w} : worker'[v] = worker[v]
          BY <2>5, GoMoves DEF CompleteRequest, BreakAfterCommit
        <4>2. /\ row'[q].status = "COMPLETED" /\ row'[q].answer # NoContents
              /\ \A r \in Requests \ {q} : row'[r] = row[r]
          BY <1>0, <3>1, <3>2, AnswerWritten
        <4> QED
          BY <1>0, <3>1, <4>1, <4>2, AnswersKept DEF Answers
      <3>3. CASE Go(w, "release") /\ UNCHANGED row
        BY <1>0, <3>1, <3>3, GoMoves, AnswersKept DEF Answers
      <3> QED
        BY <2>5, <3>2, <3>3 DEF CompleteRequest, BreakAfterCommit, WritesAnswer
    <2>6. CASE Publish(w)
      <3>1. /\ announced[q] = 0 /\ row[q].status \notin {"absent", "PENDING"}
            /\ row[q].answer # NoContents /\ UNCHANGED row
        BY <2>6 DEF Publish, Engaged, Claims, Answers
      <3>2. worker'[w].pc = "return" /\ \A v \in Workers \ {w} : worker'[v] = worker[v]
        BY <2>6, GoMoves DEF Publish
      <3>3. announced'[q] = 1 /\ \A r \in Requests \ {q} : announced'[r] = announced[r]
        BY <1>0, <2>6, <3>1 DEF Publish, TypeOK
      <3> QED
        BY <1>0, <3>1, <3>2, <3>3 DEF Answers
    <2> QED
      BY <1>5, <2>1, <2>2, <2>3, <2>4, <2>5, <2>6 DEF WorkerStep, WorkerFault
  <1>6. ASSUME NEW r \in Requests, FindStalled(r) \/ LoseLock(r) \/ ReleaseFailed(r)
        PROVE  Answers'
    BY <1>1, <1>6 DEF FindStalled, LoseLock, ReleaseFailed
  <1>7. ASSUME NEW r \in Requests, GoStale(r) \/ Prune(r)
        PROVE  Answers'
    <2>1. UNCHANGED <<worker, announced>> /\ \A q \in Requests \ {r} : row'[q] = row[q]
      BY <1>7 DEF GoStale, Prune, TypeOK
    <2>2. row'[r].status \in {"COMPLETED", "deleted"} /\ row'[r].answer = row[r].answer
      <3>1. row[r] \in RowType
        BY DEF TypeOK, Row, RowType
      <3> QED
        BY <1>7, <3>1, StatusWritten DEF GoStale, Prune, TypeOK, RowType
    <2> QED
      BY <1>0, <2>1, <2>2, AnswersKept DEF Answers
  <1> QED
    BY <1>1, <1>2, <1>3, <1>4, <1>5, <1>6, <1>7, StepKinds DEF Enqueue

-----------------------------------------------------------------------------
(***************************************************************************)
(* Queueing.                                                               *)
(***************************************************************************)
\* A step that queues nothing new and starts no run.
LEMMA QueueingKept ==
    ASSUME TypeOK, Queueing,
           \A r \in Requests :
               /\ Unqueued(r) => Unqueued(r)'
               /\ row'[r].status = "absent" => row[r].status = "absent"
               /\ row[r].status \in {"PENDING", "deleted"} /\ Unqueued(r)
                    => row'[r].status \in {"PENDING", "deleted"},
           \A a \in Askers : asker'[a].pc = "enqueue" =>
               asker[a].pc = "enqueue" /\ asker'[a].req = asker[a].req
    PROVE  Queueing'
  <1>1. \A a \in Askers : asker[a].req \in Requests
    BY DEF TypeOK
  <1> QED
    BY <1>1 DEF Queueing

LEMMA QueueingStep ==
    ASSUME TypeOK, SoundJobs, Queueing, Next
    PROVE  Queueing'
  <1>0. /\ \A w \in Workers : worker[w].req \in Requests
        /\ \A a \in Askers : asker[a].req \in Requests
    BY DEF TypeOK
  <1>1. CASE UNCHANGED <<row, job, worker, asker>>
    BY <1>1 DEF Queueing, Unqueued, RunsOn
  <1>2. CASE Elsewhere
    <2>1. UNCHANGED <<row, job, worker>>
      BY <1>2 DEF Elsewhere, EditList, DeleteList, Ask, FindReusable, Leave, AskerDies
    <2>2. \A a \in Askers : asker'[a].pc = "enqueue" => asker'[a] = asker[a]
      <3>1. ASSUME NEW a \in Askers, Ask(a) \/ FindReusable(a) \/ Leave(a) \/ AskerDies(a)
            PROVE  asker'[a].pc # "enqueue" /\ \A b \in Askers \ {a} : asker'[b] = asker[b]
        <4>1. CASE Ask(a)
          BY <4>1 DEF Ask, AtRest, TypeOK
        <4>2. CASE FindReusable(a)
          BY <4>2 DEF FindReusable, TypeOK
        <4>3. CASE Leave(a) \/ AskerDies(a)
          BY <4>3 DEF Leave, AskerDies, AtRest, TypeOK
        <4> QED
          BY <3>1, <4>1, <4>2, <4>3
      <3> QED
        BY <1>2, <3>1 DEF Elsewhere, EditList, DeleteList
    <2> QED
      BY <2>1, <2>2, QueueingKept DEF Unqueued, RunsOn
  <1>3. CASE EraseAccount
    <2>1. UNCHANGED <<job, worker, asker>>
      BY <1>3 DEF EraseAccount
    <2> QED
      BY <1>3, <2>1, ErasureWritten, QueueingKept DEF Unqueued, RunsOn
  <1>4. ASSUME NEW a \in Askers, Create(a)
        PROVE  Queueing'
    <2>1. UNCHANGED <<job, worker>>
      BY <1>4 DEF Create
    <2>2. CASE UNCHANGED row /\ asker' = [asker EXCEPT ![a] = AtRest]
      <3>1. asker'[a].pc = "idle" /\ \A b \in Askers \ {a} : asker'[b] = asker[b]
        BY <2>2 DEF AtRest, TypeOK
      <3> QED
        BY <2>1, <2>2, <3>1, QueueingKept DEF Unqueued, RunsOn
    <2>3. ASSUME NEW r \in Requests, row[r].status = "absent",
                 row' = [row EXCEPT ![r].status = "PENDING", ![r].asked = asker[a].contents],
                 asker' = [asker EXCEPT ![a].pc = "enqueue", ![a].req = r]
          PROVE  Queueing'
      <3>1. /\ row'[r].status = "PENDING"
            /\ \A q \in Requests \ {r} : row'[q] = row[q]
        BY <2>3, CreationWritten
      <3>2. asker'[a].req = r /\ \A b \in Askers \ {a} : asker'[b] = asker[b]
        BY <2>3 DEF TypeOK
      <3>3. Unqueued(r) /\ \A b \in Askers : asker[b].pc = "enqueue" => asker[b].req # r
        BY <2>3 DEF Queueing
      <3>4. \A q \in Requests : Unqueued(q)' = Unqueued(q)
        BY <2>1 DEF Unqueued, RunsOn
      <3>5. \A q \in Requests : row'[q].status = "absent" => Unqueued(q)
        BY <3>1 DEF Queueing
      <3>6. ASSUME NEW b \in Askers, asker'[b].pc = "enqueue"
            PROVE  /\ row'[asker'[b].req].status \in {"PENDING", "deleted"}
                   /\ Unqueued(asker'[b].req) /\ asker'[b].req \in Requests
                   /\ \A c \in Askers : asker'[c].pc = "enqueue" /\ asker'[c].req = asker'[b].req => b = c
        BY <1>0, <3>1, <3>2, <3>3, <3>6 DEF Queueing
      <3> QED
        BY <3>4, <3>5, <3>6 DEF Queueing
    <2> QED
      BY <1>4, <2>2, <2>3 DEF Create
  <1>5. ASSUME NEW a \in Askers, Enqueue(a)
        PROVE  Queueing'
    <2>1. UNCHANGED <<row, worker>>
      BY <1>5 DEF Enqueue
    <2>2. asker'[a].pc = "idle" /\ \A b \in Askers \ {a} : asker'[b] = asker[b]
      BY <1>5 DEF Enqueue, AtRest, TypeOK
    <2>3. \A r \in Requests \ {asker[a].req} : Unqueued(r)' = Unqueued(r)
      BY <1>5 DEF Enqueue, Unqueued, RunsOn, TypeOK
    <2>4. row[asker[a].req].status # "absent"
      BY <1>5 DEF Queueing, Enqueue
    <2>5. \A b \in Askers : asker'[b].pc = "enqueue" => b # a /\ asker[b].req # asker[a].req
      BY <1>5, <2>2 DEF Queueing, Enqueue
    <2> QED
      BY <1>0, <2>1, <2>2, <2>3, <2>4, <2>5 DEF Queueing
  <1>6. ASSUME NEW w \in Workers, NEW r \in Requests, Take(w, r)
        PROVE  Queueing'
    <2>1. UNCHANGED <<row, asker>> /\ ~Unqueued(r)
      BY <1>6 DEF Take, Unqueued
    <2>2. worker'[w].req = r /\ \A v \in Workers \ {w} : worker'[v] = worker[v]
      BY <1>6 DEF Take, TypeOK
    <2>3. \A q \in Requests \ {r} : job'[q] = job[q]
      BY <1>6 DEF Take, TypeOK
    <2>4. \A q \in Requests : Unqueued(q) => Unqueued(q)'
      BY <2>1, <2>2, <2>3 DEF Unqueued, RunsOn
    <2> QED
      BY <2>1, <2>4, QueueingKept
  <1>7. ASSUME NEW w \in Workers, WorkerStep(w) \/ WorkerFault(w)
        PROVE  Queueing'
    <2> DEFINE q == worker[w].req
    <2>1. UNCHANGED asker /\ worker[w].pc # "idle" /\ ~Unqueued(q) /\ row[q].status # "absent"
      <3>1. worker[w].pc # "idle" /\ UNCHANGED asker
        BY <1>7
        DEF WorkerStep, ReadRequest, Claim, Compute, CompleteRequest, FailRequest, Publish,
            FinishJob, Release, GiveUp, ThrowJob, WorkerFault, Break, BreakAfterCommit,
            BookkeepingFails, Die
      <3> QED
        BY <1>0, <3>1 DEF Unqueued, RunsOn, Queueing
    <2>2. /\ \A v \in Workers \ {w} : worker'[v] = worker[v]
          /\ worker'[w].pc = "idle" \/ worker'[w].req = q
      <3>1. CASE Compute(w)
        BY <3>1 DEF Compute, TypeOK
      <3>2. CASE FinishJob(w) \/ ThrowJob(w) \/ Die(w)
        BY <3>2 DEF FinishJob, ThrowJob, Die, Resting, TypeOK
      <3>3. CASE ~(Compute(w) \/ FinishJob(w) \/ ThrowJob(w) \/ Die(w))
        <4>1. PICK pc : Go(w, pc)
          BY <1>7, <3>3
          DEF WorkerStep, ReadRequest, Claim, CompleteRequest, FailRequest, Publish, Release,
              GiveUp, WorkerFault, Break, BreakAfterCommit, BookkeepingFails
        <4> QED
          BY <4>1, GoMoves
      <3> QED
        BY <3>1, <3>2, <3>3
    <2>3. \A r \in Requests \ {q} : job'[r] = job[r]
      <3>1. CASE FinishJob(w) \/ ThrowJob(w)
        BY <3>1 DEF FinishJob, ThrowJob, TypeOK
      <3>2. CASE ~(FinishJob(w) \/ ThrowJob(w))
        BY <1>7, <3>2
        DEF WorkerStep, ReadRequest, Claim, Compute, CompleteRequest, FailRequest, Publish,
            Release, GiveUp, WorkerFault, Break, BreakAfterCommit, BookkeepingFails, Die
      <3> QED
        BY <3>1, <3>2
    <2>4. /\ \A r \in Requests \ {q} : row'[r] = row[r]
          /\ row'[q].status # "absent"
      <3>1. CASE CompleteRequest(w) \/ BreakAfterCommit(w)
        <4>1. CASE UNCHANGED row
          BY <2>1, <4>1
        <4>2. CASE WritesAnswer(w)
          BY <1>0, <4>2, AnswerWritten
        <4> QED
          BY <3>1, <4>1, <4>2 DEF CompleteRequest, BreakAfterCommit, WritesAnswer
      <3>2. CASE ~(CompleteRequest(w) \/ BreakAfterCommit(w))
        <4>1. CASE UNCHANGED row
          BY <2>1, <4>1
        <4>2. ASSUME NEW status \in {"RUNNING", "PENDING", "FAILED"},
                     row' = [row EXCEPT ![q].status = status]
              PROVE  /\ \A r \in Requests \ {q} : row'[r] = row[r]
                     /\ row'[q].status # "absent"
          BY <1>0, <4>2, StatusWritten
        <4> QED
          BY <1>7, <3>2, <4>1, <4>2
          DEF WorkerStep, ReadRequest, Claim, Compute, FailRequest, Publish, FinishJob,
              ThrowJob, Release, GiveUp, WorkerFault, Break, BookkeepingFails, Die
      <3> QED
        BY <3>1, <3>2
    <2>5. \A r \in Requests : Unqueued(r) => r # q /\ Unqueued(r)'
      BY <2>1, <2>2, <2>3 DEF Unqueued, RunsOn
    <2> QED
      BY <1>0, <2>1, <2>4, <2>5, QueueingKept
  <1>8. ASSUME NEW r \in Requests, FindStalled(r) \/ LoseLock(r) \/ ReleaseFailed(r)
        PROVE  Queueing'
    <2>1. UNCHANGED <<row, worker, asker>> /\ \A q \in Requests \ {r} : job'[q] = job[q]
      BY <1>8 DEF FindStalled, LoseLock, ReleaseFailed, TypeOK
    <2>2. Unqueued(r) => FALSE
      BY <1>8 DEF FindStalled, LoseLock, ReleaseFailed, Unqueued
    <2> QED
      BY <2>1, <2>2, QueueingKept DEF Unqueued, RunsOn
  <1>9. ASSUME NEW r \in Requests, GoStale(r) \/ Prune(r)
        PROVE  Queueing'
    <2>1. UNCHANGED <<worker, asker, job>> /\ \A q \in Requests \ {r} : row'[q] = row[q]
      BY <1>9 DEF GoStale, Prune, TypeOK
    <2>2. /\ row'[r].status \in {"COMPLETED", "deleted"}
          /\ row'[r].status = "COMPLETED" => row[r].status = "COMPLETED"
      <3>1. row[r] \in RowType
        BY DEF TypeOK, Row, RowType
      <3> QED
        BY <1>9, <3>1, StatusWritten DEF GoStale, Prune, TypeOK, RowType
    <2> QED
      BY <2>1, <2>2, QueueingKept DEF Unqueued, RunsOn
  <1> QED
    BY <1>2, <1>3, <1>4, <1>5, <1>6, <1>7, <1>8, <1>9, StepKinds

-----------------------------------------------------------------------------
(***************************************************************************)
(* The undisturbed requests.                                               *)
(***************************************************************************)
LEMMA UndisturbedKept ==
    ASSUME NEW r \in Requests, Undisturbed(r), job'[r] = job[r],
           row'[r].status \in {row[r].status, "deleted"},
           \A w \in Workers : RunsOn(w, r) \/ RunsOn(w, r)' => worker'[w] = worker[w]
    PROVE  Undisturbed(r)'
  BY DEF Undisturbed, RunsOn, Expected

\* The job of a request at rest is held by nobody.
LEMMA HolderOfNone ==
    ASSUME SoundJobs, NEW r \in Requests, Undisturbed(r)
    PROVE  /\ \A w \in Workers : RunsOn(w, r) => job[r].state = "active"
           /\ \A v, w \in Workers : RunsOn(v, r) /\ RunsOn(w, r) => v = w
  BY JobAssumption DEF SoundJobs, SoundJob, Undisturbed

\* The one run of a request goes on.
LEMMA UndisturbedMove ==
    ASSUME SoundJobs, NEW r \in Requests, Undisturbed(r), NEW w \in Workers, RunsOn(w, r),
           job'[r] = job[r], RunsOn(w, r)', worker'[w].last = worker[w].last,
           \A v \in Workers \ {w} : worker'[v] = worker[v],
           worker'[w].pc = "giveUp" => worker[w].last,
           row'[r].status \in Expected(w)' \cup {"deleted"}
    PROVE  Undisturbed(r)'
  <1>1. job[r].state = "active" /\ \A v \in Workers : RunsOn(v, r) => v = w
    BY HolderOfNone
  <1>2. \A v \in Workers : RunsOn(v, r)' => v = w
    BY <1>1 DEF RunsOn
  <1> QED
    BY <1>1, <1>2 DEF Undisturbed

\* A step of a run works on its own request.
LEMMA RunStaysAside ==
    ASSUME TypeOK, NEW w \in Workers, WorkerStep(w) \/ WorkerFault(w),
           NEW r \in Requests, r # worker[w].req
    PROVE  /\ job'[r] = job[r] /\ row'[r] = row[r]
           /\ \A v \in Workers : RunsOn(v, r) \/ RunsOn(v, r)' => worker'[v] = worker[v]
  <1> DEFINE q == worker[w].req
  <1>0. q \in Requests
    BY DEF TypeOK
  <1>1. CASE FinishJob(w) \/ ThrowJob(w) \/ Die(w)
    <2>1. /\ worker'[w].pc = "idle" /\ \A v \in Workers \ {w} : worker'[v] = worker[v]
          /\ UNCHANGED row /\ job'[r] = job[r]
      BY <1>1 DEF FinishJob, ThrowJob, Die, Resting, TypeOK
    <2> QED
      BY <2>1 DEF RunsOn
  <1>2. CASE Compute(w)
    <2>1. worker'[w].req = q /\ \A v \in Workers \ {w} : worker'[v] = worker[v]
      BY <1>2 DEF Compute, TypeOK
    <2> QED
      BY <1>2, <2>1 DEF RunsOn, Compute
  <1>3. CASE CompleteRequest(w) \/ BreakAfterCommit(w)
    <2>1. UNCHANGED job /\ (UNCHANGED row \/ WritesAnswer(w))
      BY <1>3 DEF CompleteRequest, BreakAfterCommit, WritesAnswer
    <2>2. worker'[w].req = q /\ \A v \in Workers \ {w} : worker'[v] = worker[v]
      BY <1>3, GoMoves DEF CompleteRequest, BreakAfterCommit
    <2> QED
      BY <2>1, <2>2, AnswerWritten DEF RunsOn
  <1>4. CASE ~(FinishJob(w) \/ ThrowJob(w) \/ Die(w) \/ Compute(w) \/ CompleteRequest(w)
                 \/ BreakAfterCommit(w))
    <2>1. /\ UNCHANGED job
          /\ \/ UNCHANGED row
             \/ \E status \in {"RUNNING", "PENDING", "FAILED"} : row' = [row EXCEPT ![q].status = status]
      BY <1>4
      DEF WorkerStep, ReadRequest, Claim, FailRequest, Publish, Release, GiveUp, WorkerFault,
          Break, BookkeepingFails
    <2>2. worker'[w].req = q /\ \A v \in Workers \ {w} : worker'[v] = worker[v]
      <3>1. PICK pc : Go(w, pc)
        BY <1>4
        DEF WorkerStep, ReadRequest, Claim, FailRequest, Publish, Release, GiveUp, WorkerFault,
            Break, BookkeepingFails
      <3> QED
        BY <3>1, GoMoves
    <2> QED
      BY <1>0, <2>1, <2>2, StatusWritten DEF RunsOn
  <1> QED
    BY <1>1, <1>2, <1>3, <1>4

LEMMA QuietStep ==
    ASSUME TypeOK, SoundJobs, Queueing, Quiet, Next
    PROVE  Quiet'
  <1>0. /\ \A w \in Workers : worker[w].req \in Requests
        /\ \A a \in Askers : asker[a].req \in Requests
    BY DEF TypeOK
  <1> SUFFICES ASSUME NEW r \in Requests, r \notin struck'
               PROVE  Undisturbed(r)'
    BY DEF Quiet
  <1>1. r \notin struck /\ Undisturbed(r)
    <2>1. struck \subseteq struck'
      BY DEF Next, EditList, DeleteList, EraseAccount, Ask, AskerStep, FindReusable, Create,
             Enqueue, Leave, AskerDies, Take, WorkerStep, ReadRequest, Claim, Compute,
             CompleteRequest, FailRequest, Publish, FinishJob, Release, GiveUp, ThrowJob,
             WorkerFault, Break, BreakAfterCommit, BookkeepingFails, Die, Strike, FindStalled,
             LoseLock, ReleaseFailed, GoStale, Prune
    <2> QED
      BY <2>1 DEF Quiet
  \* A request without a job or a run.
  <1>2. ASSUME \A w \in Workers : ~RunsOn(w, r)', job'[r].state # "active",
               job'[r].state = "waiting" => row'[r].status \in {"PENDING", "deleted"}
        PROVE  Undisturbed(r)'
    BY <1>2 DEF Undisturbed
  <1>3. CASE UNCHANGED <<row, job, worker>>
    BY <1>1, <1>3, UndisturbedKept
  <1>4. CASE EraseAccount
    <2>1. UNCHANGED <<job, worker>>
      BY <1>4 DEF EraseAccount
    <2> QED
      BY <1>1, <1>4, <2>1, ErasureWritten, UndisturbedKept
  <1>5. ASSUME NEW a \in Askers, Create(a)
        PROVE  Undisturbed(r)'
    <2>1. UNCHANGED <<job, worker>>
      BY <1>5 DEF Create
    <2>2. CASE UNCHANGED row
      BY <1>3, <2>1, <2>2
    <2>3. ASSUME NEW q \in Requests, row[q].status = "absent",
                 row' = [row EXCEPT ![q].status = "PENDING", ![q].asked = asker[a].contents]
          PROVE  Undisturbed(r)'
      <3>1. CASE r = q
        <4>1. Unqueued(r)
          BY <2>3, <3>1 DEF Queueing
        <4> QED
          BY <1>2, <2>1, <4>1 DEF Unqueued, RunsOn
      <3>2. CASE r # q
        <4>1. row'[r] = row[r]
          BY <2>3, <3>2, CreationWritten
        <4> QED
          BY <1>1, <2>1, <4>1, UndisturbedKept
      <3> QED
        BY <3>1, <3>2
    <2> QED
      BY <1>5, <2>2, <2>3 DEF Create
  <1>6. ASSUME NEW a \in Askers, Enqueue(a)
        PROVE  Undisturbed(r)'
    <2>1. UNCHANGED <<row, worker>>
      BY <1>6 DEF Enqueue
    <2>2. CASE r = asker[a].req
      <3>1. row[r].status \in {"PENDING", "deleted"} /\ Unqueued(r)
        BY <1>6, <2>2 DEF Queueing, Enqueue
      <3>2. job'[r].state = "waiting"
        BY <1>6, <2>2, <3>1 DEF Enqueue, Added, Unqueued, TypeOK, Job
      <3> QED
        BY <1>2, <2>1, <3>1, <3>2 DEF Unqueued, RunsOn
    <2>3. CASE r # asker[a].req
      <3>1. job'[r] = job[r]
        BY <1>6, <2>3 DEF Enqueue, TypeOK
      <3> QED
        BY <1>1, <2>1, <3>1, UndisturbedKept
    <2> QED
      BY <2>2, <2>3
  <1>7. ASSUME NEW w \in Workers, NEW q \in Requests, Take(w, q)
        PROVE  Undisturbed(r)'
    <2>1. UNCHANGED row /\ worker[w].pc = "idle" /\ job[q].state = "waiting"
      BY <1>7 DEF Take
    <2>2. /\ worker'[w].req = q /\ worker'[w].pc = "read"
          /\ worker'[w].last = (job[q].tries + 1 >= Attempts)
          /\ \A v \in Workers \ {w} : worker'[v] = worker[v]
      BY <1>7 DEF Take, TypeOK
    <2>3. CASE r # q
      <3>1. job'[r] = job[r]
        BY <1>7, <2>3 DEF Take, TypeOK
      <3> QED
        BY <1>1, <2>1, <2>2, <2>3, <3>1, UndisturbedKept DEF RunsOn
    <2>4. CASE r = q
      <3>1. row[r].status \in {"PENDING", "deleted"} /\ \A v \in Workers : ~RunsOn(v, r)
        BY <1>1, <2>1, <2>4, HolderOfNone DEF Undisturbed
      <3>2. \A v \in Workers : RunsOn(v, r)' => v = w
        BY <2>2, <3>1 DEF RunsOn
      <3>3. job'[r].state = "active" /\ job'[r].holder = w /\ job'[r].tries = job[r].tries
        BY <1>7, <2>4 DEF Take, Taken, TypeOK, Job
      <3>4. RunsOn(w, r)'
        BY <2>2, <2>4 DEF RunsOn
      <3>5. Expected(w)' = {"PENDING"}
        BY <2>2 DEF Expected
      <3> QED
        BY <2>1, <2>2, <2>4, <3>1, <3>2, <3>3, <3>4, <3>5 DEF Undisturbed
    <2> QED
      BY <2>3, <2>4
  <1>8. ASSUME NEW w \in Workers, WorkerStep(w) \/ WorkerFault(w)
        PROVE  Undisturbed(r)'
    <2> DEFINE q == worker[w].req
    <2>1. CASE r # q
      BY <1>1, <1>8, <2>1, RunStaysAside, UndisturbedKept
    <2>2. CASE r = q
      <3>1. RunsOn(w, r)
        BY <1>8, <2>2
        DEF RunsOn, WorkerStep, ReadRequest, Claim, Compute, CompleteRequest, FailRequest,
            Publish, FinishJob, Release, GiveUp, ThrowJob, WorkerFault, Break,
            BreakAfterCommit, BookkeepingFails, Die
      <3>2. /\ job[r].holder = w /\ worker[w].last = (job[r].tries + 1 >= Attempts)
            /\ worker[w].pc = "giveUp" => worker[w].last
            /\ row[r].status \in Expected(w) \cup {"deleted"}
            /\ \A v \in Workers : RunsOn(v, r) => v = w
            /\ Status(w) = row[r].status
        BY <1>1, <2>2, <3>1, HolderOfNone DEF Undisturbed, Status
      \* The run goes on to pc, and the row is what it should be there.
      <3>3. ASSUME NEW pc, Go(w, pc), pc # "idle", UNCHANGED job,
                   pc = "giveUp" => worker[w].last,
                   row'[r].status = "deleted" \/
                   CASE pc \in {"read", "claim", "giveUp"} -> row'[r].status = "PENDING"
                     [] pc \in {"list", "fail", "complete", "release"} -> row'[r].status = "RUNNING"
                     [] pc = "throw" /\ ~worker[w].last -> row'[r].status = "PENDING"
                     [] OTHER -> row'[r].status \in {"PENDING", "RUNNING", "COMPLETED", "FAILED"}
            PROVE  Undisturbed(r)'
        <4>1. /\ worker'[w].pc = pc /\ worker'[w].req = r /\ worker'[w].last = worker[w].last
              /\ \A v \in Workers \ {w} : worker'[v] = worker[v]
          BY <2>2, <3>3, GoMoves
        <4>2. RunsOn(w, r)'
          BY <3>3, <4>1 DEF RunsOn
        <4>3. row'[r].status \in Expected(w)' \cup {"deleted"}
          BY <3>3, <4>1 DEF Expected
        <4> QED
          BY <1>1, <3>1, <3>3, <4>1, <4>2, <4>3, UndisturbedMove
      \* What a failed attempt leaves.
      <3>4. ASSUME Go(w, Caught(w)), UNCHANGED job, row'[r].status \in {"PENDING", "deleted"}
            PROVE  Undisturbed(r)'
        BY <3>3, <3>4 DEF Caught
      <3>5. CASE FinishJob(w)
        <4>1. worker'[w].pc = "idle" /\ \A v \in Workers \ {w} : worker'[v] = worker[v]
          BY <3>5 DEF FinishJob, Resting, TypeOK
        <4>2. job'[r].state = "none"
          BY <2>2, <3>2, <3>5 DEF FinishJob, Done, NoJob, TypeOK
        <4> QED
          BY <1>2, <3>2, <4>1, <4>2 DEF RunsOn
      <3>6. CASE ThrowJob(w)
        <4>1. worker'[w].pc = "idle" /\ \A v \in Workers \ {w} : worker'[v] = worker[v]
          BY <3>6 DEF ThrowJob, Resting, TypeOK
        <4>2. UNCHANGED row /\ job'[r] = Threw(job[r], w) /\ worker[w].pc = "throw"
          BY <2>2, <3>6 DEF ThrowJob, TypeOK
        <4>3. job[r] \in Job
          BY DEF TypeOK
        <4>4. job'[r].state # "active" /\ (job'[r].state = "waiting" => job[r].tries + 1 < Attempts)
          <5>1. CASE job[r].tries + 1 < Attempts
            BY <3>2, <4>2, <4>3, <5>1 DEF Threw, Job
          <5>2. CASE ~(job[r].tries + 1 < Attempts)
            BY <3>2, <4>2, <4>3, <5>2 DEF Threw, Job
          <5> QED
            BY <5>1, <5>2
        <4>5. job[r].tries + 1 < Attempts => row[r].status \in {"PENDING", "deleted"}
          <5>1. ASSUME job[r].tries + 1 < Attempts
                PROVE  ~worker[w].last
            <6>1. ~(job[r].tries + 1 >= Attempts)
              BY <4>3, <5>1, JobAssumption DEF Job
            <6> QED
              BY <3>2, <6>1
          <5>2. ~worker[w].last => Expected(w) = {"PENDING"}
            BY <4>2 DEF Expected
          <5> QED
            BY <3>2, <5>1, <5>2
        <4> QED
          BY <1>2, <3>2, <4>1, <4>2, <4>4, <4>5 DEF RunsOn
      <3>7. CASE Die(w) \/ BreakAfterCommit(w) \/ BookkeepingFails(w)
        BY <2>2, <3>7 DEF Die, BreakAfterCommit, BookkeepingFails, Strike
      <3>8. CASE ReadRequest(w)
        BY <3>2, <3>3, <3>8 DEF ReadRequest, Expected
      <3>9. CASE Claim(w)
        <4>1. CASE row[r].status = "PENDING"
          <5>1. Go(w, "list") /\ UNCHANGED job /\ row' = [row EXCEPT ![r].status = "RUNNING"]
            BY <2>2, <3>2, <3>9, <4>1 DEF Claim
          <5>2. row'[r].status = "RUNNING"
            BY <5>1, StatusWritten
          <5>3. QED
            BY <3>3, <5>1, <5>2
        <4>2. CASE row[r].status # "PENDING"
          BY <3>2, <3>3, <3>9, <4>2 DEF Claim, Expected
        <4> QED
          BY <4>1, <4>2
      <3>10. CASE Compute(w)
        <4>1. /\ worker'[w].pc \in {"fail", "complete"} /\ worker'[w].req = r
              /\ worker'[w].last = worker[w].last
              /\ \A v \in Workers \ {w} : worker'[v] = worker[v]
          BY <2>2, <3>10 DEF Compute, TypeOK
        <4>2. RunsOn(w, r)'
          BY <4>1 DEF RunsOn
        <4>3. Expected(w) = {"RUNNING"} /\ Expected(w)' = {"RUNNING"}
          BY <3>10, <4>1 DEF Compute, Expected
        <4> QED
          BY <1>1, <3>1, <3>2, <3>10, <4>1, <4>2, <4>3, UndisturbedMove DEF Compute
      <3>11. CASE CompleteRequest(w)
        <4>1. CASE WritesAnswer(w) /\ Go(w, "publish")
          BY <2>2, <3>3, <3>11, <4>1, AnswerWritten DEF CompleteRequest
        <4>2. CASE Deleted(w) /\ Go(w, "release") /\ UNCHANGED row
          BY <3>2, <3>3, <3>11, <4>2 DEF CompleteRequest, Deleted
        <4> QED
          BY <3>11, <4>1, <4>2 DEF CompleteRequest, WritesAnswer
      <3>12. CASE FailRequest(w)
        <4>1. CASE ~Deleted(w)
          BY <1>0, <2>2, <3>3, <3>12, <4>1, StatusWritten DEF FailRequest
        <4>2. CASE Deleted(w)
          BY <3>2, <3>3, <3>12, <4>2 DEF FailRequest, Deleted
        <4> QED
          BY <4>1, <4>2
      <3>13. CASE Publish(w)
        BY <3>2, <3>3, <3>13 DEF Publish, Expected
      <3>14. CASE Release(w)
        <4>1. CASE row[r].status = "RUNNING"
          <5>1. \E status \in {"PENDING"} : row' = [row EXCEPT ![q].status = status]
            BY <3>2, <3>14, <4>1 DEF Release
          <5>2. row'[r].status = "PENDING"
            BY <1>0, <2>2, <5>1, StatusWritten
          <5> QED
            BY <3>4, <3>14, <5>2 DEF Release
        <4>2. CASE row[r].status # "RUNNING"
          BY <3>2, <3>4, <3>14, <4>2 DEF Release, Expected
        <4> QED
          BY <4>1, <4>2
      <3>15. CASE GiveUp(w)
        <4>1. worker[w].last
          BY <3>2, <3>15 DEF GiveUp
        <4>2. row'[r].status \in {"FAILED", "deleted"}
          <5>1. CASE Deleted(w)
            BY <3>2, <3>15, <5>1 DEF GiveUp, Deleted
          <5>2. CASE \E status \in {"FAILED"} : row' = [row EXCEPT ![q].status = status]
            BY <1>0, <2>2, <5>2, StatusWritten
          <5> QED
            BY <3>15, <5>1, <5>2 DEF GiveUp
        <4> QED
          BY <3>3, <3>15, <4>1, <4>2 DEF GiveUp
      <3>16. CASE Break(w)
        <4>1. CASE worker[w].pc \in {"read", "claim"}
          BY <3>2, <3>4, <3>16, <4>1 DEF Break, Expected
        <4>2. CASE worker[w].pc \in {"list", "fail", "complete"}
          BY <3>2, <3>3, <3>16, <4>2 DEF Break, Expected
        <4> QED
          BY <3>16, <4>1, <4>2 DEF Break
      <3> QED
        BY <1>8, <3>5, <3>6, <3>7, <3>8, <3>9, <3>10, <3>11, <3>12, <3>13, <3>14, <3>15, <3>16
        DEF WorkerStep, WorkerFault
    <2> QED
      BY <2>1, <2>2
  <1>9. ASSUME NEW q \in Requests, FindStalled(q) \/ LoseLock(q) \/ ReleaseFailed(q)
        PROVE  Undisturbed(r)'
    <2>1. UNCHANGED <<row, worker>>
      BY <1>9 DEF FindStalled, LoseLock, ReleaseFailed
    <2>2. CASE r # q
      <3>1. job'[r] = job[r]
        BY <1>9, <2>2 DEF FindStalled, LoseLock, ReleaseFailed, TypeOK
      <3> QED
        BY <1>1, <2>1, <3>1, UndisturbedKept
    <2>3. CASE r = q /\ ReleaseFailed(q)
      <3>1. job'[r].state = "none" /\ \A w \in Workers : ~RunsOn(w, r)
        BY <1>1, <2>3, HolderOfNone DEF ReleaseFailed, NoJob, TypeOK
      <3> QED
        BY <1>2, <2>1, <3>1 DEF RunsOn
    <2>4. CASE r = q /\ LoseLock(q)
      BY <2>4 DEF LoseLock
    <2>5. CASE r = q /\ FindStalled(q)
      <3>1. PICK w \in Workers : RunsOn(w, r)
        BY <1>1, <2>5 DEF FindStalled, Undisturbed
      <3>2. job[r].holder = w
        BY <1>1, <3>1 DEF Undisturbed
      <3> QED
        BY <2>5, <3>1, <3>2 DEF FindStalled, HolderRuns, RunsOn
    <2> QED
      BY <1>9, <2>2, <2>3, <2>4, <2>5
  <1>10. ASSUME NEW q \in Requests, GoStale(q) \/ Prune(q)
         PROVE  Undisturbed(r)'
    <2>1. UNCHANGED <<worker, job>>
      BY <1>10 DEF GoStale, Prune
    <2>2. row'[r].status \in {row[r].status, "deleted"}
      <3>1. \A p \in Requests : row[p] \in RowType
        BY DEF TypeOK, Row, RowType
      <3>2. CASE GoStale(q)
        BY <3>1, <3>2 DEF GoStale, TypeOK, RowType
      <3>3. CASE Prune(q)
        BY <3>1, <3>3 DEF Prune, TypeOK, RowType
      <3> QED
        BY <1>10, <3>2, <3>3
    <2> QED
      BY <1>1, <2>1, <2>2, UndisturbedKept
  <1> QED
    BY <1>3, <1>4, <1>5, <1>6, <1>7, <1>8, <1>9, <1>10, StepKinds

-----------------------------------------------------------------------------
(***************************************************************************)
(* Theorems.                                                               *)
(***************************************************************************)
LEMMA CustodyInit == Init => Custody
  <1> SUFFICES ASSUME Init PROVE Custody
    OBVIOUS
  <1>1. TypeOK /\ SoundJobs
    BY TypeInit
  <1>2. \A w \in Workers : worker[w].pc = "idle"
    BY DEF Init, Resting
  <1>3. \A a \in Askers : asker[a].pc = "idle"
    BY DEF Init, AtRest
  <1>4. \A r \in Requests : Unqueued(r) /\ announced[r] = 0
    BY <1>2 DEF Init, Unqueued, RunsOn, NoJob
  <1> QED
    BY <1>1, <1>2, <1>3, <1>4
    DEF Custody, Claims, Answers, Queueing, Quiet, Undisturbed, Unqueued, Engaged, Holds

LEMMA CustodyStep == Custody /\ [Next]_vars => Custody'
  <1> SUFFICES ASSUME Custody, [Next]_vars PROVE Custody'
    OBVIOUS
  <1>1. CASE Next
    BY <1>1, TypeStep, ClaimsStep, AnswersStep, QueueingStep, QuietStep DEF Custody
  <1>2. CASE UNCHANGED vars
    BY <1>2
    DEF vars, Custody, TypeOK, SoundJobs, Claims, Answers, Queueing, Quiet, Undisturbed,
        Unqueued, RunsOn, Engaged, Holds, Expected
  <1> QED
    BY <1>1, <1>2

LEMMA CustodyAlways == Spec => []Custody
  BY CustodyInit, CustodyStep, PTL DEF Spec

\* Every variable keeps its type, a completed row has an answer included.
THEOREM TypeCorrect == Spec => []TypeOK
  <1>1. Custody => TypeOK
    BY DEF Custody
  <1> QED
    BY <1>1, CustodyAlways, PTL

\* run-optimization.use-case.ts:45: whatever stalls, retries and restarts do to
\* its job, no two runs compute one request.
THEOREM OneRunPerRequest == Spec => []ClaimIsExclusive
  <1>1. Custody => ClaimIsExclusive
    <2> SUFFICES ASSUME Custody, NEW w \in Workers, Holds(w)
                 PROVE  /\ Status(w) \in {"RUNNING", "deleted"} \/ worker[w].req \in struck
                        /\ \A v \in Workers : Holds(v) /\ worker[v].req = worker[w].req => v = w
      BY DEF ClaimIsExclusive
    <2>1. worker[w].req \in Requests
      BY DEF Custody, TypeOK
    <2>2. ASSUME worker[w].req \notin struck
          PROVE  Status(w) \in {"RUNNING", "deleted"}
      <3>1. RunsOn(w, worker[w].req) /\ Expected(w) = {"RUNNING"}
        BY DEF RunsOn, Holds, Expected
      <3> QED
        BY <2>1, <2>2, <3>1 DEF Custody, Quiet, Undisturbed, Status
    <2> QED
      BY <2>2 DEF Custody, Claims, Engaged
  <1> QED
    BY <1>1, CustodyAlways, PTL

\* A completed answer is announced at most once, and only when there is one.
THEOREM OneAnnouncement == Spec => []AnnouncedOnce
  <1>1. Custody => AnnouncedOnce
    BY DEF Custody, Answers, AnnouncedOnce
  <1> QED
    BY <1>1, CustodyAlways, PTL

\* No release, late claim or retry reopens a request that was answered or given
\* up; only after a fault outside the computation may one outcome replace the
\* other.
THEOREM OutcomesStand == Spec => FinishedIsFinal
  <1> DEFINE Stands == \A r \in Requests : row[r].status \in Finished =>
                         \/ row'[r].status \in {row[r].status, "deleted"}
                         \/ r \in struck /\ row'[r].status \in Finished
  <1>1. Custody /\ Next => Stands
    <2> SUFFICES ASSUME Custody, Next, NEW r \in Requests, row[r].status \in Finished
                 PROVE  \/ row'[r].status \in {row[r].status, "deleted"}
                        \/ r \in struck /\ row'[r].status \in Finished
      OBVIOUS
    <2> USE DEF Custody
    <2>1. CASE UNCHANGED row
      BY <2>1
    <2>2. CASE EraseAccount
      BY <2>2, ErasureWritten
    <2>3. ASSUME NEW a \in Askers, Create(a)
          PROVE  row'[r] = row[r]
      <3>1. ASSUME NEW q \in Requests, row[q].status = "absent",
                   row' = [row EXCEPT ![q].status = "PENDING", ![q].asked = asker[a].contents]
            PROVE  row'[r] = row[r]
        BY <3>1, CreationWritten DEF Finished
      <3> QED
        BY <2>3, <3>1 DEF Create
    <2>4. ASSUME NEW w \in Workers, WorkerStep(w) \/ WorkerFault(w)
          PROVE  \/ row'[r].status = row[r].status
                 \/ r \in struck /\ row'[r].status \in Finished
      <3>1. worker[w].req \in Requests
        BY DEF TypeOK
      <3>2. CASE r # worker[w].req
        BY <2>4, <3>2, RunStaysAside
      <3>3. ASSUME r = worker[w].req, RunsOn(w, r), Expected(w) \subseteq {"PENDING", "RUNNING"}
            PROVE  r \in struck
        BY <3>3 DEF Quiet, Undisturbed, Finished
      <3>4. CASE r = worker[w].req /\ (CompleteRequest(w) \/ BreakAfterCommit(w))
        <4>1. r \in struck
          <5>1. RunsOn(w, r) /\ Expected(w) = {"RUNNING"}
            BY <3>4 DEF CompleteRequest, BreakAfterCommit, RunsOn, Expected
          <5> QED
            BY <3>3, <3>4, <5>1
        <4>2. UNCHANGED row \/ WritesAnswer(w)
          BY <3>4 DEF CompleteRequest, BreakAfterCommit, WritesAnswer
        <4> QED
          BY <3>4, <4>1, <4>2, AnswerWritten DEF Finished
      <3>5. CASE r = worker[w].req /\ (FailRequest(w) \/ GiveUp(w))
        <4>1. r \in struck
          <5>1. RunsOn(w, r) /\ Expected(w) \subseteq {"PENDING", "RUNNING"}
            BY <3>5 DEF FailRequest, GiveUp, RunsOn, Expected
          <5> QED
            BY <3>3, <3>5, <5>1
        <4>2. \/ UNCHANGED row
              \/ \E status \in {"FAILED"} : row' = [row EXCEPT ![worker[w].req].status = status]
          BY <3>5 DEF FailRequest, GiveUp
        <4> QED
          BY <3>1, <3>5, <4>1, <4>2, StatusWritten DEF Finished
      <3>6. CASE r = worker[w].req /\ (Claim(w) \/ Release(w) \/ BookkeepingFails(w))
        <4>1. UNCHANGED row
          BY <3>6 DEF Claim, Release, BookkeepingFails, Status, Finished
        <4> QED
          BY <4>1
      <3>7. CASE \/ ReadRequest(w) \/ Compute(w) \/ Publish(w) \/ FinishJob(w) \/ ThrowJob(w)
                 \/ Break(w) \/ Die(w)
        BY <3>7 DEF ReadRequest, Compute, Publish, FinishJob, ThrowJob, Break, Die
      <3> QED
        BY <2>4, <3>2, <3>4, <3>5, <3>6, <3>7 DEF WorkerStep, WorkerFault
    <2>5. ASSUME NEW q \in Requests, GoStale(q) \/ Prune(q)
          PROVE  row'[r].status \in {row[r].status, "deleted"}
      <3>1. \A p \in Requests : row[p] \in RowType
        BY DEF TypeOK, Row, RowType
      <3>2. CASE GoStale(q)
        BY <3>1, <3>2 DEF GoStale, TypeOK, RowType
      <3>3. CASE Prune(q)
        BY <3>1, <3>3 DEF Prune, TypeOK, RowType
      <3> QED
        BY <2>5, <3>2, <3>3
    <2> QED
      BY <2>1, <2>2, <2>3, <2>4, <2>5, StepKinds
      DEF Enqueue, Take, FindStalled, LoseLock, ReleaseFailed
  <1>2. Custody /\ [Next]_vars => [Stands]_vars
    BY <1>1
  <1> QED
    BY <1>2, CustodyAlways, PTL DEF Spec, FinishedIsFinal
================================================================================
