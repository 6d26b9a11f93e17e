------------------------- MODULE OptimizationRequest -------------------------
(***************************************************************************)
(* Asking where to buy a list, and the worker that answers: the HTTP       *)
(* requests that fingerprint the list and reuse or create a request, the   *)
(* job queued for each request, and the runs that claim, compute, release  *)
(* and give up.                                                            *)
(*                                                                         *)
(* The settings of a question are stored with it and never change, so a    *)
(* question differs from another here only by the contents of the list,    *)
(* which its owner edits meanwhile.                                        *)
(***************************************************************************)
EXTENDS BullJob

CONSTANTS
    Requests,   \* optimization_requests rows that may ever be created
    Askers,     \* concurrent POST .../optimize requests
    Contents,   \* contents the list may have
    NoContents, \* a list that is gone, or an answer not yet computed
    MaxFaults   \* bound on failures

ASSUME OptimizationAssumption ==
    NoContents \notin Contents /\ MaxFaults \in Nat /\ Requests # {}

VARIABLES
    list,       \* what is on the shopping list
    row,        \* optimization_requests
    job,        \* the job run-optimization-<id> of each request
    asker,      \* the HTTP requests in flight
    worker,     \* executions of OptimizationProcessor.handle
    announced,  \* OptimizationCompleted events published for each request
    struck,     \* requests hit by a fault outside the computation
    faults      \* faults left

vars == <<list, row, job, asker, worker, announced, struck, faults>>

Finished == {"COMPLETED", "FAILED"}

\* `asked' is what the fingerprint covers, `answer' what the result was computed
\* from, and `fresh' tells a completion within REUSABLE_FOR_MS.
Row ==
    {r \in [status : {"absent", "PENDING", "RUNNING", "COMPLETED", "FAILED", "deleted"},
           asked  : Contents \cup {NoContents},
           answer : Contents \cup {NoContents},
           fresh  : BOOLEAN] :
       r.status = "COMPLETED" => r.answer # NoContents}

AnyRequest == CHOOSE r \in Requests : TRUE

AtRest == [pc |-> "idle", contents |-> NoContents, req |-> AnyRequest]
Resting == [pc |-> "idle", req |-> AnyRequest, seen |-> NoContents, last |-> FALSE]

TypeOK ==
    /\ list \in Contents \cup {NoContents}
    /\ row \in [Requests -> Row]
    /\ job \in [Requests -> Job]
    /\ asker \in [Askers -> [pc : {"idle", "find", "create", "enqueue", "reused"},
                             contents : Contents \cup {NoContents},
                             req : Requests]]
    /\ worker \in [Workers ->
                     [pc : {"idle", "read", "claim", "list", "fail", "complete", "publish",
                            "return", "release", "giveUp", "throw"},
                      req : Requests,
                      seen : Contents \cup {NoContents},
                      last : BOOLEAN]]
    /\ announced \in [Requests -> Nat]
    /\ struck \subseteq Requests
    /\ faults \in 0 .. MaxFaults

Init ==
    /\ list \in Contents
    /\ row = [r \in Requests |-> [status |-> "absent", asked |-> NoContents,
                                  answer |-> NoContents, fresh |-> FALSE]]
    /\ job = [r \in Requests |-> NoJob]
    /\ asker = [a \in Askers |-> AtRest]
    /\ worker = [w \in Workers |-> Resting]
    /\ announced = [r \in Requests |-> 0]
    /\ struck = {}
    /\ faults = MaxFaults

Spend == faults > 0 /\ faults' = faults - 1

-----------------------------------------------------------------------------
(***************************************************************************)
(* The owner of the list.                                                  *)
(***************************************************************************)
EditList(contents) ==
    /\ list # NoContents /\ contents # list
    /\ list' = contents
    /\ UNCHANGED <<row, job, asker, worker, announced, struck, faults>>

DeleteList ==
    /\ list # NoContents
    /\ list' = NoContents
    /\ UNCHANGED <<row, job, asker, worker, announced, struck, faults>>

\* Erasing the account deletes the list and every request.  With no request it
\* is DeleteList.
EraseAccount ==
    /\ \E r \in Requests : row[r].status \notin {"absent", "deleted"}
    /\ list' = NoContents
    /\ row' = [r \in Requests |->
                 IF row[r].status = "absent" THEN row[r] ELSE [row[r] EXCEPT !.status = "deleted"]]
    /\ UNCHANGED <<job, asker, worker, announced, struck, faults>>

-----------------------------------------------------------------------------
(***************************************************************************)
(* RequestOptimizationUseCase.                                             *)
(***************************************************************************)
\* The list is loaded and its question fingerprinted.
Ask(a) ==
    /\ asker[a].pc = "idle" /\ list # NoContents
    /\ asker' = [asker EXCEPT ![a] = [AtRest EXCEPT !.pc = "find", !.contents = list]]
    /\ UNCHANGED <<list, row, job, worker, announced, struck, faults>>

\* The rows of a deleted list no longer name it.
Reusable(contents) ==
    {r \in Requests : /\ list # NoContents
                      /\ row[r].status = "COMPLETED" /\ row[r].asked = contents
                      /\ row[r].fresh}

\* A recent answer to the same question comes back at once.
FindReusable(a) ==
    /\ asker[a].pc = "find"
    /\ \/ \E r \in Reusable(asker[a].contents) :
            asker' = [asker EXCEPT ![a].pc = "reused", ![a].req = r]
       \/ /\ Reusable(asker[a].contents) = {}
          /\ asker' = [asker EXCEPT ![a].pc = "create"]
    /\ UNCHANGED <<list, row, job, worker, announced, struck, faults>>

\* A new PENDING row, whose foreign key refuses a list that is gone.  The
\* OptimizationRequested event has no subscriber.
Create(a) ==
    /\ asker[a].pc = "create"
    /\ \/ \E r \in Requests :
            /\ list # NoContents /\ row[r].status = "absent"
            /\ row' = [row EXCEPT ![r].status = "PENDING", ![r].asked = asker[a].contents]
            /\ asker' = [asker EXCEPT ![a].pc = "enqueue", ![a].req = r]
       \/ list = NoContents /\ asker' = [asker EXCEPT ![a] = AtRest] /\ UNCHANGED row
    /\ UNCHANGED <<list, job, worker, announced, struck, faults>>

Enqueue(a) ==
    /\ asker[a].pc = "enqueue"
    /\ job' = [job EXCEPT ![asker[a].req] = Added(@)]
    /\ asker' = [asker EXCEPT ![a] = AtRest]
    /\ UNCHANGED <<list, row, worker, announced, struck, faults>>

\* The answer is sent.
Leave(a) ==
    /\ asker[a].pc = "reused"
    /\ asker' = [asker EXCEPT ![a] = AtRest]
    /\ UNCHANGED <<list, row, job, worker, announced, struck, faults>>

\* The process dies or a store is unreachable; a row already created has no job.
AskerDies(a) ==
    /\ asker[a].pc # "idle" /\ Spend
    /\ struck' = IF asker[a].pc = "enqueue" THEN struck \cup {asker[a].req} ELSE struck
    /\ asker' = [asker EXCEPT ![a] = AtRest]
    /\ UNCHANGED <<list, row, job, worker, announced>>

-----------------------------------------------------------------------------
(***************************************************************************)
(* RunOptimizationUseCase, inside OptimizationProcessor.handle.            *)
(***************************************************************************)
Go(w, pc) == worker' = [worker EXCEPT ![w].pc = pc]

\* An attempt starts, knowing how many were made before it.
Take(w, r) ==
    /\ worker[w].pc = "idle" /\ job[r].state = "waiting"
    /\ job' = [job EXCEPT ![r] = Taken(@, w)]
    /\ worker' = [worker EXCEPT ![w] =
         [pc |-> "read", req |-> r, seen |-> NoContents, last |-> job[r].tries + 1 >= Attempts]]
    /\ UNCHANGED <<list, row, asker, announced, struck, faults>>

Status(w) == row[worker[w].req].status

ReadRequest(w) ==
    /\ worker[w].pc = "read"
    /\ Go(w, IF Status(w) = "PENDING" THEN "claim" ELSE "return")
    /\ UNCHANGED <<list, row, job, asker, announced, struck, faults>>

\* A claim that trusts the read before it.
ClaimUnconditionally(w) ==
    /\ worker[w].pc = "claim"
    /\ row' = [row EXCEPT ![worker[w].req].status = "RUNNING"]
    /\ Go(w, "list")
    /\ UNCHANGED <<list, job, asker, announced, struck, faults>>

\* The claim, conditional on the row still being PENDING.
Claim(w) ==
    /\ worker[w].pc = "claim"
    /\ \/ /\ Status(w) = "PENDING"
          /\ row' = [row EXCEPT ![worker[w].req].status = "RUNNING"]
          /\ Go(w, "list")
       \/ /\ Status(w) # "PENDING"
          /\ Go(w, "return")
          /\ UNCHANGED row
    /\ UNCHANGED <<list, job, asker, announced, struck, faults>>

\* A deleted list answered as an empty one.
ComputeFromNothing(w) ==
    /\ worker[w].pc = "list"
    /\ worker' = [worker EXCEPT ![w].pc = "complete", ![w].seen = list]
    /\ UNCHANGED <<list, row, job, asker, announced, struck, faults>>

\* The list is read again and the answer computed from it; a deleted list
\* cannot be answered.
Compute(w) ==
    /\ worker[w].pc = "list"
    /\ worker' = [worker EXCEPT ![w].pc = IF list = NoContents THEN "fail" ELSE "complete",
                                ![w].seen = list]
    /\ UNCHANGED <<list, row, job, asker, announced, struck, faults>>

Deleted(w) == Status(w) = "deleted"

\* Answers the row with what was computed; an update of a row that is gone throws.
CompleteRequest(w) ==
    /\ worker[w].pc = "complete"
    /\ \/ /\ ~Deleted(w)
          /\ row' = [row EXCEPT ![worker[w].req].status = "COMPLETED",
                                ![worker[w].req].answer = worker[w].seen,
                                ![worker[w].req].fresh = TRUE]
          /\ Go(w, "publish")
       \/ Deleted(w) /\ Go(w, "release") /\ UNCHANGED row
    /\ UNCHANGED <<list, job, asker, announced, struck, faults>>

FailRequest(w) ==
    /\ worker[w].pc = "fail"
    /\ \/ /\ ~Deleted(w)
          /\ row' = [row EXCEPT ![worker[w].req].status = "FAILED"]
          /\ Go(w, "return")
       \/ Deleted(w) /\ Go(w, "release") /\ UNCHANGED row
    /\ UNCHANGED <<list, job, asker, announced, struck, faults>>

Publish(w) ==
    /\ worker[w].pc = "publish"
    /\ announced' = [announced EXCEPT ![worker[w].req] = @ + 1]
    /\ Go(w, "return")
    /\ UNCHANGED <<list, row, job, asker, struck, faults>>

FinishJob(w) ==
    /\ worker[w].pc = "return"
    /\ job' = [job EXCEPT ![worker[w].req] = Done(@, w)]
    /\ worker' = [worker EXCEPT ![w] = Resting]
    /\ UNCHANGED <<list, row, asker, announced, struck, faults>>

\* After a failed attempt: nobody gives the request up.
CaughtForever(w) == "throw"

\* After a failed attempt: the last one gives the request up.
Caught(w) == IF worker[w].last THEN "giveUp" ELSE "throw"

\* A release whatever the row's status.
ReleaseUnconditionally(w) ==
    /\ worker[w].pc = "release"
    /\ row' = [row EXCEPT ![worker[w].req].status = "PENDING"]
    /\ Go(w, Caught(w))
    /\ UNCHANGED <<list, job, asker, announced, struck, faults>>

\* The claim is given back.
Release(w) ==
    /\ worker[w].pc = "release"
    /\ row' = IF Status(w) = "RUNNING"
              THEN [row EXCEPT ![worker[w].req].status = "PENDING"] ELSE row
    /\ Go(w, Caught(w))
    /\ UNCHANGED <<list, job, asker, announced, struck, faults>>

GiveUp(w) ==
    /\ worker[w].pc = "giveUp"
    /\ row' = IF Deleted(w) THEN row ELSE [row EXCEPT ![worker[w].req].status = "FAILED"]
    /\ Go(w, "throw")
    /\ UNCHANGED <<list, job, asker, announced, struck, faults>>

ThrowJob(w) ==
    /\ worker[w].pc = "throw"
    /\ job' = [job EXCEPT ![worker[w].req] = Threw(@, w)]
    /\ worker' = [worker EXCEPT ![w] = Resting]
    /\ UNCHANGED <<list, row, asker, announced, struck, faults>>

-----------------------------------------------------------------------------
(***************************************************************************)
(* Failures.                                                               *)
(***************************************************************************)
\* A database call or the computation fails and changes nothing.
Break(w) ==
    /\ Spend
    /\ \/ worker[w].pc \in {"read", "claim"} /\ Go(w, Caught(w))
       \/ worker[w].pc \in {"list", "fail", "complete"} /\ Go(w, "release")
    /\ UNCHANGED <<list, row, job, asker, announced, struck>>

Strike(w) == struck' = struck \cup {worker[w].req}

\* The write of the answer commits and its acknowledgement is lost.
BreakAfterCommit(w) ==
    /\ worker[w].pc = "complete" /\ ~Deleted(w) /\ Spend
    /\ row' = [row EXCEPT ![worker[w].req].status = "COMPLETED",
                          ![worker[w].req].answer = worker[w].seen,
                          ![worker[w].req].fresh = TRUE]
    /\ Go(w, "release")
    /\ Strike(w)
    /\ UNCHANGED <<list, job, asker, announced>>

\* A claim commits unacknowledged, or a claim cannot be given back or given up.
BookkeepingFails(w) ==
    /\ Spend
    /\ \/ worker[w].pc = "release" /\ Go(w, Caught(w)) /\ UNCHANGED row
       \/ worker[w].pc = "giveUp" /\ Go(w, "throw") /\ UNCHANGED row
       \/ /\ worker[w].pc = "claim" /\ Status(w) = "PENDING"
          /\ row' = [row EXCEPT ![worker[w].req].status = "RUNNING"]
          /\ Go(w, Caught(w))
    /\ Strike(w)
    /\ UNCHANGED <<list, job, asker, announced>>

Die(w) ==
    /\ worker[w].pc # "idle" /\ Spend
    /\ worker' = [worker EXCEPT ![w] = Resting]
    /\ Strike(w)
    /\ UNCHANGED <<list, row, job, asker, announced>>

\* Whether the worker that holds the job still runs it.
HolderRuns(r) ==
    LET w == job[r].holder IN worker[w].pc # "idle" /\ worker[w].req = r

FindStalled(r) ==
    /\ job[r].state = "active" /\ ~HolderRuns(r)
    /\ job' = [job EXCEPT ![r] = Stalled(@)]
    /\ UNCHANGED <<list, row, asker, worker, announced, struck, faults>>

LoseLock(r) ==
    /\ job[r].state = "active" /\ HolderRuns(r) /\ Spend
    /\ job' = [job EXCEPT ![r] = Stalled(@)]
    /\ struck' = struck \cup {r}
    /\ UNCHANGED <<list, row, asker, worker, announced>>

ReleaseFailed(r) ==
    /\ job[r].state = "failed"
    /\ job' = [job EXCEPT ![r] = NoJob]
    /\ UNCHANGED <<list, row, asker, worker, announced, struck, faults>>

(***************************************************************************)
(* Time.                                                                   *)
(***************************************************************************)
GoStale(r) ==
    /\ row[r].status = "COMPLETED" /\ row[r].fresh
    /\ row' = [row EXCEPT ![r].fresh = FALSE]
    /\ UNCHANGED <<list, job, asker, worker, announced, struck, faults>>

\* Retention, long after the last run of a request.
Prune(r) ==
    /\ row[r].status \in Finished /\ ~row[r].fresh
    /\ \A w \in Workers : worker[w].pc = "idle" \/ worker[w].req # r
    /\ row' = [row EXCEPT ![r].status = "deleted"]
    /\ UNCHANGED <<list, job, asker, worker, announced, struck, faults>>

-----------------------------------------------------------------------------
AskerStep(a) == FindReusable(a) \/ Create(a) \/ Enqueue(a) \/ Leave(a)
WorkerStep(w) ==
    \/ ReadRequest(w) \/ Claim(w) \/ Compute(w) \/ CompleteRequest(w) \/ FailRequest(w)
    \/ Publish(w) \/ FinishJob(w) \/ Release(w) \/ GiveUp(w) \/ ThrowJob(w)
WorkerFault(w) == Break(w) \/ BreakAfterCommit(w) \/ BookkeepingFails(w) \/ Die(w)

Next ==
    \/ \E contents \in Contents : EditList(contents)
    \/ DeleteList \/ EraseAccount
    \/ \E a \in Askers : Ask(a) \/ AskerStep(a) \/ AskerDies(a)
    \/ \E w \in Workers, r \in Requests : Take(w, r)
    \/ \E w \in Workers : WorkerStep(w) \/ WorkerFault(w)
    \/ \E r \in Requests :
         FindStalled(r) \/ LoseLock(r) \/ ReleaseFailed(r) \/ GoStale(r) \/ Prune(r)

Spec == Init /\ [][Next]_vars

\* The server finishes what it was asked, the queue hands out and recovers
\* jobs, and a worker keeps working.
FairSpec ==
    /\ Spec
    /\ \A a \in Askers : WF_vars(AskerStep(a))
    /\ \A w \in Workers : WF_vars(WorkerStep(w))
    /\ \A r \in Requests : /\ WF_vars(\E w \in Workers : Take(w, r))
                           /\ WF_vars(FindStalled(r))

(***************************************************************************)
(* Properties.                                                             *)
(***************************************************************************)
\* A run between its claim and its release or answer.
Holds(w) == worker[w].pc \in {"list", "fail", "complete"}

\* run-optimization.use-case.ts:45: a duplicated job finds nothing to do.  No
\* two runs compute one request, whatever stalls, retries and restarts do to
\* its job, and short of a lost lock the row says RUNNING (or is gone with its
\* account) meanwhile.
ClaimIsExclusive ==
    \A w \in Workers : Holds(w) =>
        /\ Status(w) \in {"RUNNING", "deleted"} \/ worker[w].req \in struck
        /\ \A v \in Workers : Holds(v) /\ worker[v].req = worker[w].req => v = w

\* A request that was answered or given up is never worked on again: no
\* release and no late claim reopens it.  Only after a lost acknowledgement or
\* a lost lock may one outcome replace the other.
FinishedIsFinal ==
    [][\A r \in Requests : row[r].status \in Finished =>
          \/ row'[r].status \in {row[r].status, "deleted"}
          \/ r \in struck /\ row'[r].status \in Finished]_vars

\* A completed answer is announced at most once, and only then.
AnnouncedOnce ==
    \A r \in Requests :
        /\ announced[r] <= 1
        /\ announced[r] = 1 => row[r].answer # NoContents

\* A request is answered or given up, whatever its computation runs into, as
\* long as the process lives and the bookkeeping around it works.
EveryRequestIsAnswered ==
    \A r \in Requests :
        row[r].status = "PENDING" ~> (row[r].status \in Finished \cup {"deleted"} \/ r \in struck)

\* optimization.queue.ts:118 has the shopper told rather than left watching a
\* spinner forever.  A run that dies holding its claim leaves the row RUNNING,
\* where every retry takes it for another run's work.
NoSpinnerForever ==
    \A r \in Requests :
        row[r].status = "RUNNING" ~> row[r].status \in Finished \cup {"deleted"}

\* README.md:384 has an identical question, same list contents, reuse a
\* completed answer.  The worker reads the list again, so an answer may be
\* stored under the fingerprint of contents it was not computed from.
ReusedAnswerFits ==
    \A a \in Askers : asker[a].pc = "reused" =>
        row[asker[a].req].answer = asker[a].contents
=============================================================================
