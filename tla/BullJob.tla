------------------------------- MODULE BullJob -------------------------------
(***************************************************************************)
(* A BullMQ job with a fixed jobId, as the queues of this system add it:   *)
(* a bounded number of attempts, removeOnComplete, and failures kept for   *)
(* an hour (removeOnFail).  BullMQ itself is outside the repository; only  *)
(* what the queues rely on is here.                                        *)
(***************************************************************************)
EXTENDS Naturals

CONSTANTS
    Workers,    \* the executions that may hold a job
    NoWorker,   \* nobody holds it
    Attempts    \* the `attempts' option

ASSUME JobAssumption ==
    /\ NoWorker \notin Workers
    /\ Attempts \in Nat \ {0}

MaxStalls == 1      \* maxStalledCount: a second stall fails the job

Job == [state : {"none", "waiting", "active", "failed"},
        tries  : 0 .. Attempts,
        stalls : 0 .. MaxStalls,
        holder : Workers \cup {NoWorker}]

NoJob == [state |-> "none", tries |-> 0, stalls |-> 0, holder |-> NoWorker]

\* queue.add: a jobId that is waiting, running or kept as failed is left as
\* it is.
Added(job) == IF job.state = "none" THEN [job EXCEPT !.state = "waiting"] ELSE job

Taken(job, w) == [job EXCEPT !.state = "active", !.holder = w]

\* The processor returned.  A worker that lost its lock changes nothing.
Done(job, w) == IF job.holder = w THEN NoJob ELSE job

\* The processor threw: the job backs off and waits, or its attempts are spent.
Threw(job, w) ==
    IF job.holder # w THEN job
    ELSE IF job.tries + 1 < Attempts
    THEN [job EXCEPT !.state = "waiting", !.holder = NoWorker, !.tries = @ + 1]
    ELSE [job EXCEPT !.state = "failed", !.holder = NoWorker, !.tries = @ + 1]

\* The lock of a running job was not renewed.
Stalled(job) ==
    IF job.stalls < MaxStalls
    THEN [job EXCEPT !.state = "waiting", !.holder = NoWorker, !.stalls = @ + 1]
    ELSE [job EXCEPT !.state = "failed", !.holder = NoWorker]
=============================================================================
