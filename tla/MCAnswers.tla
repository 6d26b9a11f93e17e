------------------------------- MODULE MCAnswers -------------------------------
(***************************************************************************)
(* What a worker owes a shopper: the answer to a request for a plan, and a *)
(* message that is delivered or given up.  They share no state; focus says *)
(* which of them moves, and fairness is each module's own.                 *)
(***************************************************************************)
EXTENDS MCOptimizationRequest, NotificationDelivery

VARIABLE focus

all == <<vars, deliveryVars, focus>>

\* What does not move starts in one state only.
AnswersInit ==
    /\ focus \in {"requests", "delivery"}
    /\ Init /\ (focus = "requests" \/ list = milk)
    /\ DeliveryInit /\ (focus = "delivery" \/ deliveryJob = NoJob)

\* One worker delivers, beside the sweep.
Alone == deliverer'[w2] = AtEase

AnswersNext ==
    \/ focus = "requests" /\ Next /\ UNCHANGED <<deliveryVars, focus>>
    \/ focus = "delivery" /\ DeliveryNext /\ Alone /\ UNCHANGED <<vars, focus>>

\* The fairness of OptimizationRequest's FairSpec; and time passes, the sweep runs
\* every five minutes and an execution goes on.  The delivery job is not relied on.
Requesting(A) == focus = "requests" /\ A
Delivering(A) == focus = "delivery" /\ A

AnswersFairSpec ==
    /\ AnswersInit /\ [][AnswersNext]_all
    /\ \A a \in Askers : WF_vars(Requesting(AskerStep(a)))
    /\ \A w \in Workers : WF_vars(Requesting(WorkerStep(w)))
    /\ \A r \in Requests : /\ WF_vars(Requesting(\E w \in Workers : Take(w, r)))
                           /\ WF_vars(Requesting(FindStalled(r)))
    /\ WF_deliveryVars(Delivering(NextHour))
    /\ WF_deliveryVars(Delivering(SweepFinds))
    /\ \A d \in Deliverers : WF_deliveryVars(Delivering(DeliverStep(d)))

\* Every message comes to rest: delivered or given up on, on every channel, or
\* gone with its account, whether its job was lost or spent its attempts, and for
\* good, though a slower delivery marks failed what another marked sent.
EveryMessageSettles == focus = "delivery" => <>[](message \in {"SENT", "GONE"})
=============================================================================
