----------------------------- MODULE MCExecutions -----------------------------
(***************************************************************************)
(* Executions that overlap on one row: the imports of a day, the           *)
(* deliveries of a message, the writes to a line of a trip.  They share no *)
(* state; focus says which moves.                                          *)
(***************************************************************************)
EXTENDS SourceImport, NotificationDelivery, ShoppingSession, TLC

VARIABLE focus

all == <<importVars, deliveryVars, vars, focus>>

Symmetry == Permutations(Catalog)

\* What does not move starts in one state only.
ExecutionsInit ==
    /\ focus \in {"imports", "delivery", "trip"}
    /\ ImportInit /\ (focus = "imports" \/ link = Unread)
    /\ DeliveryInit /\ (focus = "delivery" \/ deliveryJob = NoJob)
    /\ Init

ExecutionsNext ==
    \/ focus = "imports" /\ ImportNext /\ UNCHANGED <<deliveryVars, vars, focus>>
    \/ focus = "delivery" /\ DeliveryNext /\ UNCHANGED <<importVars, vars, focus>>
    \/ focus = "trip" /\ Next /\ UNCHANGED <<importVars, deliveryVars, focus>>

ExecutionsSpec == ExecutionsInit /\ [][ExecutionsNext]_all

\* Imports and deliveries keep to the types of their state.
ExecutionsTypeOK ==
    /\ focus = "imports" => ImportTypeOK
    /\ focus = "delivery" => DeliveryTypeOK
=============================================================================
