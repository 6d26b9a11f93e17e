----------------------------- MODULE TripPromise -----------------------------
(***************************************************************************)
(* What a shopping trip promises to the rest of the system, without the    *)
(* requests, retries and row locks that keep the promise: the trip moves   *)
(* along its state machine, its lines change only while it is open, and    *)
(* its completion is announced at most once, with exactly the purchases    *)
(* the closed trip holds.  An announcement may be missing (a crash after   *)
(* the commit loses it); it is never early, doubled or out of date.        *)
(***************************************************************************)
EXTENDS Naturals, Sequences

CONSTANTS
    Items,      \* the lines of the trip
    Line        \* every value a line may take, a set of records with `bought'

VARIABLES
    status,     \* where the trip is in its state machine
    items,      \* the trip's lines
    published   \* the announcements made, oldest first

vars == <<status, items, published>>

IsOpen(s) == s \in {"ACTIVE", "PAUSED"}

\* The purchased lines, as an announcement lists them.
PurchasesOf(its) ==
    {[item |-> i, line |-> its[i]] : i \in {j \in Items : its[j].bought}}

Init ==
    /\ status = "ACTIVE"
    /\ items \in [Items -> {l \in Line : ~l.bought}]
    /\ published = << >>

\* Shop: lines change, in an open trip only.
Shop ==
    /\ IsOpen(status)
    /\ items' \in [Items -> Line]
    /\ UNCHANGED <<status, published>>

\* Move: an open trip pauses, resumes or closes; a closed one stays closed.
Move ==
    /\ IsOpen(status)
    /\ status' \in {"ACTIVE", "PAUSED", "COMPLETED", "ABANDONED"} \ {status}
    /\ UNCHANGED <<items, published>>

\* Announce: a completed trip is announced once, as it stands.
Announce ==
    /\ status = "COMPLETED"
    /\ published = << >>
    /\ published' = <<PurchasesOf(items)>>
    /\ UNCHANGED <<status, items>>

Next == Shop \/ Move \/ Announce

Spec == Init /\ [][Next]_vars
=============================================================================
