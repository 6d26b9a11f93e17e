--------------------------- MODULE ShoppingSession ---------------------------
(***************************************************************************)
(* One shopping trip of shopping-sessions: the requests that change its    *)
(* status, the requests that tick off its lines, and the event its         *)
(* completion publishes.                                                   *)
(*                                                                         *)
(* A request is a process.  Each of its awaits is a step boundary, so two  *)
(* requests interleave wherever the event loop (or a second instance) may  *)
(* let them; a database transaction that takes the trip's row lock is one  *)
(* step.  Any request may die between two of its steps.                    *)
(***************************************************************************)
EXTENDS Integers, Sequences

CONSTANTS
    Items,        \* the lines of the trip
    Changers,     \* concurrent pause / resume / complete / abandon requests
    Writers,      \* concurrent line updates
    Prices,       \* actual unit prices a shopper may type
    NoPrice,      \* actualUnitPriceCents = null
    Keep,         \* a field the request leaves out
    MaxAttempts,  \* ChangeSessionStatusUseCase.MAX_ATTEMPTS
    StartedAt,    \* when the trip started, on the model's clock
    Skew,         \* CLOCK_SKEW_TOLERANCE_MS, in ticks of the model's clock
    Reported,     \* purchase times a phone may report
    MaxClock      \* bound on the model's clock

NoTime == 0       \* a timestamp that is null, or left out of a request

ASSUME ConstantsAssumption ==
    /\ Items # {}
    /\ NoPrice \notin Prices
    /\ Keep \notin Prices \cup {NoPrice}
    /\ MaxAttempts \in Nat \ {0}
    /\ StartedAt \in Nat \ {NoTime}
    /\ Skew \in Nat
    /\ Reported \subseteq Nat
    /\ MaxClock \in Nat

VARIABLES
    status,     \* shopping_sessions.status
    stamps,     \* which of pausedAt, completedAt, abandonedAt are set
    items,      \* shopping_session_items
    changer,    \* the status requests in flight
    writer,     \* the line updates in flight
    published,  \* ShoppingSessionCompleted events published, oldest first
    lost,       \* a request died holding an event it had yet to publish
    clock       \* the server's clock

vars == <<status, stamps, items, changer, writer, published, lost, clock>>

Status == {"ACTIVE", "PAUSED", "COMPLETED", "ABANDONED"}
Verbs == {"pause", "resume", "complete", "abandon"}
Stamps == {"pausedAt", "completedAt", "abandonedAt"}
Line == [paid : Prices \cup {NoPrice}, bought : BOOLEAN, at : Nat]

(***************************************************************************)
(* The state machine.                                                      *)
(***************************************************************************)
IsOpen(s) == s \in {"ACTIVE", "PAUSED"}

Target == [pause |-> "PAUSED", resume |-> "ACTIVE",
           complete |-> "COMPLETED", abandon |-> "ABANDONED"]

AllowedFrom == [pause |-> {"ACTIVE"}, resume |-> {"PAUSED"},
                complete |-> {"ACTIVE", "PAUSED"},
                abandon |-> {"ACTIVE", "PAUSED"}]

DecideTransition(current, verb) ==
    IF current = Target[verb] THEN "replay"
    ELSE IF current \in AllowedFrom[verb] THEN "transition"
    ELSE "rejected"

\* A completion that forgets it may start from a pause.
ChangeForKeepingPause(verb, set) ==
    CASE verb = "pause"    -> set \cup {"pausedAt"}
      [] verb = "resume"   -> set \ {"pausedAt"}
      [] verb = "complete" -> set \cup {"completedAt"}
      [] verb = "abandon"  -> (set \ {"pausedAt"}) \cup {"abandonedAt"}

\* The timestamps left set by a status change: pausedAt is cleared by every
\* change but a pause.
ChangeFor(verb, set) ==
    CASE verb = "pause"    -> set \cup {"pausedAt"}
      [] verb = "resume"   -> set \ {"pausedAt"}
      [] verb = "complete" -> (set \ {"pausedAt"}) \cup {"completedAt"}
      [] verb = "abandon"  -> (set \ {"pausedAt"}) \cup {"abandonedAt"}

(***************************************************************************)
(* Line updates.  The quantity of a line is an absolute value treated      *)
(* exactly as its price is, and is left out.                               *)
(***************************************************************************)
Commands == [item : Items,
             paid : Prices \cup {NoPrice, Keep},
             buy  : {"keep", "yes", "no"},
             at   : Reported \cup {NoTime}]

\* A phone whose clock runs ahead is believed.
ResolveTrustingFuture(reported, now) ==
    IF reported = NoTime \/ reported < StartedAt THEN now ELSE reported

\* A time before the trip, or too far ahead, is a broken clock.
ResolvePurchasedAt(reported, now) ==
    IF reported = NoTime \/ reported < StartedAt \/ reported > now + Skew
    THEN now ELSE reported

\* The moment of purchase a command writes, from the line as it was read.
MomentOf(read, cmd, now) ==
    IF read.bought /\ read.at # NoTime /\ cmd.at = NoTime
    THEN read.at ELSE ResolvePurchasedAt(cmd.at, now)

Updated(line, cmd, moment) ==
    [paid   |-> IF cmd.paid = Keep THEN line.paid ELSE cmd.paid,
     bought |-> IF cmd.buy = "keep" THEN line.bought ELSE cmd.buy = "yes",
     at     |-> CASE cmd.buy = "yes"  -> moment
                  [] cmd.buy = "no"   -> NoTime
                  [] cmd.buy = "keep" -> line.at]

\* What a closed trip answers to a replay of what it already holds.
ChangesNothing(line, cmd) ==
    /\ cmd.paid \in {Keep, line.paid}
    /\ cmd.buy = "keep" \/ line.bought = (cmd.buy = "yes")

PurchasesOf(its) ==
    {[item |-> i, line |-> its[i]] : i \in {j \in Items : its[j].bought}}

-----------------------------------------------------------------------------
Idle == [pc |-> "idle", verb |-> "pause", attempt |-> 0,
         seen |-> "ACTIVE", purchases |-> {}]

NoCommand == [item |-> CHOOSE i \in Items : TRUE, paid |-> Keep,
              buy |-> "keep", at |-> NoTime]

Resting == [pc |-> "idle", cmd |-> NoCommand, moment |-> NoTime]

TypeOK ==
    /\ status \in Status
    /\ stamps \subseteq Stamps
    /\ items \in [Items -> Line]
    /\ changer \in [Changers ->
                      [pc        : {"idle", "decide", "write", "publish"},
                       verb      : Verbs,
                       attempt   : 0 .. MaxAttempts - 1,
                       seen      : Status,
                       purchases : SUBSET [item : Items, line : Line]]]
    /\ writer \in [Writers -> [pc     : {"idle", "load", "write", "recheck", "replayed"},
                               cmd    : Commands,
                               moment : Nat]]
    /\ published \in Seq(SUBSET [item : Items, line : Line])
    /\ lost \in BOOLEAN
    /\ clock \in Nat

Init ==
    /\ status = "ACTIVE"
    /\ stamps = {}
    /\ items = [i \in Items |-> [paid |-> NoPrice, bought |-> FALSE, at |-> NoTime]]
    /\ changer = [c \in Changers |-> Idle]
    /\ writer = [w \in Writers |-> Resting]
    /\ published = << >>
    /\ lost = FALSE
    /\ clock = StartedAt

(***************************************************************************)
(* Pause, resume, complete and abandon.                                    *)
(***************************************************************************)
RequestChange(c, verb) ==
    /\ changer[c].pc = "idle"
    /\ changer' = [changer EXCEPT ![c] =
                     [Idle EXCEPT !.pc = "decide", !.verb = verb]]
    /\ UNCHANGED <<status, stamps, items, writer, published, lost, clock>>

\* The trip is loaded and the transition decided from what was read; a
\* replay succeeds and a contradiction is refused, both without a write.
Decide(c) ==
    /\ changer[c].pc = "decide"
    /\ changer' = [changer EXCEPT ![c] =
         IF DecideTransition(status, changer[c].verb) = "transition"
         THEN [@ EXCEPT !.pc = "write", !.seen = status]
         ELSE Idle]
    /\ UNCHANGED <<status, stamps, items, writer, published, lost, clock>>

\* A completion that won only after a retry forgets the event.
AfterWriteSilently(req, its) ==
    IF req.verb = "complete" /\ req.attempt = 0
    THEN [req EXCEPT !.pc = "publish", !.purchases = PurchasesOf(its)]
    ELSE Idle

\* A request whose write took effect has the event to send when it completed
\* the trip, from the lines read back in the same transaction.
AfterWrite(req, its) ==
    IF req.verb = "complete"
    THEN [req EXCEPT !.pc = "publish", !.purchases = PurchasesOf(its)]
    ELSE Idle

\* A retry that is not counted.
NextAttemptUncounted(req) == [req EXCEPT !.pc = "decide"]

\* One retry too many.
NextAttemptPastLast(req) ==
    IF req.attempt < MaxAttempts
    THEN [req EXCEPT !.pc = "decide", !.attempt = @ + 1]
    ELSE Idle

\* A request whose write lost decides again, MAX_ATTEMPTS times in all.
NextAttempt(req) ==
    IF req.attempt + 1 < MaxAttempts
    THEN [req EXCEPT !.pc = "decide", !.attempt = @ + 1]
    ELSE Idle

\* The write no longer conditional on the status it was decided from.
ApplyUnconditionally(c) ==
    /\ changer[c].pc = "write"
    /\ status' = Target[changer[c].verb]
    /\ stamps' = ChangeFor(changer[c].verb, stamps)
    /\ changer' = [changer EXCEPT ![c] = AfterWrite(@, items)]
    /\ UNCHANGED <<items, writer, published, lost, clock>>

\* The conditional write: under the row lock, a trip still where it was read
\* moves.
Apply(c) ==
    /\ changer[c].pc = "write"
    /\ IF status = changer[c].seen
       THEN /\ status' = Target[changer[c].verb]
            /\ stamps' = ChangeFor(changer[c].verb, stamps)
            /\ changer' = [changer EXCEPT ![c] = AfterWrite(@, items)]
       ELSE /\ changer' = [changer EXCEPT ![c] = NextAttempt(@)]
            /\ UNCHANGED <<status, stamps>>
    /\ UNCHANGED <<items, writer, published, lost, clock>>

PublishCompleted(c) ==
    /\ changer[c].pc = "publish"
    /\ published' = Append(published, changer[c].purchases)
    /\ changer' = [changer EXCEPT ![c] = Idle]
    /\ UNCHANGED <<status, stamps, items, writer, lost, clock>>

\* The process serving the request dies.  What it committed stays.
Die(c) ==
    /\ changer[c].pc # "idle"
    /\ lost' = (lost \/ changer[c].pc = "publish")
    /\ changer' = [changer EXCEPT ![c] = Idle]
    /\ UNCHANGED <<status, stamps, items, writer, published, clock>>

(***************************************************************************)
(* Recording a line's progress.  A malformed quantity or price is refused  *)
(* before anything is written, and is not a command here.                  *)
(***************************************************************************)
RequestWrite(w, cmd) ==
    /\ writer[w].pc = "idle"
    /\ writer' = [writer EXCEPT ![w] = [Resting EXCEPT !.pc = "load", !.cmd = cmd]]
    /\ UNCHANGED <<status, stamps, items, changer, published, lost, clock>>

\* The trip and the line are read; an open trip gets an update computed from
\* the line as read, a closed one is read again.
LoadLine(w) ==
    /\ writer[w].pc = "load"
    /\ writer' = [writer EXCEPT ![w] =
         IF IsOpen(status)
         THEN [@ EXCEPT !.pc = "write",
                 !.moment = MomentOf(items[writer[w].cmd.item], writer[w].cmd, clock)]
         ELSE [@ EXCEPT !.pc = "recheck"]]
    /\ UNCHANGED <<status, stamps, items, changer, published, lost, clock>>

\* The write without the lock's check.
UpdateItemUnchecked(w) ==
    /\ writer[w].pc = "write"
    /\ items' = [items EXCEPT ![writer[w].cmd.item] =
                    Updated(@, writer[w].cmd, writer[w].moment)]
    /\ writer' = [writer EXCEPT ![w] = Resting]
    /\ UNCHANGED <<status, stamps, changer, published, lost, clock>>

\* Under the row lock, an open trip takes the update; a closed one refuses.
UpdateItemWhileOpen(w) ==
    /\ writer[w].pc = "write"
    /\ IF IsOpen(status)
       THEN /\ items' = [items EXCEPT ![writer[w].cmd.item] =
                           Updated(@, writer[w].cmd, writer[w].moment)]
            /\ writer' = [writer EXCEPT ![w] = Resting]
       ELSE /\ writer' = [writer EXCEPT ![w].pc = "recheck"]
            /\ UNCHANGED items
    /\ UNCHANGED <<status, stamps, changer, published, lost, clock>>

\* A closed trip acknowledges whatever it is sent.
RecheckNothing(w) ==
    /\ writer[w].pc = "recheck"
    /\ writer' = [writer EXCEPT ![w].pc = "replayed"]
    /\ UNCHANGED <<status, stamps, items, changer, published, lost, clock>>

\* A closed trip, read again: a replay of what it holds is acknowledged and
\* anything else is refused.
Recheck(w) ==
    /\ writer[w].pc = "recheck"
    /\ writer' = [writer EXCEPT ![w] =
         IF ChangesNothing(items[writer[w].cmd.item], writer[w].cmd)
         THEN [@ EXCEPT !.pc = "replayed"]
         ELSE Resting]
    /\ UNCHANGED <<status, stamps, items, changer, published, lost, clock>>

\* The answer to a replay reaches the phone, or the request dies unanswered.
Leave(w) ==
    /\ writer[w].pc # "idle"
    /\ writer' = [writer EXCEPT ![w] = Resting]
    /\ UNCHANGED <<status, stamps, items, changer, published, lost, clock>>

Tick ==
    /\ clock < MaxClock
    /\ clock' = clock + 1
    /\ UNCHANGED <<status, stamps, items, changer, writer, published, lost>>

-----------------------------------------------------------------------------
ChangerStep(c) == Decide(c) \/ Apply(c) \/ PublishCompleted(c)
WriterStep(w) == LoadLine(w) \/ UpdateItemWhileOpen(w) \/ Recheck(w)

Next ==
    \/ \E c \in Changers, verb \in Verbs : RequestChange(c, verb)
    \/ \E c \in Changers : ChangerStep(c) \/ Die(c)
    \/ \E w \in Writers, cmd \in Commands : RequestWrite(w, cmd)
    \/ \E w \in Writers : WriterStep(w) \/ Leave(w)
    \/ Tick

Spec == Init /\ [][Next]_vars

\* The server keeps working on a request it holds; nothing makes a shopper
\* send one, or a process die.
FairSpec == Spec /\ \A c \in Changers : WF_vars(ChangerStep(c))

(***************************************************************************)
(* Safety.                                                                 *)
(***************************************************************************)
\* change-session-status.use-case.ts says the event goes out exactly once and
\* that no purchase lands after its snapshot.  However completions and line
\* writes race, at most one request ever holds or has sent the event, only
\* for a completed trip, and the event lists what the trip holds for good.
CompletionIsFinal ==
    /\ \A c \in Changers : changer[c].pc = "publish" =>
          /\ status = "COMPLETED"
          /\ published = << >>
          /\ changer[c].purchases = PurchasesOf(items)
          /\ \A d \in Changers : changer[d].pc = "publish" => d = c
    /\ published # << >> =>
          /\ status = "COMPLETED"
          /\ published = <<PurchasesOf(items)>>

\* A write acknowledged as a replay on a closed trip asked for what the trip
\* holds, and still does when the answer arrives: the re-read saw the final
\* state, not the one the request started from.
ReplaysAreTrue ==
    \A w \in Writers : writer[w].pc = "replayed" =>
        /\ ~IsOpen(status)
        /\ ChangesNothing(items[writer[w].cmd.item], writer[w].cmd)

\* The timestamps tell the status: pausedAt is set exactly while paused, and
\* completedAt and abandonedAt exactly on a trip closed that way, whatever
\* path of pauses and retries led there.
StampsTellStatus ==
    stamps = CASE status = "ACTIVE"    -> {}
               [] status = "PAUSED"    -> {"pausedAt"}
               [] status = "COMPLETED" -> {"completedAt"}
               [] status = "ABANDONED" -> {"abandonedAt"}

\* A line has a moment of purchase exactly while it is bought, never before
\* the trip began and never further ahead of the server's clock than the
\* tolerance, although moments are computed from reads that may be stale.
MomentsAreSane ==
    \A i \in Items :
        /\ items[i].bought <=> items[i].at # NoTime
        /\ items[i].bought => items[i].at \in StartedAt .. (clock + Skew)

(***************************************************************************)
(* Liveness.                                                               *)
(***************************************************************************)
\* A status request is answered even while others keep moving the trip: the
\* retry loop of change-session-status.use-case.ts cannot spin.
EveryChangeIsAnswered ==
    \A c \in Changers : changer[c].pc # "idle" ~> changer[c].pc = "idle"

\* A completed trip is announced, unless the process died in the gap between
\* the commit and the publish that journeys/considerations.md CON-001 accepts.
CompletionIsAnnounced ==
    status = "COMPLETED" ~> (published # << >> \/ lost)

(***************************************************************************)
(* The promise the trip keeps.                                             *)
(***************************************************************************)
Promise == INSTANCE TripPromise
             WITH Items <- Items, Line <- Line,
                  status <- status, items <- items, published <- published
KeepsPromise == Promise!Spec
=============================================================================
