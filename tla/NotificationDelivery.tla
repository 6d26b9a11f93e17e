------------------------- MODULE NotificationDelivery -------------------------
(***************************************************************************)
(* One message of one person, from its row to the channels: the delivery   *)
(* job and the sweep that covers for it, the ledger of what each channel   *)
(* did, the consents and the phone read for each attempt, retention and    *)
(* the deletion of the account.                                            *)
(***************************************************************************)
EXTENDS BullJob, Sequences, FiniteSets

CONSTANTS
    Sweeper,            \* the sweep, one pass at a time
    MaxChannelAttempts, \* MAX_CHANNEL_ATTEMPTS
    DueAt,              \* when the message may go out (deliverAt)
    MaxHour,            \* bound on the clock
    MaxEvents           \* bound on crashes and on what the person changes

ASSUME DeliveryAssumption ==
    /\ IsFiniteSet(Workers)
    /\ Sweeper \notin Workers \cup {NoWorker}
    /\ MaxChannelAttempts \in Nat \ {0}
    /\ DueAt \in Nat /\ MaxHour \in Nat
    /\ MaxEvents \in Nat

Deliverers == Workers \cup {Sweeper}

\* NOTIFICATION_CHANNELS, in order.
Channels == <<"in-app", "push", "email">>
ChannelNames == {"in-app", "push", "email"}

VARIABLES
    hour,           \* the clock
    message,        \* the status of the row in notifications, or GONE
    ledger,         \* for each channel, its row in notification_channel_deliveries
    deliveryJob,    \* the job deliver-notification-<id>
    deliverer,      \* executions of DeliverNotificationUseCase
    emailEnabled,   \* the person's consent to email
    phone,          \* whose account the phone's token belongs to
    misdirected,    \* copies that went where they should not
    emails,         \* copies of the email handed to the provider
    events          \* crashes and changes left

deliveryVars == <<hour, message, ledger, deliveryJob, deliverer, emailEnabled,
                  phone, misdirected, emails, events>>

NoDelivery == [sent |-> FALSE, attempts |-> 0, abandoned |-> FALSE]
NoPast == [c \in ChannelNames |-> NoDelivery]

AtEase == [pc |-> "idle", applies |-> {}, past |-> NoPast, next |-> 1,
           failed |-> FALSE, stale |-> FALSE]

DeliveryTypeOK ==
    /\ hour \in 0 .. MaxHour
    /\ message \in {"PENDING", "FAILED", "SENT", "GONE"}
    /\ ledger \in [ChannelNames ->
                     [sent : BOOLEAN, attempts : Nat, abandoned : BOOLEAN]]
    /\ deliveryJob \in Job
    /\ \A d \in Deliverers :
         /\ deliverer[d].pc \in {"idle", "find", "recipient", "history", "send", "ok", "bad", "mark"}
         /\ deliverer[d].applies \subseteq ChannelNames
         /\ deliverer[d].next \in 1 .. Len(Channels) + 1
    /\ emailEnabled \in BOOLEAN
    /\ phone \in {"holder", "other", "nobody"}
    /\ misdirected \subseteq {"push", "email"}
    /\ emails \in Nat
    /\ events \in 0 .. MaxEvents

\* The message as the alert stored it; its job was added, or the worker died
\* before adding it.
DeliveryInit ==
    /\ hour = 0
    /\ message = "PENDING"
    /\ ledger = NoPast
    /\ deliveryJob \in {NoJob, Added(NoJob)}
    /\ deliverer = [d \in Deliverers |-> AtEase]
    /\ emailEnabled = TRUE
    /\ phone = "holder"
    /\ misdirected = {}
    /\ emails = 0
    /\ events = MaxEvents

Due == hour >= DueAt
Unsent == message \in {"PENDING", "FAILED"}
Exists == message # "GONE"
Now(d) == Channels[deliverer[d].next]
Step(d, pc) == deliverer' = [deliverer EXCEPT ![d].pc = pc]
\* The next channel, with what was read for this one forgotten.
NextChannel(run, failed) ==
    LET channel == Channels[run.next] IN
    [run EXCEPT !.pc = "send", !.next = @ + 1, !.applies = @ \ {channel},
                !.past[channel] = NoDelivery, !.failed = @ \/ failed]
Onward(d, failed) ==
    deliverer' = [deliverer EXCEPT ![d] = NextChannel(@, failed)]
sends == <<misdirected, emails>>
Settings == UNCHANGED <<hour, emailEnabled, phone, events>>

-----------------------------------------------------------------------------
NextHour ==
    /\ hour < MaxHour
    /\ hour' = hour + 1
    /\ UNCHANGED <<message, ledger, deliveryJob, deliverer, emailEnabled, phone,
                   misdirected, emails, events>>

\* The job is delayed until the message is due.
TakeDelivery(w) ==
    /\ deliveryJob.state = "waiting" /\ Due /\ deliverer[w].pc = "idle"
    /\ deliveryJob' = Taken(deliveryJob, w)
    /\ Step(w, "find")
    /\ UNCHANGED <<message, ledger, sends>> /\ Settings

\* What the delivery job's processor is left with: the job is done.
EndDelivery(d) ==
    /\ deliveryJob' = Done(deliveryJob, d)
    /\ deliverer' = [deliverer EXCEPT ![d] = AtEase]

\* execute: a message that is gone, already sent or not due is left alone.
FindMessage(w) ==
    /\ deliverer[w].pc = "find"
    /\ \/ /\ Unsent /\ Due
          /\ Step(w, "recipient")
          /\ UNCHANGED deliveryJob
       \/ ~(Unsent /\ Due) /\ EndDelivery(w)
    /\ UNCHANGED <<message, ledger, sends>> /\ Settings

\* deliverDue: a pass of the sweep reaches this message.
SweepFinds ==
    /\ deliverer[Sweeper].pc = "idle"
    /\ Unsent /\ Due
    /\ Step(Sweeper, "recipient")
    /\ UNCHANGED <<message, ledger, deliveryJob, sends>> /\ Settings

\* recipientFor, and the channels whose appliesTo it satisfies.
ReadRecipient(d) ==
    /\ deliverer[d].pc = "recipient"
    /\ deliverer' = [deliverer EXCEPT ![d].pc = "history",
         ![d].applies = {"in-app"}
                        \cup (IF phone = "holder" THEN {"push"} ELSE {})
                        \cup (IF emailEnabled THEN {"email"} ELSE {})]
    /\ UNCHANGED <<message, ledger, deliveryJob, sends>> /\ Settings

\* The tries of this message, channel by channel, as it starts.
ReadHistory(d) ==
    /\ deliverer[d].pc = "history"
    /\ deliverer' = [deliverer EXCEPT ![d].pc = "send", ![d].past = ledger]
    /\ UNCHANGED <<message, ledger, deliveryJob, sends>> /\ Settings

\* Consent is not asked for.
PassedUnasked(d) == deliverer[d].past[Now(d)].sent

\* The channel does not apply, or is done with: sent on, or given up.
Passed(d) ==
    \/ Now(d) \notin deliverer[d].applies
    \/ deliverer[d].past[Now(d)].sent
    \/ deliverer[d].past[Now(d)].abandoned

SkipChannel(d) ==
    /\ deliverer[d].pc = "send" /\ deliverer[d].next <= Len(Channels)
    /\ Passed(d)
    /\ Onward(d, FALSE)
    /\ UNCHANGED <<message, ledger, deliveryJob, sends>> /\ Settings

\* A copy that goes to whoever holds the phone now, or to who has said no to
\* email, although the attempt could have known.
Astray(d) ==
    IF \/ deliverer[d].stale
       \/ Now(d) = "push" /\ phone # "other"
       \/ Now(d) = "email" /\ emailEnabled
       \/ Now(d) = "in-app"
    THEN {} ELSE {Now(d)}

\* channel.send: the in-app copy is the row itself and cannot fail; of a phone
\* that is gone, the token is forgotten and the send still succeeds.
SendOnChannel(d) ==
    /\ deliverer[d].pc = "send" /\ deliverer[d].next <= Len(Channels)
    /\ ~Passed(d)
    /\ \/ /\ Step(d, "ok")
          /\ misdirected' = misdirected \cup Astray(d)
          /\ emails' = IF Now(d) = "email" THEN emails + 1 ELSE emails
          /\ UNCHANGED phone
       \/ /\ Now(d) # "in-app"
          /\ Step(d, "bad")
          /\ UNCHANGED <<sends, phone>>
       \/ /\ Now(d) = "push"
          /\ Step(d, "ok")
          /\ phone' = "nobody"
          /\ UNCHANGED sends
    /\ UNCHANGED <<hour, emailEnabled, message, ledger, deliveryJob, events>>

\* A try is counted, and not that it went out.
RecordTry(d) ==
    /\ deliverer[d].pc = "ok"
    /\ IF Exists
       THEN /\ ledger' = [ledger EXCEPT ![Now(d)].attempts = @ + 1]
            /\ Onward(d, FALSE)
            /\ UNCHANGED deliveryJob
       ELSE EndDelivery(d) /\ UNCHANGED ledger
    /\ UNCHANGED <<message, sends>> /\ Settings

\* recordSent, unless the message was deleted meanwhile.
RecordSent(d) ==
    /\ deliverer[d].pc = "ok"
    /\ IF Exists
       THEN /\ ledger' = [ledger EXCEPT ![Now(d)].sent = TRUE, ![Now(d)].attempts = @ + 1]
            /\ Onward(d, FALSE)
            /\ UNCHANGED deliveryJob
       ELSE EndDelivery(d) /\ UNCHANGED ledger
    /\ UNCHANGED <<message, sends>> /\ Settings

\* A failure that is not counted, so that no channel is ever given up.
RecordFailureForever(d) ==
    /\ deliverer[d].pc = "bad"
    /\ IF Exists
       THEN Onward(d, TRUE) /\ UNCHANGED deliveryJob
       ELSE EndDelivery(d)
    /\ UNCHANGED <<message, ledger, sends>> /\ Settings

\* recordFailure: the tries are counted in the row, but whether this is the
\* last one is decided from the history read at the start.
RecordFailure(d) ==
    /\ deliverer[d].pc = "bad"
    /\ LET giveUp == deliverer[d].past[Now(d)].attempts + 1 >= MaxChannelAttempts IN
       IF Exists
       THEN /\ ledger' = [ledger EXCEPT ![Now(d)].attempts = @ + 1,
                                        ![Now(d)].abandoned = giveUp]
            /\ Onward(d, ~giveUp)
            /\ UNCHANGED deliveryJob
       ELSE EndDelivery(d) /\ UNCHANGED ledger
    /\ UNCHANGED <<message, sends>> /\ Settings

MarkSent(d) ==
    /\ deliverer[d].pc = "send" /\ deliverer[d].next > Len(Channels)
    /\ ~deliverer[d].failed
    /\ message' = IF Exists THEN "SENT" ELSE message
    /\ EndDelivery(d)
    /\ UNCHANGED <<ledger, sends>> /\ Settings

\* A channel may yet succeed: FAILED, and the job's attempt throws; the sweep
\* swallows the error.
MarkFailed(d) ==
    /\ deliverer[d].pc = "send" /\ deliverer[d].next > Len(Channels)
    /\ deliverer[d].failed
    /\ message' = IF Exists THEN "FAILED" ELSE message
    /\ deliveryJob' = Threw(deliveryJob, d)
    /\ deliverer' = [deliverer EXCEPT ![d] = AtEase]
    /\ UNCHANGED <<ledger, sends>> /\ Settings

-----------------------------------------------------------------------------
(***************************************************************************)
(* Faults, and the people and jobs around the delivery.                    *)
(***************************************************************************)
Event == events > 0 /\ events' = events - 1

DeliveryDies(d) ==
    /\ Event /\ deliverer[d].pc # "idle"
    /\ deliverer' = [deliverer EXCEPT ![d] = AtEase]
    /\ UNCHANGED <<hour, message, ledger, deliveryJob, emailEnabled, phone, sends>>

\* BullMQ finds the job of a worker that died.
RecoverDelivery ==
    /\ deliveryJob.state = "active" /\ deliverer[deliveryJob.holder].pc = "idle"
    /\ deliveryJob' = Stalled(deliveryJob)
    /\ UNCHANGED <<message, ledger, deliverer, sends>> /\ Settings

\* Attempts that read the person's settings before they changed.
Outdated == [d \in Deliverers |->
    [deliverer[d] EXCEPT !.stale = @ \/ deliverer[d].pc \notin {"idle", "find", "recipient"}]]

\* PATCH /notification-preferences, or the link in an email.
ChangeConsent ==
    /\ Event
    /\ emailEnabled' = ~emailEnabled
    /\ deliverer' = Outdated
    /\ UNCHANGED <<hour, message, ledger, deliveryJob, phone, sends>>

\* upsert moves a token to whoever registers it; remove forgets it.
ChangePhone(owner) ==
    /\ Event /\ owner # phone
    /\ phone' = owner
    /\ deliverer' = Outdated
    /\ UNCHANGED <<hour, message, ledger, deliveryJob, emailEnabled, sends>>

\* deleteSentBefore: only a message that was sent; the ledger goes with it.
PruneMessage ==
    /\ message = "SENT"
    /\ message' = "GONE"
    /\ ledger' = NoPast
    /\ UNCHANGED <<deliveryJob, deliverer, sends>> /\ Settings

\* The account is deleted, and everything of it cascades.
AccountGoes ==
    /\ Event /\ Exists
    /\ message' = "GONE"
    /\ ledger' = NoPast
    /\ UNCHANGED <<hour, emailEnabled, phone, deliveryJob, deliverer, sends>>

-----------------------------------------------------------------------------
DeliverStep(d) ==
    \/ FindMessage(d) \/ ReadRecipient(d) \/ ReadHistory(d) \/ SkipChannel(d)
    \/ SendOnChannel(d) \/ RecordSent(d) \/ RecordFailure(d) \/ MarkSent(d) \/ MarkFailed(d)

DeliveryNext ==
    \/ NextHour \/ SweepFinds \/ RecoverDelivery
    \/ \E w \in Workers : TakeDelivery(w)
    \/ \E d \in Deliverers : DeliverStep(d) \/ DeliveryDies(d)
    \/ ChangeConsent \/ \E owner \in {"holder", "other", "nobody"} : ChangePhone(owner)
    \/ PruneMessage \/ AccountGoes

DeliverySpec == DeliveryInit /\ [][DeliveryNext]_deliveryVars

-----------------------------------------------------------------------------
(***************************************************************************)
(* Properties.                                                             *)
(***************************************************************************)
\* An attempt that read the person's consents and phone after they last
\* changed sends no email they refused and no push to somebody else's phone,
\* through retries, passes of the sweep and phones that change hands.
ConsentHolds == misdirected = {}

\* "a retry after a partial failure sends only where the message has not gone
\* yet": an email goes out once, once more for each attempt that overlaps
\* another, and once more for each one that died before recording it.
CopiesAreBounded ==
    emails <= Cardinality(Deliverers) + MaxEvents - events
=============================================================================
