------------------------------- MODULE Settings -------------------------------
(***************************************************************************)
(* The settings of one account, changed from several devices: where the    *)
(* shopper is, whether alerts are emailed and when that was asked for.     *)
(* Each change reads the row, looks at the outcome and saves the fields it *)
(* was given; the two tables are written apart.                            *)
(***************************************************************************)
EXTENDS Naturals

CONSTANTS
    Changes,        \* requests that may be under way at once
    MaxMoment       \* bound on the clock, which each request moves

ASSUME SettingsAssumption == MaxMoment \in Nat

VARIABLES
    location,       \* the row in user_preferences: which half of the place is given
    consent,        \* the row in notification_preferences
    edit,           \* requests on their way
    moment,         \* the clock
    mixed           \* tables two requests changed at once

settingsVars == <<location, consent, edit, moment, mixed>>

Halves == {"latitude", "longitude"}
UserPreferences == [Halves -> BOOLEAN]
DefaultPreferences == [h \in Halves |-> FALSE]

\* A moment of 0 is none.
NotificationPreferences == [emailEnabled : BOOLEAN, optedIn : Nat, optedOut : Nat]
DefaultNotificationPreferences == [emailEnabled |-> FALSE, optedIn |-> 0, optedOut |-> 0]

\* A half that is given, cleared or not mentioned.
UpdateUserPreferencesInput == [Halves -> {"give", "clear", "keep"}]

Unhurried == [pc |-> "new"]

SettingsTypeOK ==
    /\ location \in UserPreferences
    /\ consent \in NotificationPreferences
    /\ \A c \in Changes : edit[c].pc \in {"new", "place", "move", "row", "stamp"}
    /\ moment \in 0 .. MaxMoment
    /\ mixed \subseteq {"place", "consent"}

SettingsInit ==
    /\ location = DefaultPreferences
    /\ consent = DefaultNotificationPreferences
    /\ edit = [c \in Changes |-> Unhurried]
    /\ moment = 0 /\ mixed = {}

\* hasCompleteLocation.
HasCompleteLocation(halves) == halves["latitude"] = halves["longitude"]

\* Fields that are not mentioned stay.
Saved(halves, input) ==
    [h \in Halves |-> IF input[h] = "keep" THEN halves[h] ELSE input[h] = "give"]

Mixes(table, pcs) ==
    mixed' = IF \E c \in Changes : edit[c].pc \in pcs THEN mixed \cup {table} ELSE mixed
Sends(c, what) ==
    /\ edit[c].pc = "new" /\ moment < MaxMoment
    /\ moment' = moment + 1
    /\ edit' = [edit EXCEPT ![c] = what]
Replied(c) == edit' = [edit EXCEPT ![c] = Unhurried]

-----------------------------------------------------------------------------
(***************************************************************************)
(* UserPreferencesUseCase.update.                                          *)
(***************************************************************************)
AskToMove(c, input) ==
    /\ Sends(c, [pc |-> "place", input |-> input])
    /\ Mixes("place", {"place", "move"})
    /\ UNCHANGED <<location, consent>>

\* The place is checked as it will end up, which is as it was read.
CheckPlace(c) ==
    /\ edit[c].pc = "place"
    /\ IF HasCompleteLocation(Saved(location, edit[c].input))
       THEN edit' = [edit EXCEPT ![c].pc = "move"] ELSE Replied(c)
    /\ UNCHANGED <<location, consent, moment, mixed>>

SavePlace(c) ==
    /\ edit[c].pc = "move"
    /\ location' = Saved(location, edit[c].input)
    /\ Replied(c)
    /\ UNCHANGED <<consent, moment, mixed>>

-----------------------------------------------------------------------------
(***************************************************************************)
(* NotificationPreferencesUseCase.update and unsubscribeByToken.  now is   *)
(* the moment the request came in.                                         *)
(***************************************************************************)
UpdateConsent(c, wanted) ==
    /\ Sends(c, [pc |-> "row", wanted |-> wanted, link |-> FALSE, now |-> moment + 1])
    /\ Mixes("consent", {"row", "stamp"})
    /\ UNCHANGED <<location, consent>>

Unsubscribe(c) ==
    /\ Sends(c, [pc |-> "row", wanted |-> FALSE, link |-> TRUE, now |-> moment + 1])
    /\ Mixes("consent", {"row", "stamp"})
    /\ UNCHANGED <<location, consent>>

\* consentChange: a change of mind is stamped, and repeating a choice is none.
ConsentChange(row, wanted, now) ==
    [emailEnabled |-> wanted,
     optedIn |-> IF wanted /\ ~row.emailEnabled THEN now ELSE 0,
     optedOut |-> IF ~wanted /\ row.emailEnabled THEN now ELSE 0]

\* A link turns email off where it is on, and does nothing where it is not.
ReadConsent(c) ==
    /\ edit[c].pc = "row"
    /\ IF edit[c].link /\ ~consent.emailEnabled THEN Replied(c)
       ELSE edit' = [edit EXCEPT ![c] =
                [pc |-> "stamp", save |-> ConsentChange(consent, @.wanted, @.now), now |-> @.now]]
    /\ UNCHANGED <<location, consent, moment, mixed>>

\* A stamp that is not set stays.
SaveConsent(c) ==
    /\ edit[c].pc = "stamp"
    /\ LET save == edit[c].save IN
       consent' = [emailEnabled |-> save.emailEnabled,
                   optedIn |-> IF save.optedIn = 0 THEN consent.optedIn ELSE save.optedIn,
                   optedOut |-> IF save.optedOut = 0 THEN consent.optedOut ELSE save.optedOut]
    /\ Replied(c)
    /\ UNCHANGED <<location, moment, mixed>>

-----------------------------------------------------------------------------
ChangeStep(c) == CheckPlace(c) \/ SavePlace(c) \/ ReadConsent(c) \/ SaveConsent(c)

SettingsNext ==
    \E c \in Changes :
        \/ ChangeStep(c) \/ Unsubscribe(c)
        \/ \E input \in UpdateUserPreferencesInput : AskToMove(c, input)
        \/ \E wanted \in BOOLEAN : UpdateConsent(c, wanted)

SettingsSpec == SettingsInit /\ [][SettingsNext]_settingsVars

-----------------------------------------------------------------------------
(***************************************************************************)
(* Properties.                                                             *)
(***************************************************************************)
\* Half a coordinate is stored only where two updates met.
PlaceIsWhole == "place" \in mixed \/ HasCompleteLocation(location)

\* What the stamps say of the consent is what the switch says, unless two
\* changes of mind met: email is on where the last stamp is that of opting in.
StampsTellConsent ==
    "consent" \in mixed \/ (consent.emailEnabled <=> consent.optedIn > consent.optedOut)
=============================================================================
