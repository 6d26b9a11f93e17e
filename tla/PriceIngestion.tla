---------------------------- MODULE PriceIngestion ----------------------------
(***************************************************************************)
(* The single entry point of prices: calls of IngestPriceObservationService*)
(* for what people report and for what a feed resends of one product at one *)
(* store, the rows they leave in price_observations, and the retention that*)
(* deletes them.                                                           *)
(***************************************************************************)
EXTENDS SubmissionPolicy, FiniteSets

CONSTANTS
    Reports,        \* requests of POST /price-observations
    Feeds,          \* passes of an import over one candidate
    Users,
    None,
    SomePrices,     \* what the product is said to cost
    MaxTarget,      \* HARD_LIMITS.perAccountTarget
    Retention,      \* days a row is kept
    MaxToday,       \* bound on the clock
    MaxRows         \* bound on the rows of price_observations

ASSUME IngestionAssumption ==
    /\ Reports \cap Feeds = {} /\ IsFiniteSet(Reports)
    /\ None \notin Users \cup Int
    /\ {MaxTarget, Retention, MaxToday, MaxRows} \subseteq Nat

Calls == Reports \cup Feeds
RowIds == 1 .. MaxRows

VARIABLES
    today,          \* the clock, in days
    row,            \* price_observations, by the order of insertion
    call,           \* calls of ingest and confirmUnchanged
    hits,           \* price-submissions:account-target, by user, this window
    retired,        \* the product has left the catalog
    pruner          \* a pass of PrunePriceObservationsUseCase

ingestVars == <<today, row, call, hits, retired, pruner>>

\* What a call may ask for.  Requests carry a client's id or none; a feed's
\* prices carry a key that names their day.
ReportCommand ==
    [source : {"USER_REPORTED"}, user : Users, id : {"id", None}, key : {None},
     price : SomePrices, observed : {0}]
FeedCommand ==
    [source : {"EXTERNAL_API"}, user : {None}, id : {None}, key : 0 .. MaxToday,
     price : SomePrices, observed : 0 .. MaxToday]

NoRow == [there |-> FALSE, used |-> FALSE]
Deleted == [there |-> FALSE, used |-> TRUE]
Started(command, pc) ==
    [pc |-> pc, command |-> command, row |-> None, status |-> None, counted |-> None]

IngestTypeOK ==
    /\ today \in 0 .. MaxToday
    /\ \A r \in RowIds : row[r].there =>
         /\ row[r].price \in SomePrices
         /\ row[r].status \in {"ACCEPTED", "FLAGGED", "REJECTED"}
         /\ row[r].confirmed \in (0 .. MaxToday) \cup {None}
    /\ \A c \in Calls :
         /\ call[c].pc \in {"new", "latest", "confirm", "replay", "catalog", "twice", "count",
                            "judge", "create", "answered", "refused"}
         /\ call[c].row \in RowIds \cup {None}
    /\ hits \in [Users -> Nat]
    /\ retired \in BOOLEAN
    /\ pruner \in [pc : {"idle", "delete"}, ids : SUBSET RowIds]

\* Requests are one person's double tap, or two people's; the feed's first
\* price is a row of its own already.
IngestInit ==
    /\ today = 0
    /\ \E status \in {"ACCEPTED", "FLAGGED"}, price \in SomePrices :
         row = [r \in RowIds |-> IF r # 1 THEN NoRow ELSE
                 [there |-> TRUE, used |-> TRUE, id |-> None, key |-> -1,
                  price |-> price, user |-> None, status |-> status,
                  observed |-> -1, received |-> -1, confirmed |-> None, counted |-> None]]
    /\ call = [c \in Calls |-> Started(None, "new")]
    /\ hits = [u \in Users |-> 0]
    /\ retired = FALSE
    /\ pruner = [pc |-> "idle", ids |-> {}]

Command(c) == call[c].command
Present == {r \in RowIds : row[r].there}
world == <<today, retired, pruner>>
Continue(c, pc) == call' = [call EXCEPT ![c].pc = pc]
Answer(c, r) == call' = [call EXCEPT ![c].pc = "answered", ![c].row = r]
Reject(c) == Continue(c, "refused")

-----------------------------------------------------------------------------
\* A request arrives, and what cannot be a price is refused.
Report(c, command) ==
    /\ call[c].pc = "new"
    /\ IF CheckPlausibility(command.price, command.source, TRUE, command.observed, today) = "PLAUSIBLE"
       THEN call' = [call EXCEPT ![c] = Started(command, "replay")]
       ELSE call' = [call EXCEPT ![c] = Started(command, "refused")]
    /\ UNCHANGED <<world, row, hits>>

\* An import offers a price of its feed to confirmUnchanged first.
Offer(c, command) ==
    /\ call[c].pc = "new" /\ command.observed <= today /\ command.key = today
    /\ call' = [call EXCEPT ![c] = Started(command, "latest")]
    /\ UNCHANGED <<world, row, hits>>

\* The source's newest row (findLatestByDedupePrefix).
Latest ==
    LET ours == {r \in Present : row[r].key # None} IN
    {r \in ours : \A s \in ours \ {r} :
        \/ row[s].observed < row[r].observed
        \/ row[s].observed = row[r].observed /\ s < r}

\* The newest row says the same, was accepted, and is older.
Unchanged(c, r) ==
    /\ CheckPlausibility(Command(c).price, "EXTERNAL_API", TRUE, Command(c).observed, today) = "PLAUSIBLE"
    /\ row[r].status = "ACCEPTED"
    /\ row[r].price = Command(c).price
    /\ row[r].observed < Command(c).observed

\* confirmUnchanged up to its update: confirmed this far already, worth
\* confirming, or a price for the whole pipeline.
CompareLatest(c) ==
    /\ call[c].pc = "latest"
    /\ \/ /\ \A r \in Latest : ~Unchanged(c, r)
          /\ Continue(c, "replay")
       \/ \E r \in Latest :
            /\ Unchanged(c, r)
            /\ IF row[r].confirmed # None /\ row[r].confirmed >= Command(c).observed
               THEN Answer(c, r)
               ELSE call' = [call EXCEPT ![c].pc = "confirm", ![c].row = r]
    /\ UNCHANGED <<world, row, hits>>

ConfirmUnconditionally(c) ==
    /\ call[c].pc = "confirm"
    /\ LET r == call[c].row IN
       IF row[r].there
       THEN /\ row' = [row EXCEPT ![r].confirmed = Command(c).observed]
            /\ Answer(c, r)
       ELSE call' = [call EXCEPT ![c].pc = "replay", ![c].row = None] /\ UNCHANGED row
    /\ UNCHANGED <<world, hits>>

\* confirmMany: conditional, so a confirmation never moves back; a row pruned
\* meanwhile, or confirmed further, is not confirmed and its price is ingested.
ConfirmMany(c) ==
    /\ call[c].pc = "confirm"
    /\ LET r == call[c].row
           at == Command(c).observed IN
       IF row[r].there /\ (row[r].confirmed = None \/ row[r].confirmed < at)
       THEN /\ row' = [row EXCEPT ![r].confirmed = at]
            /\ Answer(c, r)
       ELSE call' = [call EXCEPT ![c].pc = "replay", ![c].row = None] /\ UNCHANGED row
    /\ UNCHANGED <<world, hits>>

-----------------------------------------------------------------------------
(***************************************************************************)
(* ingest.                                                                 *)
(***************************************************************************)
SameIdentity(command) ==
    {r \in Present : \/ command.id # None /\ row[r].id = command.id
                     \/ command.key # None /\ row[r].key = command.key}

BelongsToCaller(c, r) == row[r].user = Command(c).user

\* findReplay: by the client's id, whose owner must be the caller, or by key.
FindReplay(c) ==
    /\ call[c].pc = "replay"
    /\ \/ SameIdentity(Command(c)) = {} /\ Continue(c, "catalog")
       \/ \E r \in SameIdentity(Command(c)) :
            IF BelongsToCaller(c, r) THEN Answer(c, r) ELSE Reject(c)
    /\ UNCHANGED <<world, row, hits>>

\* assertCatalogTargets: people report what is live; a feed's price of a
\* retired product is still recorded.
CheckCatalog(c) ==
    /\ call[c].pc = "catalog"
    /\ IF ~IsUserSubmitted(Command(c).source) THEN Continue(c, "judge")
       ELSE IF retired THEN Reject(c)
       ELSE Continue(c, "twice")
    /\ UNCHANGED <<world, row, hits>>

\* The same report within DUPLICATE_WINDOW_MS: today.
FindDuplicate(c) ==
    /\ call[c].pc = "twice"
    /\ LET same == {r \in Present : /\ row[r].user = Command(c).user
                                    /\ row[r].price = Command(c).price
                                    /\ row[r].received = today} IN
       \/ same = {} /\ Continue(c, "count")
       \/ \E r \in same : (\A s \in same : s <= r) /\ Answer(c, r)
    /\ UNCHANGED <<world, row, hits>>

Counted(c) == call' = [call EXCEPT ![c].pc = "judge", ![c].counted = today]

\* The limit is held against the rows stored, which are counted afterwards.
CountStored(c) ==
    /\ call[c].pc = "count"
    /\ IF Cardinality({r \in Present : row[r].user = Command(c).user
                                        /\ row[r].counted = today}) >= MaxTarget
       THEN Reject(c) ELSE Counted(c)
    /\ hits' = [hits EXCEPT ![Command(c).user] = @ + 1]
    /\ UNCHANGED <<world, row>>

\* Counted against its windows first, and refused beyond the hard limit; a
\* Redis that does not answer counts as zero.
CountSubmission(c) ==
    /\ call[c].pc = "count"
    /\ \/ /\ hits' = [hits EXCEPT ![Command(c).user] = @ + 1]
          /\ IF hits'[Command(c).user] > MaxTarget THEN Reject(c) ELSE Counted(c)
       \/ Continue(c, "judge") /\ UNCHANGED hits
    /\ UNCHANGED <<world, row>>

\* Prices of accepted rows still standing, newest first.
RecentAccepted ==
    LET accepted == {r \in Present : row[r].status = "ACCEPTED"} IN
    [n \in 1 .. Cardinality(accepted) |->
        row[CHOOSE r \in accepted : Cardinality({s \in accepted : s <= r}) = n].price]

\* collectSignals and decideTrust, over the rows as they are now; accounts are
\* old enough and other windows are far from their limits.
Judge(c) ==
    /\ call[c].pc = "judge"
    /\ LET command == Command(c)
           account == IF command.user = None THEN 0 ELSE hits[command.user]
           signals == [source |-> command.source, age |-> NewAccountAge,
                       deviation |-> AssessAgainstHistory(command.price, RecentAccepted, RecentAccepted),
                       account |-> account, target |-> account, product |-> account, store |-> account,
                       deviations |-> Cardinality({r \in Present : row[r].user = command.user
                                                     /\ row[r].status # "ACCEPTED"})] IN
       call' = [call EXCEPT ![c].pc = "create", ![c].status = DecideTrust(signals).status]
    /\ UNCHANGED <<world, row, hits>>

\* The place of the next row.
Fresh(r) == ~row[r].used /\ \A s \in RowIds : s < r => row[s].used

RowOf(c) ==
    LET command == Command(c) IN
    [there |-> TRUE, used |-> TRUE, id |-> command.id, key |-> command.key,
     price |-> command.price, user |-> command.user, status |-> call[c].status,
     observed |-> command.observed, received |-> today, confirmed |-> None,
     counted |-> call[c].counted]

\* The loser's answer goes unchecked.
CreateForAnyone(c) ==
    /\ call[c].pc = "create"
    /\ \/ /\ SameIdentity(Command(c)) = {}
          /\ \E r \in RowIds :
               /\ Fresh(r)
               /\ row' = [row EXCEPT ![r] = RowOf(c)]
               /\ Answer(c, r)
       \/ /\ \E r \in SameIdentity(Command(c)) : Answer(c, r)
          /\ UNCHANGED row
    /\ UNCHANGED <<world, hits>>

\* create: the unique id and key admit one; whoever lost the race is answered
\* with the row that is there, if it is theirs.
CreateObservation(c) ==
    /\ call[c].pc = "create"
    /\ \/ /\ SameIdentity(Command(c)) = {}
          /\ \E r \in RowIds :
               /\ Fresh(r)
               /\ row' = [row EXCEPT ![r] = RowOf(c)]
               /\ Answer(c, r)
       \/ /\ \E r \in SameIdentity(Command(c)) :
               IF BelongsToCaller(c, r) THEN Answer(c, r) ELSE Reject(c)
          /\ UNCHANGED row
    /\ UNCHANGED <<world, hits>>

-----------------------------------------------------------------------------
NextDay ==
    /\ today < MaxToday
    /\ today' = today + 1
    /\ hits' = [u \in Users |-> 0]
    /\ UNCHANGED <<row, call, retired, pruner>>

Expired ==
    {r \in Present : /\ row[r].received < today - Retention
                     /\ row[r].confirmed = None \/ row[r].confirmed < today - Retention}

\* deleteReceivedBefore selects a batch, then deletes it by id.
SelectExpired ==
    /\ pruner.pc = "idle"
    /\ Expired # {}
    /\ pruner' = [pc |-> "delete", ids |-> Expired]
    /\ UNCHANGED <<today, row, call, hits, retired>>

DeleteExpired ==
    /\ pruner.pc = "delete"
    /\ row' = [r \in RowIds |-> IF r \in pruner.ids /\ row[r].there THEN Deleted ELSE row[r]]
    /\ pruner' = [pc |-> "idle", ids |-> {}]
    /\ UNCHANGED <<today, call, hits, retired>>

\* The product is merged into another, or deactivated.
RetireProduct ==
    /\ ~retired
    /\ retired' = TRUE
    /\ UNCHANGED <<today, row, call, hits, pruner>>

-----------------------------------------------------------------------------
IngestStep(c) ==
    \/ CompareLatest(c) \/ ConfirmMany(c) \/ FindReplay(c) \/ CheckCatalog(c) \/ FindDuplicate(c)
    \/ CountSubmission(c) \/ Judge(c) \/ CreateObservation(c)

IngestNext ==
    \/ \E c \in Reports, command \in ReportCommand : Report(c, command)
    \/ \E c \in Feeds, command \in FeedCommand : Offer(c, command)
    \/ \E c \in Calls : IngestStep(c)
    \/ NextDay \/ SelectExpired \/ DeleteExpired \/ RetireProduct

IngestSpec == IngestInit /\ [][IngestNext]_ingestVars

-----------------------------------------------------------------------------
(***************************************************************************)
(* Properties.                                                             *)
(***************************************************************************)
\* However their requests interleave, nobody's reports of one product at one
\* store that a window counted outnumber the hard limit (countUserSubmission).
HardLimitHolds ==
    \A u \in Users, day \in 0 .. MaxToday :
        Cardinality({r \in Present : row[r].user = u /\ row[r].counted = day}) <= MaxTarget

\* A request is answered with a report of its own author, and a retry with
\* the report its id names, whichever of two won (ingest, create).
AnswersAreTheCallers ==
    \A c \in Reports :
        call[c].pc = "answered" /\ row[call[c].row].there =>
            /\ row[call[c].row].user = Command(c).user
            /\ row[call[c].row].price = Command(c).price \/ Command(c).id # None

\* What a feed repeated stays confirmed that far, however late an overlapping
\* run confirms an earlier moment, unless the day has its row already; and what
\* is in doubt is never confirmed (confirmUnchanged, confirmMany).
ConfirmationsLast ==
    /\ \A c \in Feeds :
         LET r == call[c].row IN
         call[c].pc = "answered" /\ row[r].there =>
            \/ row[r].observed >= Command(c).observed \/ row[r].key = Command(c).key
            \/ (row[r].confirmed # None /\ row[r].confirmed >= Command(c).observed)
    /\ \A r \in Present : row[r].confirmed # None =>
         row[r].status = "ACCEPTED" /\ row[r].user = None /\ row[r].confirmed > row[r].observed
=============================================================================
