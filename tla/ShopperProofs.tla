----------------------------- MODULE ShopperProofs -----------------------------
(***************************************************************************)
(* Proofs about what shoppers do and are told: the prices they report      *)
(* (PriceIngestion), the alerts they set (PriceAlerts), the history of the *)
(* days' prices (DailyPrices) and the search for a plan (PlanSearch).  The *)
(* modules share no state; each has a part of its own here.                *)
(***************************************************************************)
EXTENDS MCShoppers, CommonProofs, SequenceTheorems

-----------------------------------------------------------------------------
(***************************************************************************)
(* PriceIngestion: types.                                                  *)
(***************************************************************************)
Trusts == {"ACCEPTED", "FLAGGED", "REJECTED"}

RowType ==
    [there : {TRUE}, used : {TRUE}, id : {"id", None}, key : Int \cup {None}, price : SomePrices,
     user : Users \cup {None}, status : Trusts, observed : Int, received : Int,
     confirmed : (0 .. MaxToday) \cup {None}, counted : (0 .. MaxToday) \cup {None}]

CallType ==
    [pc : {"new", "latest", "confirm", "replay", "catalog", "twice", "count", "judge", "create",
           "answered", "refused"},
     command : ReportCommand \cup FeedCommand \cup {None}, row : RowIds \cup {None},
     status : Trusts \cup {None}, counted : (0 .. MaxToday) \cup {None}]

\* A row that is there is a row's, and a place once used stays used.
RowsTyped == row \in [RowIds -> RowType \cup {NoRow, Deleted}]

\* A report is a request's, a feed's price a pass's; what a call found or made
\* has a place.
CallOf(c, of) ==
    /\ c \in Reports /\ of.pc # "new" => of.command \in ReportCommand
    /\ c \in Feeds /\ of.pc # "new" => of.command \in FeedCommand
    /\ c \in Reports => of.pc \notin {"latest", "confirm"}
    /\ of.pc \in {"twice", "count"} => c \in Reports
    /\ of.pc \notin {"judge", "create", "answered", "refused"} => of.counted = None
    /\ of.pc = "create" => of.status \in Trusts
    /\ of.pc \in {"answered", "confirm"} => of.row \in RowIds

CallsTyped == call \in [Calls -> CallType] /\ \A c \in Calls : CallOf(c, call[c])

WorldTyped ==
    /\ today \in 0 .. MaxToday /\ hits \in [Users -> Nat] /\ retired \in BOOLEAN
    /\ pruner \in [pc : {"idle", "delete"}, ids : SUBSET RowIds]

IngestTyped == RowsTyped /\ CallsTyped /\ WorldTyped

-----------------------------------------------------------------------------
(***************************************************************************)
(* The hard limit: each row a window counted, and each call it has let     *)
(* through, has its own unit of the window's counter.                      *)
(***************************************************************************)
CountedRows(u, day) == {r \in Present : row[r].user = u /\ row[r].counted = day}
CountedCalls(u, day) ==
    {c \in Reports : call[c].pc \in {"judge", "create"} /\ Command(c).user = u
                     /\ call[c].counted = day}

Used(u, day) == Cardinality(CountedRows(u, day)) + Cardinality(CountedCalls(u, day))

WindowsHold ==
    \A u \in Users :
        /\ Used(u, today) <= hits[u]
        /\ \A day \in 0 .. MaxToday : /\ Used(u, day) <= MaxTarget
                                      /\ day > today => Used(u, day) = 0

-----------------------------------------------------------------------------
(***************************************************************************)
(* What a call changes.                                                    *)
(***************************************************************************)
Turn(c, of) == call' = [call EXCEPT ![c] = of]

LEMMA Turns ==
  ASSUME CallsTyped, NEW c \in Calls, NEW of \in CallType, CallOf(c, of), Turn(c, of)
  PROVE  CallsTyped' /\ call'[c] = of /\ \A d \in Calls \ {c} : call'[d] = call[d]
  <1>1. call' \in [Calls -> CallType] /\ call'[c] = of /\ \A d \in Calls \ {c} : call'[d] = call[d]
    BY DEF CallsTyped, Turn
  <1>2. ASSUME NEW d \in Calls PROVE CallOf(d, call'[d])
    BY <1>1 DEF CallsTyped
  <1>3. QED
    BY <1>1, <1>2 DEF CallsTyped

\* A call that only goes on.
LEMMA GoingOn ==
  ASSUME CallsTyped, NEW c \in Calls, NEW pc, Continue(c, pc)
  PROVE  \E of : of = [call[c] EXCEPT !.pc = pc] /\ Turn(c, of)
  BY DEF CallsTyped, Continue, Turn

LEMMA Answering ==
  ASSUME CallsTyped, NEW c \in Calls, NEW r, Answer(c, r)
  PROVE  \E of : of = [call[c] EXCEPT !.pc = "answered", !.row = r] /\ Turn(c, of)
  BY DEF CallsTyped, Answer, Turn

-----------------------------------------------------------------------------
(***************************************************************************)
(* Every step keeps the types.                                             *)
(***************************************************************************)
LEMMA RowFields ==
  ASSUME NEW of \in RowType \cup {NoRow, Deleted}, of.there
  PROVE  /\ of \in RowType /\ of.used
         /\ of.confirmed # None => of.confirmed \in 0 .. MaxToday
  <1>1. of \in RowType \/ of = NoRow \/ of = Deleted
    OBVIOUS
  <1>2. ~NoRow.there /\ ~Deleted.there
    BY DEF NoRow, Deleted
  <1>3. of \in RowType
    BY <1>1, <1>2
  <1>4. of.used = TRUE /\ of.confirmed \in (0 .. MaxToday) \cup {None}
    BY <1>3 DEF RowType
  <1>5. QED
    BY <1>3, <1>4

LEMMA CallsStart ==
  ASSUME NEW c \in Calls, NEW pc, NEW command, pc \in {"replay", "refused", "latest"},
         c \in Reports => command \in ReportCommand /\ pc # "latest",
         c \in Feeds => command \in FeedCommand
  PROVE  Started(command, pc) \in CallType /\ CallOf(c, Started(command, pc))
  BY DEF Started, CallType, CallOf, Calls

LEMMA CallsGoOn ==
  ASSUME CallsTyped, NEW c \in Calls, NEW pc, call[c].pc # "new",
         pc \in {"replay", "catalog", "twice", "count", "judge", "refused"},
         pc \in {"twice", "count"} => c \in Reports,
         pc \notin {"judge", "refused"} => call[c].counted = None,
         Continue(c, pc)
  PROVE  CallsTyped'
  <1>1. PICK of : of = [call[c] EXCEPT !.pc = pc] /\ Turn(c, of)
    BY GoingOn
  <1>2. call[c] \in CallType /\ CallOf(c, call[c])
    BY DEF CallsTyped
  <1>3. of \in CallType
    BY <1>1, <1>2 DEF CallType
  <1>4. CallOf(c, of)
    BY <1>1, <1>2 DEF CallType, CallOf
  <1>5. QED
    BY <1>1, <1>3, <1>4, Turns

LEMMA CallsAnswer ==
  ASSUME CallsTyped, NEW c \in Calls, NEW r \in RowIds, call[c].pc # "new", Answer(c, r)
  PROVE  CallsTyped'
  <1>1. PICK of : of = [call[c] EXCEPT !.pc = "answered", !.row = r] /\ Turn(c, of)
    BY Answering
  <1>2. call[c] \in CallType /\ CallOf(c, call[c])
    BY DEF CallsTyped
  <1>3. of \in CallType
    BY <1>1, <1>2 DEF CallType
  <1>4. CallOf(c, of)
    BY <1>1, <1>2 DEF CallType, CallOf
  <1>5. QED
    BY <1>1, <1>3, <1>4, Turns

LEMMA RowsMade ==
  ASSUME IngestTyped, NEW c \in Calls, call[c].pc = "create"
  PROVE  RowOf(c) \in RowType
  <1>1. call[c] \in CallType /\ CallOf(c, call[c]) /\ today \in 0 .. MaxToday
    BY DEF IngestTyped, CallsTyped, WorldTyped
  <1>2. call[c].command \in ReportCommand \cup FeedCommand /\ call[c].status \in Trusts
    BY <1>1 DEF CallOf, Calls
  <1>3. call[c].counted \in (0 .. MaxToday) \cup {None}
    BY <1>1 DEF CallType
  <1>4. today \in Int
    BY <1>1
  <1>5. CASE call[c].command \in ReportCommand
    BY <1>2, <1>3, <1>4, <1>5 DEF RowOf, Command, RowType, ReportCommand
  <1>6. CASE call[c].command \in FeedCommand
    BY <1>2, <1>3, <1>4, <1>6 DEF RowOf, Command, RowType, FeedCommand
  <1>7. QED
    BY <1>2, <1>5, <1>6

LEMMA RowsStored ==
  ASSUME RowsTyped, NEW r \in RowIds, NEW new \in RowType, row' = [row EXCEPT ![r] = new]
  PROVE  RowsTyped'
  BY DEF RowsTyped

LEMMA RowsConfirmed ==
  ASSUME RowsTyped, NEW r \in RowIds, row[r].there, NEW at \in 0 .. MaxToday,
         row' = [row EXCEPT ![r].confirmed = at]
  PROVE  /\ RowsTyped'
         /\ row'[r] = [row[r] EXCEPT !.confirmed = at]
         /\ \A s \in RowIds \ {r} : row'[s] = row[s]
  <1>1. PICK new : new = [row[r] EXCEPT !.confirmed = at]
    OBVIOUS
  <1>2. row[r] \in RowType
    BY RowFields DEF RowsTyped
  <1>3. new \in RowType
    BY <1>1, <1>2 DEF RowType
  <1>4. row' = [row EXCEPT ![r] = new]
    BY <1>1
  <1>5. QED
    BY <1>1, <1>3, <1>4, RowsStored DEF RowsTyped

LEMMA RowsDeleted ==
  ASSUME RowsTyped, DeleteExpired
  PROVE  /\ RowsTyped'
         /\ \A r \in RowIds : row'[r] = row[r] \/ (row[r].there /\ row'[r] = Deleted)
  BY DEF RowsTyped, DeleteExpired

\* Reports and offers keep the types, the steps of a call do, and so do those
\* of the outside.
LEMMA StepKeepsTypes ==
  ASSUME IngestTyped, NEW c \in Calls, IngestStep(c)
  PROVE  IngestTyped'
  <1>1. RowsTyped /\ CallsTyped /\ WorldTyped
    BY DEF IngestTyped
  <1>2. call[c] \in CallType /\ CallOf(c, call[c])
    BY <1>1 DEF CallsTyped
  <1>3. Present \subseteq RowIds /\ Latest \subseteq Present
        /\ SameIdentity(Command(c)) \subseteq Present
    BY DEF Present, Latest, SameIdentity
  <1>4. ASSUME UNCHANGED <<world, row, hits>> PROVE RowsTyped' /\ WorldTyped'
    BY <1>1, <1>4 DEF world, RowsTyped, WorldTyped
  <1>5. ASSUME UNCHANGED <<world, hits>> PROVE WorldTyped'
    BY <1>1, <1>5 DEF world, WorldTyped
  <1>6. CASE CompareLatest(c)
    <2>1. call[c].pc = "latest" /\ c \in Feeds /\ UNCHANGED <<world, row, hits>>
      BY <1>2, <1>6 DEF CompareLatest, CallOf, Calls
    <2>2. ASSUME NEW r \in RowIds, call' = [call EXCEPT ![c].pc = "confirm", ![c].row = r]
          PROVE  CallsTyped'
      <3>1. PICK of : of = [call[c] EXCEPT !.pc = "confirm", !.row = r]
        OBVIOUS
      <3>2. of \in CallType
        BY <1>2, <3>1 DEF CallType
      <3>3. c \notin Reports
        BY <2>1, <1>2 DEF CallOf
      <3>4. CallOf(c, of)
        BY <1>2, <2>1, <3>1, <3>3 DEF CallType, CallOf
      <3>5. Turn(c, of)
        BY <1>1, <2>2, <3>1 DEF Turn, CallsTyped
      <3>6. QED
        BY <1>1, <3>2, <3>4, <3>5, Turns
    <2>3. CASE Continue(c, "replay")
      <3>1. CallsTyped'
        BY <1>1, <1>2, <2>1, <2>3, CallsGoOn DEF CallOf
      <3>2. QED
        BY <1>4, <2>1, <3>1 DEF IngestTyped
    <2>4. CASE \E r \in RowIds : Answer(c, r)
      <3>1. CallsTyped'
        BY <1>1, <2>1, <2>4, CallsAnswer
      <3>2. QED
        BY <1>4, <2>1, <3>1 DEF IngestTyped
    <2>5. Continue(c, "replay") \/ \E r \in RowIds : \/ Answer(c, r)
                                  \/ call' = [call EXCEPT ![c].pc = "confirm", ![c].row = r]
      BY <1>3, <1>6 DEF CompareLatest
    <2>6. QED
      BY <1>4, <2>1, <2>2, <2>3, <2>4, <2>5 DEF IngestTyped
  <1>7. CASE ConfirmMany(c)
    <2>1. call[c].pc = "confirm" /\ c \notin Reports /\ call[c].row \in RowIds
          /\ call[c].counted = None /\ UNCHANGED <<world, hits>>
      BY <1>2, <1>7 DEF ConfirmMany, CallOf
    <2>2. call[c].command \in FeedCommand
      BY <1>2, <2>1 DEF CallOf, Calls
    <2>3. call[c].command.observed \in 0 .. MaxToday
      BY <2>2 DEF FeedCommand
    <2>4. CASE Answer(c, call[c].row) /\ row[call[c].row].there
               /\ row' = [row EXCEPT ![call[c].row].confirmed = call[c].command.observed]
      BY <1>1, <1>5, <2>1, <2>3, <2>4, RowsConfirmed, CallsAnswer DEF IngestTyped
    <2>5. CASE call' = [call EXCEPT ![c].pc = "replay", ![c].row = None] /\ UNCHANGED row
      <3>1. PICK of : of = [call[c] EXCEPT !.pc = "replay", !.row = None]
        OBVIOUS
      <3>2. of \in CallType
        BY <1>2, <3>1 DEF CallType
      <3>3. CallOf(c, of)
        BY <1>2, <2>1, <3>1 DEF CallType, CallOf
      <3>4. Turn(c, of)
        BY <1>1, <2>5, <3>1 DEF Turn, CallsTyped
      <3>5. QED
        BY <1>1, <1>4, <2>1, <2>5, <3>2, <3>3, <3>4, Turns DEF IngestTyped
    <2>6. QED
      BY <1>7, <2>4, <2>5 DEF ConfirmMany, Command
  <1>8. CASE FindReplay(c)
    <2>1. call[c].pc = "replay" /\ call[c].counted = None /\ UNCHANGED <<world, row, hits>>
      BY <1>2, <1>8 DEF FindReplay, CallOf
    <2>2. \/ Continue(c, "catalog") \/ Continue(c, "refused")
          \/ \E r \in RowIds : Answer(c, r)
      BY <1>3, <1>8 DEF FindReplay, Reject
    <2>3. QED
      BY <1>1, <1>4, <2>1, <2>2, CallsGoOn, CallsAnswer DEF IngestTyped
  <1>9. CASE CheckCatalog(c)
    <2>1. call[c].pc = "catalog" /\ call[c].counted = None /\ UNCHANGED <<world, row, hits>>
      BY <1>2, <1>9 DEF CheckCatalog, CallOf
    <2>2. ASSUME c \notin Reports PROVE ~IsUserSubmitted(Command(c).source)
      <3>1. call[c].command \in FeedCommand
        BY <1>2, <2>1, <2>2 DEF CallOf, Calls
      <3>2. QED
        BY <3>1 DEF FeedCommand, IsUserSubmitted, Command
    <2>3. Continue(c, "judge") \/ Continue(c, "refused") \/ (Continue(c, "twice") /\ c \in Reports)
      BY <1>9, <2>2 DEF CheckCatalog, Reject
    <2>4. QED
      BY <1>1, <1>4, <2>1, <2>3, CallsGoOn DEF IngestTyped
  <1>10. CASE FindDuplicate(c)
    <2>1. call[c].pc = "twice" /\ c \in Reports /\ call[c].counted = None
          /\ UNCHANGED <<world, row, hits>>
      BY <1>2, <1>10 DEF FindDuplicate, CallOf
    <2>2. Continue(c, "count") \/ \E r \in RowIds : Answer(c, r)
      BY <1>3, <1>10 DEF FindDuplicate
    <2>3. QED
      BY <1>1, <1>4, <2>1, <2>2, CallsGoOn, CallsAnswer DEF IngestTyped
  <1>11. CASE CountSubmission(c)
    <2>1. call[c].pc = "count" /\ c \in Reports /\ call[c].counted = None
          /\ UNCHANGED <<world, row>>
      BY <1>2, <1>11 DEF CountSubmission, CallOf
    <2>2. call[c].command \in ReportCommand
      BY <1>2, <2>1 DEF CallOf
    <2>3. call[c].command.user \in Users
      BY <2>2 DEF ReportCommand
    <2>4. WorldTyped'
      <3>1. hits' = [hits EXCEPT ![call[c].command.user] = @ + 1] \/ hits' = hits
        BY <1>11 DEF CountSubmission, Command
      <3>2. hits \in [Users -> Nat]
        BY <1>1 DEF WorldTyped
      <3>3. hits' \in [Users -> Nat]
        BY <2>3, <3>1, <3>2
      <3>4. QED
        BY <1>1, <2>1, <3>3 DEF WorldTyped, world
    <2>5. CASE Counted(c)
      <3>1. PICK of : of = [call[c] EXCEPT !.pc = "judge", !.counted = today]
        OBVIOUS
      <3>2. of \in CallType
        BY <1>1, <1>2, <3>1 DEF CallType, WorldTyped
      <3>3. CallOf(c, of)
        BY <1>2, <2>1, <3>1 DEF CallType, CallOf
      <3>4. Turn(c, of)
        BY <1>1, <2>5, <3>1 DEF Turn, CallsTyped, Counted
      <3>5. QED
        BY <1>1, <2>1, <2>4, <3>2, <3>3, <3>4, Turns DEF IngestTyped, RowsTyped
    <2>6. Counted(c) \/ Continue(c, "judge") \/ Continue(c, "refused")
      BY <1>11 DEF CountSubmission, Reject
    <2>7. QED
      BY <1>1, <2>1, <2>4, <2>5, <2>6, CallsGoOn DEF IngestTyped, RowsTyped
  <1>12. CASE Judge(c)
    <2>1. call[c].pc = "judge" /\ UNCHANGED <<world, row, hits>>
      BY <1>12 DEF Judge
    <2>2. PICK status \in Trusts : call' = [call EXCEPT ![c].pc = "create", ![c].status = status]
      BY <1>12 DEF Judge, DecideTrust, Trusts
    <2>3. PICK of : of = [call[c] EXCEPT !.pc = "create", !.status = status]
      OBVIOUS
    <2>4. of \in CallType
      BY <1>2, <2>3 DEF CallType
    <2>5. CallOf(c, of)
      BY <1>2, <2>1, <2>3 DEF CallType, CallOf
    <2>6. Turn(c, of)
      BY <1>1, <2>2, <2>3 DEF Turn, CallsTyped
    <2>7. QED
      BY <1>1, <1>4, <2>1, <2>4, <2>5, <2>6, Turns DEF IngestTyped
  <1>13. CASE CreateObservation(c)
    <2>1. call[c].pc = "create" /\ UNCHANGED <<world, hits>>
      BY <1>13 DEF CreateObservation
    <2>2. CASE \E r \in RowIds : row' = [row EXCEPT ![r] = RowOf(c)] /\ Answer(c, r)
      BY <1>1, <1>5, <2>1, <2>2, RowsMade, RowsStored, CallsAnswer DEF IngestTyped
    <2>3. CASE UNCHANGED row /\ (Continue(c, "refused") \/ \E r \in RowIds : Answer(c, r))
      BY <1>1, <1>4, <2>1, <2>3, CallsGoOn, CallsAnswer DEF IngestTyped
    <2>4. QED
      BY <1>3, <1>13, <2>2, <2>3 DEF CreateObservation, Reject
  <1>14. QED
    BY <1>6, <1>7, <1>8, <1>9, <1>10, <1>11, <1>12, <1>13 DEF IngestStep

LEMMA IngestKeepsTypes ==
  ASSUME IngestTyped, [IngestNext]_ingestVars
  PROVE  IngestTyped'
  <1>1. RowsTyped /\ CallsTyped /\ WorldTyped
    BY DEF IngestTyped
  <1>2. CASE UNCHANGED ingestVars
    BY <1>1, <1>2 DEF ingestVars, IngestTyped, RowsTyped, CallsTyped, WorldTyped
  <1>3. ASSUME NEW c \in Calls, NEW command, NEW pc, pc \in {"replay", "refused", "latest"},
               c \in Reports => command \in ReportCommand /\ pc # "latest",
               c \in Feeds => command \in FeedCommand,
               call' = [call EXCEPT ![c] = Started(command, pc)],
               UNCHANGED <<world, row, hits>>
        PROVE  IngestTyped'
    <2>1. PICK of : of = Started(command, pc)
      OBVIOUS
    <2>2. of \in CallType /\ CallOf(c, of)
      BY <1>3, <2>1, CallsStart
    <2>3. Turn(c, of)
      BY <1>3, <2>1 DEF Turn
    <2>4. CallsTyped'
      BY <1>1, <2>2, <2>3, Turns
    <2>5. QED
      BY <1>1, <1>3, <2>4 DEF IngestTyped, RowsTyped, WorldTyped, world
  <1>4. ASSUME NEW c \in Reports, NEW command \in ReportCommand, Report(c, command)
        PROVE  IngestTyped'
    <2>1. c \in Calls /\ c \notin Feeds
      BY IngestionAssumption DEF Calls
    <2>2. UNCHANGED <<world, row, hits>>
          /\ \E pc \in {"replay", "refused"} : call' = [call EXCEPT ![c] = Started(command, pc)]
      BY <1>4 DEF Report
    <2>3. QED
      BY <1>3, <2>1, <2>2
  <1>5. ASSUME NEW c \in Feeds, NEW command \in FeedCommand, Offer(c, command)
        PROVE  IngestTyped'
    <2>1. c \in Calls /\ c \notin Reports
      BY IngestionAssumption DEF Calls
    <2>2. UNCHANGED <<world, row, hits>> /\ call' = [call EXCEPT ![c] = Started(command, "latest")]
      BY <1>5 DEF Offer
    <2>3. QED
      BY <1>3, <2>1, <2>2
  <1>6. CASE NextDay
    <2>1. today' \in 0 .. MaxToday /\ hits' \in [Users -> Nat]
      BY <1>1, <1>6, IngestionAssumption DEF NextDay, WorldTyped
    <2>2. QED
      BY <1>1, <1>6, <2>1 DEF NextDay, IngestTyped, RowsTyped, CallsTyped, WorldTyped
  <1>7. CASE SelectExpired
    BY <1>1, <1>7 DEF SelectExpired, Expired, Present, IngestTyped, RowsTyped, CallsTyped, WorldTyped
  <1>8. CASE DeleteExpired
    <2>1. WorldTyped' /\ CallsTyped'
      BY <1>1, <1>8 DEF DeleteExpired, WorldTyped, CallsTyped
    <2>2. QED
      BY <1>1, <1>8, <2>1, RowsDeleted DEF IngestTyped
  <1>9. CASE RetireProduct
    BY <1>1, <1>9 DEF RetireProduct, IngestTyped, RowsTyped, CallsTyped, WorldTyped
  <1>10. QED
    BY <1>2, <1>4, <1>5, <1>6, <1>7, <1>8, <1>9, StepKeepsTypes DEF IngestNext

LEMMA IngestStartsTyped ==
  ASSUME IngestInit
  PROVE  IngestTyped
  <1>1. RowsTyped
    <2>1. PICK status \in {"ACCEPTED", "FLAGGED"}, price \in SomePrices :
            row = [r \in RowIds |-> IF r # 1 THEN NoRow ELSE
                    [there |-> TRUE, used |-> TRUE, id |-> None, key |-> -1,
                     price |-> price, user |-> None, status |-> status,
                     observed |-> -1, received |-> -1, confirmed |-> None, counted |-> None]]
      BY DEF IngestInit
    <2>2. [there |-> TRUE, used |-> TRUE, id |-> None, key |-> -1,
           price |-> price, user |-> None, status |-> status,
           observed |-> -1, received |-> -1, confirmed |-> None, counted |-> None] \in RowType
      BY DEF RowType, Trusts
    <2>3. QED
      BY <2>1, <2>2 DEF RowsTyped
  <1>2. CallsTyped
    <2>1. Started(None, "new") \in CallType
      BY DEF Started, CallType
    <2>2. ASSUME NEW c \in Calls PROVE CallOf(c, Started(None, "new"))
      BY DEF Started, CallOf
    <2>3. QED
      BY <2>1, <2>2 DEF IngestInit, CallsTyped
  <1>3. WorldTyped
    <2>1. today \in 0 .. MaxToday
      BY IngestionAssumption DEF IngestInit
    <2>2. hits \in [Users -> Nat]
      BY DEF IngestInit
    <2>3. pruner \in [pc : {"idle", "delete"}, ids : SUBSET RowIds] /\ retired \in BOOLEAN
      BY DEF IngestInit
    <2>4. QED
      BY <2>1, <2>2, <2>3 DEF WorldTyped
  <1>4. QED
    BY <1>1, <1>2, <1>3 DEF IngestTyped

-----------------------------------------------------------------------------
(***************************************************************************)
(* Answers.  No step gives a row another author, price or key, or sets its *)
(* confirmation back, and no step gives a used place to another row; so    *)
(* what was true of a call's answer when it was given stays true.          *)
(***************************************************************************)
Same(r, old, new) ==
    /\ new.user = old.user /\ new.price = old.price /\ new.key = old.key
    /\ new.status = old.status /\ new.observed = old.observed
    /\ old.confirmed # None => new.confirmed # None /\ new.confirmed >= old.confirmed

Stands(r, old, new) ==
    /\ old.used => new.used
    /\ old.used /\ new.there => old.there /\ Same(r, old, new)

RowsStand == \A r \in RowIds : Stands(r, row[r], row'[r])

\* Of a call: what it is answered with, or means to confirm, has a place; a
\* report's answer is its author's; a feed's is confirmed or its own; and what
\* is to be confirmed may be.
Placed(of) == of.pc \in {"answered", "confirm"} => row[of.row].used
ToItsAuthor(of) ==
    of.pc = "answered" /\ row[of.row].there =>
        /\ row[of.row].user = of.command.user
        /\ row[of.row].price = of.command.price \/ of.command.id # None
ToItsDay(of) ==
    of.pc = "answered" /\ row[of.row].there =>
        \/ row[of.row].observed >= of.command.observed
        \/ row[of.row].key = of.command.key
        \/ (row[of.row].confirmed # None /\ row[of.row].confirmed >= of.command.observed)
MayConfirm(of) ==
    of.pc = "confirm" /\ row[of.row].there =>
        /\ row[of.row].status = "ACCEPTED" /\ row[of.row].user = None
        /\ row[of.row].observed < of.command.observed

Sound(c, of) ==
    /\ Placed(of) /\ MayConfirm(of)
    /\ c \in Reports => ToItsAuthor(of)
    /\ c \in Feeds => ToItsDay(of)

\* Of a row: a key makes it nobody's, and what is in doubt is not confirmed.
InOrder(of) ==
    of.there =>
        /\ of.key # None => of.user = None
        /\ of.confirmed # None =>
             of.status = "ACCEPTED" /\ of.user = None /\ of.confirmed > of.observed

AnswersTrue ==
    /\ \A c \in Calls : Sound(c, call[c])
    /\ \A r \in RowIds : InOrder(row[r])

\* What a call that did not move was told stays true.
LEMMA AnswersStand ==
  ASSUME RowsTyped, RowsTyped', RowsStand, NEW c \in Calls,
         NEW of \in CallType, CallOf(c, of), Sound(c, of)
  PROVE  Sound(c, of)'
  <1>1. \A r \in RowIds : /\ row[r] \in RowType \cup {NoRow, Deleted}
                          /\ row'[r] \in RowType \cup {NoRow, Deleted}
    BY DEF RowsTyped
  <1>2. CASE of.pc \notin {"answered", "confirm"}
    BY <1>2 DEF Sound, Placed, ToItsAuthor, ToItsDay, MayConfirm
  <1>3. CASE of.pc \in {"answered", "confirm"}
    <2>1. of.row \in RowIds /\ row[of.row].used
      BY <1>3 DEF CallOf, Sound, Placed
    <2>2. Stands(of.row, row[of.row], row'[of.row])
      BY <2>1 DEF RowsStand
    <2>3. ASSUME row'[of.row].there
          PROVE  /\ row[of.row].there /\ Same(of.row, row[of.row], row'[of.row])
                 /\ row[of.row].confirmed # None => row[of.row].confirmed \in Int
                 /\ row'[of.row].confirmed # None => row'[of.row].confirmed \in Int
      <3>1. row[of.row].there /\ Same(of.row, row[of.row], row'[of.row])
        BY <2>1, <2>2, <2>3 DEF Stands
      <3>2. QED
        BY <1>1, <2>1, <2>3, <3>1, RowFields
    <2>4. Placed(of)'
      BY <2>1, <2>2 DEF Placed, Stands
    <2>5. MayConfirm(of)' /\ (c \in Reports => ToItsAuthor(of)')
      BY <2>3 DEF MayConfirm, ToItsAuthor, Sound, Same
    <2>6. ASSUME c \in Feeds PROVE ToItsDay(of)'
      <3>1. SUFFICES ASSUME of.pc = "answered", row'[of.row].there
                     PROVE  \/ row'[of.row].observed >= of.command.observed
                            \/ row'[of.row].key = of.command.key
                            \/ /\ row'[of.row].confirmed # None
                               /\ row'[of.row].confirmed >= of.command.observed
        BY DEF ToItsDay
      <3>2. row[of.row].there /\ Same(of.row, row[of.row], row'[of.row])
        BY <2>3, <3>1
      <3>3. CASE row[of.row].confirmed # None /\ row[of.row].confirmed >= of.command.observed
        <4>1. row'[of.row].confirmed # None /\ row'[of.row].confirmed >= row[of.row].confirmed
          BY <3>2, <3>3 DEF Same
        <4>2. row'[of.row].confirmed \in Int /\ row[of.row].confirmed \in Int
          BY <2>3, <3>1, <3>3, <4>1
        <4>3. of.command.observed \in Int
          BY <2>6, <3>1 DEF CallOf, FeedCommand
        <4>4. QED
          BY <3>3, <4>1, <4>2, <4>3
      <3>4. QED
        BY <2>6, <3>1, <3>2, <3>3 DEF Sound, ToItsDay, Same
    <2>7. QED
      BY <2>4, <2>5, <2>6 DEF Sound
  <1>4. QED
    BY <1>2, <1>3

LEMMA AnswersKept ==
  ASSUME IngestTyped, IngestTyped', RowsStand, \A d \in Calls : Sound(d, call[d]),
         NEW c \in Calls, \A d \in Calls \ {c} : call'[d] = call[d],
         Sound(c, call[c])'
  PROVE  (\A d \in Calls : Sound(d, call[d]))'
  <1>1. ASSUME NEW d \in Calls, d # c PROVE Sound(d, call[d])'
    <2>1. PICK of : of = call[d] /\ of = call'[d]
      BY <1>1
    <2>2. of \in CallType /\ CallOf(d, of) /\ Sound(d, of)
      BY <2>1 DEF IngestTyped, CallsTyped
    <2>3. Sound(d, of)'
      BY <2>2, AnswersStand DEF IngestTyped
    <2>4. QED
      BY <2>1, <2>3 DEF Sound, Placed, ToItsAuthor, ToItsDay, MayConfirm
  <1>2. QED
    BY <1>1

\* A call that is told nothing yet.
LEMMA AnswersWaiting ==
  ASSUME NEW c, call'[c].pc \notin {"answered", "confirm"}
  PROVE  Sound(c, call[c])'
  BY DEF Sound, Placed, ToItsAuthor, ToItsDay, MayConfirm

LEMMA CallContinued ==
  ASSUME CallsTyped, NEW c \in Calls, NEW pc, Continue(c, pc)
  PROVE  /\ call'[c].pc = pc /\ call'[c].counted = call[c].counted
         /\ \A d \in Calls \ {c} : call'[d] = call[d]
  BY DEF CallsTyped, CallType, Continue

LEMMA CallAnswered ==
  ASSUME CallsTyped, NEW c \in Calls, NEW r, Answer(c, r)
  PROVE  /\ call'[c].pc = "answered" /\ call'[c].row = r
         /\ call'[c].command = call[c].command
         /\ \A d \in Calls \ {c} : call'[d] = call[d]
  BY DEF CallsTyped, CallType, Answer

LEMMA RowsUntouched ==
  ASSUME RowsTyped, UNCHANGED row
  PROVE  RowsStand
  <1>1. ASSUME NEW r \in RowIds, row[r].there, row[r].confirmed # None
        PROVE  row[r].confirmed \in Int
    BY <1>1, RowFields DEF RowsTyped
  <1>2. QED
    BY <1>1 DEF RowsStand, Stands, Same

LEMMA SilentSteps ==
  ASSUME IngestTyped, IngestTyped', AnswersTrue, NEW c \in Calls, NEW pc,
         pc \notin {"answered", "confirm"}, Continue(c, pc), UNCHANGED row
  PROVE  AnswersTrue'
  <1>1. RowsStand
    BY RowsUntouched DEF IngestTyped
  <1>2. call'[c].pc = pc /\ \A d \in Calls \ {c} : call'[d] = call[d]
    BY CallContinued DEF IngestTyped
  <1>3. Sound(c, call[c])'
    BY <1>2, AnswersWaiting
  <1>4. QED
    BY <1>1, <1>2, <1>3, AnswersKept DEF AnswersTrue

\* A report is answered with its author's row, a feed with its day's.
LEMMA AnswersGiven ==
  ASSUME IngestTyped, IngestTyped', AnswersTrue, NEW c \in Calls, NEW r \in RowIds,
         Answer(c, r), UNCHANGED row, row[r].there,
         c \in Reports => /\ row[r].user = call[c].command.user
                          /\ row[r].price = call[c].command.price \/ call[c].command.id # None,
         c \in Feeds => \/ row[r].key = call[c].command.key
                        \/ row[r].confirmed # None /\ row[r].confirmed >= call[c].command.observed
  PROVE  AnswersTrue'
  <1>1. RowsStand
    BY RowsUntouched DEF IngestTyped
  <1>2. /\ call'[c].pc = "answered" /\ call'[c].row = r /\ call'[c].command = call[c].command
        /\ \A d \in Calls \ {c} : call'[d] = call[d]
    BY CallAnswered DEF IngestTyped
  <1>3. row[r].used
    BY RowFields DEF IngestTyped, RowsTyped
  <1>4. Sound(c, call[c])'
    BY <1>2, <1>3 DEF Sound, Placed, ToItsAuthor, ToItsDay, MayConfirm
  <1>5. QED
    BY <1>1, <1>2, <1>4, AnswersKept DEF AnswersTrue

LEMMA CompareIsSound ==
  ASSUME IngestTyped, IngestTyped', AnswersTrue, NEW c \in Calls, CompareLatest(c)
  PROVE  AnswersTrue'
  <1>1. c \in Feeds /\ c \notin Reports /\ UNCHANGED row
    BY DEF CompareLatest, IngestTyped, CallsTyped, CallOf, Calls
  <1>2. Latest \subseteq RowIds /\ \A r \in Latest : row[r].there /\ row[r].key # None
    BY DEF Latest, Present
  <1>3. CASE Continue(c, "replay")
    BY <1>1, <1>3, SilentSteps
  <1>4. ASSUME NEW r \in Latest, Unchanged(c, r),
               IF row[r].confirmed # None /\ row[r].confirmed >= Command(c).observed
               THEN Answer(c, r)
               ELSE call' = [call EXCEPT ![c].pc = "confirm", ![c].row = r]
        PROVE  AnswersTrue'
    <2>1. r \in RowIds /\ row[r].there /\ row[r].user = None
          /\ row[r].status = "ACCEPTED" /\ row[r].observed < call[c].command.observed
      BY <1>2, <1>4 DEF Unchanged, Command, AnswersTrue, InOrder
    <2>2. CASE Answer(c, r) /\ row[r].confirmed # None /\ row[r].confirmed >= Command(c).observed
      BY <1>1, <2>1, <2>2, AnswersGiven DEF Command
    <2>3. CASE call' = [call EXCEPT ![c].pc = "confirm", ![c].row = r]
      <3>1. /\ call'[c].pc = "confirm" /\ call'[c].row = r /\ call'[c].command = call[c].command
            /\ \A d \in Calls \ {c} : call'[d] = call[d]
        BY <2>3 DEF IngestTyped, CallsTyped, CallType
      <3>2. row[r].used
        BY <2>1, RowFields DEF IngestTyped, RowsTyped
      <3>3. Sound(c, call[c])'
        BY <1>1, <2>1, <3>1, <3>2 DEF Sound, Placed, ToItsAuthor, ToItsDay, MayConfirm
      <3>4. RowsStand
        BY <1>1, RowsUntouched DEF IngestTyped
      <3>5. QED
        BY <1>1, <3>1, <3>3, <3>4, AnswersKept DEF AnswersTrue
    <2>4. QED
      BY <1>4, <2>2, <2>3
  <1>5. QED
    BY <1>3, <1>4 DEF CompareLatest

LEMMA ConfirmIsSound ==
  ASSUME IngestTyped, IngestTyped', AnswersTrue, NEW c \in Calls, ConfirmMany(c)
  PROVE  AnswersTrue'
  <1> DEFINE r == call[c].row
             at == call[c].command.observed
  <1>1. /\ call[c].pc = "confirm" /\ c \in Feeds /\ c \notin Reports /\ r \in RowIds
        /\ call[c].command \in FeedCommand
    BY DEF ConfirmMany, IngestTyped, CallsTyped, CallOf, Calls
  <1>2. at \in 0 .. MaxToday
    BY <1>1 DEF FeedCommand
  <1>3. ASSUME row[r].there, row[r].confirmed = None \/ row[r].confirmed < at,
               row' = [row EXCEPT ![r].confirmed = at], Answer(c, r)
        PROVE  AnswersTrue'
    <2>1. /\ row'[r] = [row[r] EXCEPT !.confirmed = at]
          /\ \A s \in RowIds \ {r} : row'[s] = row[s]
      BY <1>1, <1>2, <1>3, RowsConfirmed DEF IngestTyped
    <2>2. row[r] \in RowType /\ row[r].used
          /\ (row[r].confirmed # None => row[r].confirmed \in Int)
      BY <1>1, <1>3, RowFields DEF IngestTyped, RowsTyped
    <2>3. /\ row'[r].confirmed = at /\ row'[r].there /\ row'[r].used
          /\ row'[r].user = row[r].user /\ row'[r].price = row[r].price
          /\ row'[r].key = row[r].key /\ row'[r].status = row[r].status
          /\ row'[r].observed = row[r].observed
      <3>1. PICK old : old = row[r]
        OBVIOUS
      <3>2. PICK new : new = [old EXCEPT !.confirmed = at]
        OBVIOUS
      <3>3. old \in RowType /\ row'[r] = new
        BY <2>1, <2>2, <3>1, <3>2
      <3>4. /\ new.confirmed = at /\ new.there = old.there /\ new.used = old.used
            /\ new.user = old.user /\ new.price = old.price /\ new.key = old.key
            /\ new.status = old.status /\ new.observed = old.observed
        BY <3>2, <3>3 DEF RowType
      <3>5. QED
        BY <1>3, <2>2, <3>1, <3>3, <3>4
    <2>4. at \in Int /\ at # None
      BY <1>2, IngestionAssumption
    <2>5. RowsStand
      <3>1. Stands(r, row[r], row'[r])
        BY <1>3, <2>2, <2>3, <2>4 DEF Stands, Same
      <3>2. ASSUME NEW s \in RowIds, s # r PROVE Stands(s, row[s], row'[s])
        <4>1. row'[s] = row[s]
          BY <2>1, <3>2
        <4>2. row[s].there /\ row[s].confirmed # None => row[s].confirmed \in Int
          BY <3>2, RowFields DEF IngestTyped, RowsTyped
        <4>3. QED
          BY <4>1, <4>2 DEF Stands, Same
      <3>3. QED
        BY <3>1, <3>2 DEF RowsStand
    <2>6. row[r].status = "ACCEPTED" /\ row[r].user = None /\ row[r].observed < at
      BY <1>1, <1>3 DEF AnswersTrue, Sound, MayConfirm
    <2>7. (\A s \in RowIds : InOrder(row[s]))'
      <3>1. InOrder(row'[r])
        <4>1. row[r].observed \in Int
          BY <2>2 DEF RowType
        <4>2. QED
          BY <2>3, <2>4, <2>6, <4>1 DEF InOrder
      <3>2. QED
        BY <2>1, <3>1 DEF AnswersTrue
    <2>8. /\ call'[c].pc = "answered" /\ call'[c].row = r /\ call'[c].command = call[c].command
          /\ \A d \in Calls \ {c} : call'[d] = call[d]
      BY <1>3, CallAnswered DEF IngestTyped
    <2>9. Sound(c, call[c])'
      BY <1>1, <2>3, <2>4, <2>8 DEF Sound, Placed, ToItsDay, MayConfirm
    <2>10. QED
      BY <2>5, <2>7, <2>8, <2>9, AnswersKept DEF AnswersTrue
  <1>4. ASSUME call' = [call EXCEPT ![c].pc = "replay", ![c].row = None], UNCHANGED row
        PROVE  AnswersTrue'
    <2>1. call'[c].pc = "replay" /\ \A d \in Calls \ {c} : call'[d] = call[d]
      BY <1>4 DEF IngestTyped, CallsTyped, CallType
    <2>2. RowsStand /\ Sound(c, call[c])'
      BY <1>4, <2>1, RowsUntouched, AnswersWaiting DEF IngestTyped
    <2>3. QED
      BY <1>4, <2>1, <2>2, AnswersKept DEF AnswersTrue
  <1>5. QED
    BY <1>3, <1>4 DEF ConfirmMany, Command

LEMMA CreateIsSound ==
  ASSUME IngestTyped, IngestTyped', AnswersTrue, NEW c \in Calls, CreateObservation(c)
  PROVE  AnswersTrue'
  <1>1. call[c].pc = "create" /\ call[c].command \in ReportCommand \cup FeedCommand
        /\ (c \in Reports => call[c].command \in ReportCommand)
        /\ (c \in Feeds => call[c].command \in FeedCommand)
    BY DEF CreateObservation, IngestTyped, CallsTyped, CallOf, Calls
  <1>2. ASSUME NEW r \in RowIds, Fresh(r), row' = [row EXCEPT ![r] = RowOf(c)], Answer(c, r)
        PROVE  AnswersTrue'
    <2>1. PICK new : new = RowOf(c)
      OBVIOUS
    <2>2. new \in RowType /\ new.confirmed = None /\ new.used /\ new.there
          /\ new.user = call[c].command.user /\ new.price = call[c].command.price
          /\ new.key = call[c].command.key
      BY <1>1, <2>1, RowsMade DEF RowOf, Command
    <2>3. row'[r] = new /\ \A s \in RowIds \ {r} : row'[s] = row[s]
      BY <1>2, <2>1 DEF IngestTyped, RowsTyped
    <2>4. RowsStand
      <3>1. Stands(r, row[r], row'[r])
        BY <1>2 DEF Stands, Fresh
      <3>2. ASSUME NEW s \in RowIds, s # r PROVE Stands(s, row[s], row'[s])
        <4>1. row'[s] = row[s]
          BY <2>3, <3>2
        <4>2. row[s].there /\ row[s].confirmed # None => row[s].confirmed \in Int
          BY <3>2, RowFields DEF IngestTyped, RowsTyped
        <4>3. QED
          BY <4>1, <4>2 DEF Stands, Same
      <3>3. QED
        BY <3>1, <3>2 DEF RowsStand
    <2>5. InOrder(new)
      <3>1. call[c].command.key # None => call[c].command.user = None
        BY <1>1 DEF ReportCommand, FeedCommand
      <3>2. QED
        BY <2>2, <3>1 DEF InOrder
    <2>6. (\A s \in RowIds : InOrder(row[s]))'
      BY <2>3, <2>5 DEF AnswersTrue
    <2>7. /\ call'[c].pc = "answered" /\ call'[c].row = r /\ call'[c].command = call[c].command
          /\ \A d \in Calls \ {c} : call'[d] = call[d]
      BY <1>2, CallAnswered DEF IngestTyped
    <2>8. Sound(c, call[c])'
      BY <2>2, <2>3, <2>7 DEF Sound, Placed, ToItsAuthor, ToItsDay, MayConfirm
    <2>9. QED
      BY <2>4, <2>6, <2>7, <2>8, AnswersKept DEF AnswersTrue
  <1>3. ASSUME NEW r \in SameIdentity(Command(c)), UNCHANGED row,
               IF BelongsToCaller(c, r) THEN Answer(c, r) ELSE Reject(c)
        PROVE  AnswersTrue'
    <2>1. r \in RowIds /\ row[r].there
      BY DEF SameIdentity, Present
    <2>2. CASE BelongsToCaller(c, r) /\ Answer(c, r)
      <3>1. c \in Reports => call[c].command.key = None
        BY <1>1 DEF ReportCommand
      <3>2. c \in Feeds => call[c].command.id = None
        BY <1>1 DEF FeedCommand
      <3>3. \/ call[c].command.id # None
            \/ call[c].command.key # None /\ row[r].key = call[c].command.key
        BY DEF SameIdentity, Command
      <3>4. row[r].user = call[c].command.user
        BY <2>2 DEF BelongsToCaller, Command
      <3>5. QED
        BY <1>3, <2>1, <2>2, <3>1, <3>2, <3>3, <3>4, AnswersGiven
    <2>3. CASE Reject(c)
      BY <1>3, <2>3, SilentSteps DEF Reject
    <2>4. QED
      BY <1>3, <2>2, <2>3
  <1>4. QED
    BY <1>2, <1>3 DEF CreateObservation

LEMMA ReplayIsSound ==
  ASSUME IngestTyped, IngestTyped', AnswersTrue, NEW c \in Calls, FindReplay(c)
  PROVE  AnswersTrue'
  <1>1. UNCHANGED row
        /\ (c \in Reports => call[c].command \in ReportCommand)
        /\ (c \in Feeds => call[c].command \in FeedCommand)
    BY DEF FindReplay, IngestTyped, CallsTyped, CallOf, Calls
  <1>2. CASE Continue(c, "catalog")
    BY <1>1, <1>2, SilentSteps
  <1>3. ASSUME NEW r \in SameIdentity(Command(c)), BelongsToCaller(c, r), Answer(c, r)
        PROVE  AnswersTrue'
    <2>1. r \in RowIds /\ row[r].there /\ row[r].user = call[c].command.user
      BY <1>3 DEF SameIdentity, Present, BelongsToCaller, Command
    <2>2. c \in Reports => call[c].command.key = None
      BY <1>1 DEF ReportCommand
    <2>3. c \in Feeds => call[c].command.id = None
      BY <1>1 DEF FeedCommand
    <2>4. \/ call[c].command.id # None
          \/ call[c].command.key # None /\ row[r].key = call[c].command.key
      BY DEF SameIdentity, Command
    <2>5. QED
      BY <1>1, <1>3, <2>1, <2>2, <2>3, <2>4, AnswersGiven
  <1>4. CASE Reject(c)
    BY <1>1, <1>4, SilentSteps DEF Reject
  <1>5. QED
    BY <1>2, <1>3, <1>4 DEF FindReplay

LEMMA IngestKeepsAnswers ==
  ASSUME IngestTyped, AnswersTrue, [IngestNext]_ingestVars
  PROVE  AnswersTrue'
  <1>1. IngestTyped'
    BY IngestKeepsTypes
  <1>2. ASSUME UNCHANGED <<row, call>> PROVE AnswersTrue'
    BY <1>2 DEF AnswersTrue, Sound, Placed, ToItsAuthor, ToItsDay, MayConfirm
  <1>3. ASSUME NEW c \in Calls, NEW command, NEW pc, pc \in {"replay", "refused", "latest"},
               call' = [call EXCEPT ![c] = Started(command, pc)], UNCHANGED row
        PROVE  AnswersTrue'
    <2>1. call'[c].pc = pc /\ \A d \in Calls \ {c} : call'[d] = call[d]
      BY <1>3 DEF IngestTyped, CallsTyped, Started
    <2>2. RowsStand /\ Sound(c, call[c])'
      BY <1>3, <2>1, RowsUntouched, AnswersWaiting DEF IngestTyped
    <2>3. QED
      BY <1>1, <1>3, <2>1, <2>2, AnswersKept DEF AnswersTrue
  <1>4. ASSUME NEW c \in Reports, NEW command \in ReportCommand, Report(c, command)
        PROVE  AnswersTrue'
    BY <1>3, <1>4 DEF Report, Calls
  <1>5. ASSUME NEW c \in Feeds, NEW command \in FeedCommand, Offer(c, command)
        PROVE  AnswersTrue'
    BY <1>3, <1>5 DEF Offer, Calls
  <1>6. ASSUME NEW c \in Calls, IngestStep(c) PROVE AnswersTrue'
    <2>1. CASE CheckCatalog(c)
      <3>1. UNCHANGED row /\ \E pc \in {"judge", "refused", "twice"} : Continue(c, pc)
        BY <2>1 DEF CheckCatalog, Reject
      <3>2. QED
        BY <1>1, <3>1, SilentSteps
    <2>2. CASE FindDuplicate(c)
      <3>1. UNCHANGED row /\ c \in Reports /\ c \notin Feeds
        BY <2>2, IngestionAssumption DEF FindDuplicate, IngestTyped, CallsTyped, CallOf
      <3>2. CASE Continue(c, "count")
        BY <1>1, <3>1, <3>2, SilentSteps
      <3>3. ASSUME NEW r \in RowIds, row[r].there, row[r].user = Command(c).user,
                   row[r].price = Command(c).price, Answer(c, r)
            PROVE  AnswersTrue'
        BY <1>1, <3>1, <3>3, AnswersGiven DEF Command
      <3>4. QED
        BY <2>2, <3>2, <3>3 DEF FindDuplicate, Present
    <2>3. CASE CountSubmission(c)
      <3>1. CASE Counted(c)
        <4>1. call'[c].pc = "judge" /\ UNCHANGED row /\ \A d \in Calls \ {c} : call'[d] = call[d]
          BY <2>3, <3>1 DEF CountSubmission, Counted, IngestTyped, CallsTyped, CallType
        <4>2. RowsStand /\ Sound(c, call[c])'
          BY <4>1, RowsUntouched, AnswersWaiting DEF IngestTyped
        <4>3. QED
          BY <1>1, <4>1, <4>2, AnswersKept DEF AnswersTrue
      <3>2. CASE Continue(c, "judge") \/ Continue(c, "refused")
        BY <1>1, <2>3, <3>2, SilentSteps DEF CountSubmission
      <3>3. QED
        BY <2>3, <3>1, <3>2 DEF CountSubmission, Reject
    <2>4. CASE Judge(c)
      <3>1. call'[c].pc = "create" /\ UNCHANGED row /\ \A d \in Calls \ {c} : call'[d] = call[d]
        BY <2>4 DEF Judge, IngestTyped, CallsTyped, CallType
      <3>2. RowsStand /\ Sound(c, call[c])'
        BY <3>1, RowsUntouched, AnswersWaiting DEF IngestTyped
      <3>3. QED
        BY <1>1, <3>1, <3>2, AnswersKept DEF AnswersTrue
    <2>5. QED
      BY <1>1, <1>6, <2>1, <2>2, <2>3, <2>4, CompareIsSound, ConfirmIsSound, ReplayIsSound,
         CreateIsSound DEF IngestStep
  <1>7. CASE DeleteExpired
    <2>1. UNCHANGED call /\ RowsTyped /\ RowsTyped'
          /\ \A r \in RowIds : row'[r] = row[r] \/ (row[r].there /\ row'[r] = Deleted)
      BY <1>1, <1>7, RowsDeleted DEF DeleteExpired, IngestTyped
    <2>2. ~Deleted.there /\ Deleted.used
      BY DEF Deleted
    <2>3. RowsStand
      <3>1. ASSUME NEW r \in RowIds PROVE Stands(r, row[r], row'[r])
        <4>1. row[r].there /\ row[r].confirmed # None => row[r].confirmed \in Int
          BY <2>1, RowFields DEF RowsTyped
        <4>2. QED
          BY <2>1, <2>2, <4>1 DEF Stands, Same
      <3>2. QED
        BY <3>1 DEF RowsStand
    <2>4. (\A r \in RowIds : InOrder(row[r]))'
      BY <2>1, <2>2 DEF AnswersTrue, InOrder
    <2>5. ASSUME NEW c \in Calls PROVE Sound(c, call[c])'
      <3>1. PICK of : of = call[c] /\ of = call'[c]
        BY <2>1
      <3>2. Sound(c, of)'
        BY <2>1, <2>3, <3>1, AnswersStand DEF IngestTyped, CallsTyped, AnswersTrue
      <3>3. QED
        BY <3>1, <3>2 DEF Sound, Placed, ToItsAuthor, ToItsDay, MayConfirm
    <2>6. QED
      BY <2>4, <2>5 DEF AnswersTrue
  <1>8. QED
    BY <1>2, <1>4, <1>5, <1>6, <1>7
    DEF IngestNext, ingestVars, NextDay, SelectExpired, RetireProduct

\* IngestSpec keeps every value in its range.
THEOREM ReportsTyped == IngestSpec => []IngestTypeOK
  <1>1. IngestTyped => IngestTypeOK
    <2>1. SUFFICES ASSUME IngestTyped PROVE IngestTypeOK
      OBVIOUS
    <2>2. ASSUME NEW r \in RowIds, row[r].there
          PROVE  /\ row[r].price \in SomePrices
                 /\ row[r].status \in {"ACCEPTED", "FLAGGED", "REJECTED"}
                 /\ row[r].confirmed \in (0 .. MaxToday) \cup {None}
      <3>1. row[r] \in RowType
        BY <2>1, <2>2, RowFields DEF IngestTyped, RowsTyped
      <3>2. QED
        BY <3>1 DEF RowType, Trusts
    <2>3. ASSUME NEW c \in Calls
          PROVE  /\ call[c].pc \in {"new", "latest", "confirm", "replay", "catalog", "twice",
                                    "count", "judge", "create", "answered", "refused"}
                 /\ call[c].row \in RowIds \cup {None}
      BY <2>1 DEF IngestTyped, CallsTyped, CallType
    <2>4. QED
      BY <2>1, <2>2, <2>3 DEF IngestTypeOK, IngestTyped, WorldTyped
  <1>2. QED
    BY <1>1, IngestStartsTyped, IngestKeepsTypes, PTL DEF IngestSpec

LEMMA AnswersHold == IngestSpec => [](IngestTyped /\ AnswersTrue)
  <1>1. IngestInit => IngestTyped /\ AnswersTrue
    <2>1. SUFFICES ASSUME IngestInit PROVE IngestTyped /\ AnswersTrue
      OBVIOUS
    <2>2. ASSUME NEW c \in Calls PROVE Sound(c, call[c])
      <3>1. call[c].pc = "new"
        BY <2>1 DEF IngestInit, Started
      <3>2. QED
        BY <3>1 DEF Sound, Placed, ToItsAuthor, ToItsDay, MayConfirm
    <2>3. ASSUME NEW r \in RowIds PROVE InOrder(row[r])
      <3>1. CASE r = 1
        <4>1. row[r].key = -1 /\ row[r].user = None /\ row[r].confirmed = None
          BY <2>1, <3>1 DEF IngestInit
        <4>2. QED
          BY <4>1 DEF InOrder
      <3>2. CASE r # 1
        <4>1. row[r] = NoRow
          BY <2>1, <3>2 DEF IngestInit
        <4>2. QED
          BY <4>1 DEF NoRow, InOrder
      <3>3. QED
        BY <3>1, <3>2
    <2>4. QED
      BY <2>1, <2>2, <2>3, IngestStartsTyped DEF AnswersTrue
  <1>2. IngestTyped /\ AnswersTrue /\ [IngestNext]_ingestVars => (IngestTyped /\ AnswersTrue)'
    BY IngestKeepsTypes, IngestKeepsAnswers
  <1>3. QED
    BY <1>1, <1>2, PTL DEF IngestSpec

\* A request is answered with a report of its own author and price, or with
\* the one its id names, however requests race and whatever retention deletes.
THEOREM AuthorsAnswered == IngestSpec => []AnswersAreTheCallers
  <1>1. IngestTyped /\ AnswersTrue => AnswersAreTheCallers
    BY DEF AnswersTrue, Sound, ToItsAuthor, AnswersAreTheCallers, Command, Calls
  <1>2. QED
    BY <1>1, AnswersHold, PTL

\* What a feed repeated stays confirmed as far as it was told, and nothing in
\* doubt is ever confirmed.
THEOREM ConfirmationsKept == IngestSpec => []ConfirmationsLast
  <1>1. IngestTyped /\ AnswersTrue => ConfirmationsLast
    <2>1. SUFFICES ASSUME IngestTyped, AnswersTrue PROVE ConfirmationsLast
      OBVIOUS
    <2>2. \A r \in Present : row[r].confirmed # None =>
            row[r].status = "ACCEPTED" /\ row[r].user = None /\ row[r].confirmed > row[r].observed
      BY <2>1 DEF AnswersTrue, InOrder, Present
    <2>3. ASSUME NEW c \in Feeds PROVE ToItsDay(call[c])
      BY <2>1 DEF AnswersTrue, Sound, Calls
    <2>4. QED
      BY <2>2, <2>3 DEF ConfirmationsLast, ToItsDay, Command
  <1>2. QED
    BY <1>1, AnswersHold, PTL

-----------------------------------------------------------------------------
(***************************************************************************)
(* The hard limit.  A window's counter outlives neither its day nor the    *)
(* calls it let through, so what has used a unit of it is counted in two   *)
(* places: the calls on their way and the rows they left.                  *)
(***************************************************************************)
LEMMA CountedFinite ==
  ASSUME NEW u, NEW day
  PROVE  IsFiniteSet(CountedRows(u, day)) /\ IsFiniteSet(CountedCalls(u, day))
  <1>1. IsFiniteSet(RowIds)
    BY FS_Interval, IngestionAssumption DEF RowIds
  <1>2. CountedRows(u, day) \subseteq RowIds /\ CountedCalls(u, day) \subseteq Reports
    BY DEF CountedRows, CountedCalls, Present
  <1>3. QED
    BY <1>1, <1>2, FS_Subset, IngestionAssumption

LEMMA SmallerUse ==
  ASSUME NEW R, NEW S, NEW R2 \in SUBSET R, NEW S2 \in SUBSET S, IsFiniteSet(R), IsFiniteSet(S)
  PROVE  /\ Cardinality(R2) + Cardinality(S2) <= Cardinality(R) + Cardinality(S)
         /\ Cardinality(R2) + Cardinality(S2) \in Nat /\ Cardinality(R) + Cardinality(S) \in Nat
  <1>1. /\ IsFiniteSet(R2) /\ IsFiniteSet(S2)
        /\ Cardinality(R2) <= Cardinality(R) /\ Cardinality(S2) <= Cardinality(S)
    BY FS_Subset
  <1>2. {Cardinality(R), Cardinality(S), Cardinality(R2), Cardinality(S2)} \subseteq Nat
    BY <1>1, FS_CardinalityType
  <1>3. QED
    BY <1>1, <1>2

\* Nothing more is counted than before.
LEMMA QuietWindows ==
  ASSUME IngestTyped, IngestTyped', WindowsHold, today' = today,
         \A u \in Users : hits'[u] >= hits[u],
         \A u \in Users, day \in 0 .. MaxToday :
            /\ CountedRows(u, day)' \subseteq CountedRows(u, day)
            /\ CountedCalls(u, day)' \subseteq CountedCalls(u, day)
  PROVE  WindowsHold'
  <1>1. ASSUME NEW u \in Users, NEW day \in 0 .. MaxToday
        PROVE  Used(u, day)' <= Used(u, day) /\ Used(u, day)' \in Nat /\ Used(u, day) \in Nat
    BY CountedFinite, SmallerUse DEF Used
  <1>2. /\ today \in 0 .. MaxToday /\ MaxTarget \in Nat
        /\ \A u \in Users : hits[u] \in Nat /\ hits'[u] \in Nat
    BY IngestionAssumption DEF IngestTyped, WorldTyped
  <1>3. ASSUME NEW u \in Users PROVE Used(u, today)' <= hits'[u]
    <2>1. PICK now \in 0 .. MaxToday : now = today /\ now = today'
      BY <1>2
    <2>2. Used(u, today)' = Used(u, now)' /\ Used(u, today) = Used(u, now)
      BY <2>1 DEF Used, CountedRows, CountedCalls
    <2>3. QED
      BY <1>1, <1>2, <2>1, <2>2 DEF WindowsHold
  <1>4. ASSUME NEW u \in Users, NEW day \in 0 .. MaxToday
        PROVE  Used(u, day)' <= MaxTarget /\ (day > today' => Used(u, day)' = 0)
    BY <1>1, <1>2, <1>4 DEF WindowsHold
  <1>5. QED
    BY <1>3, <1>4 DEF WindowsHold

LEMMA RowsCountedNoMore ==
  ASSUME UNCHANGED row, NEW u, NEW day
  PROVE  CountedRows(u, day)' \subseteq CountedRows(u, day)
  BY DEF CountedRows, Present

\* A call that is not let through now is counted only if it was.
LEMMA CallsCountedNoMore ==
  ASSUME NEW c \in Calls, \A d \in Calls \ {c} : call'[d] = call[d],
         \/ c \notin Reports
         \/ call'[c].pc \notin {"judge", "create"}
         \/ call'[c].counted = None
         \/ /\ call[c].pc \in {"judge", "create"} /\ call'[c].counted = call[c].counted
            /\ call'[c].command = call[c].command,
         NEW u, NEW day \in 0 .. MaxToday
  PROVE  CountedCalls(u, day)' \subseteq CountedCalls(u, day)
  <1>1. day # None
    BY IngestionAssumption
  <1>2. ASSUME NEW d \in CountedCalls(u, day)' PROVE d \in CountedCalls(u, day)
    <2>1. d \in Reports /\ d \in Calls /\ call'[d].pc \in {"judge", "create"}
          /\ call'[d].command.user = u /\ call'[d].counted = day
      BY DEF CountedCalls, Command, Calls
    <2>2. CASE d # c
      BY <2>1, <2>2 DEF CountedCalls, Command
    <2>3. CASE d = c
      BY <1>1, <2>1, <2>3 DEF CountedCalls, Command
    <2>4. QED
      BY <2>2, <2>3
  <1>3. QED
    BY <1>2

\* A call moves alone, and leaves the rows' authors and windows alone.
LEMMA QuietCalls ==
  ASSUME IngestTyped, IngestTyped', WindowsHold, UNCHANGED world,
         \A u \in Users : hits'[u] >= hits[u],
         \A u \in Users, day \in 0 .. MaxToday : CountedRows(u, day)' \subseteq CountedRows(u, day),
         NEW c \in Calls, \A d \in Calls \ {c} : call'[d] = call[d],
         \/ c \notin Reports
         \/ call'[c].pc \notin {"judge", "create"}
         \/ call'[c].counted = None
         \/ /\ call[c].pc \in {"judge", "create"} /\ call'[c].counted = call[c].counted
            /\ call'[c].command = call[c].command
  PROVE  WindowsHold'
  <1>1. \A u \in Users, day \in 0 .. MaxToday :
          CountedCalls(u, day)' \subseteq CountedCalls(u, day)
    BY CallsCountedNoMore
  <1>2. QED
    BY <1>1, QuietWindows DEF world

\* CountSubmission spends a unit of today's counter on the call.
LEMMA CountKeepsWindows ==
  ASSUME IngestTyped, IngestTyped', WindowsHold, NEW c \in Calls, CountSubmission(c)
  PROVE  WindowsHold'
  <1>1. call[c].command.user \in Users
    BY DEF CountSubmission, IngestTyped, CallsTyped, CallOf, ReportCommand
  <1>2. PICK v \in Users : v = call[c].command.user
    BY <1>1
  <1>3. /\ c \in Reports /\ call[c].counted = None /\ call[c].pc = "count"
        /\ UNCHANGED <<world, row>>
    BY DEF CountSubmission, IngestTyped, CallsTyped, CallOf
  <1>4. \A u \in Users, day \in 0 .. MaxToday : CountedRows(u, day)' \subseteq CountedRows(u, day)
    BY <1>3, RowsCountedNoMore
  <1>5. hits \in [Users -> Nat] /\ today \in 0 .. MaxToday /\ MaxTarget \in Nat
    BY IngestionAssumption DEF IngestTyped, WorldTyped
  <1>6. hits' = [hits EXCEPT ![v] = @ + 1] \/ hits' = hits
    BY <1>2 DEF CountSubmission, Command
  <1>7. \A u \in Users : hits'[u] >= hits[u]
    BY <1>5, <1>6
  <1>8. ASSUME NEW pc \in {"judge", "refused"}, Continue(c, pc) PROVE WindowsHold'
    <2>1. /\ call'[c].pc = pc /\ call'[c].counted = None
          /\ \A d \in Calls \ {c} : call'[d] = call[d]
      BY <1>3, <1>8, CallContinued DEF IngestTyped
    <2>2. QED
      BY <1>3, <1>4, <1>7, <2>1, QuietCalls
  <1>9. ASSUME Counted(c), hits' = [hits EXCEPT ![v] = @ + 1], hits'[v] <= MaxTarget
        PROVE  WindowsHold'
    <2>1. /\ call'[c].pc = "judge" /\ call'[c].counted = today
          /\ call'[c].command = call[c].command /\ call'[c].command.user = v
          /\ \A d \in Calls \ {c} : call'[d] = call[d]
      BY <1>2, <1>9 DEF Counted, IngestTyped, CallsTyped, CallType
    <2>2. ASSUME NEW u \in Users, NEW day \in 0 .. MaxToday, u # v \/ day # today
          PROVE  CountedCalls(u, day)' \subseteq CountedCalls(u, day)
      <3>1. ASSUME NEW d \in CountedCalls(u, day)' PROVE d \in CountedCalls(u, day)
        <4>1. d \in Reports /\ d \in Calls /\ call'[d].pc \in {"judge", "create"}
              /\ call'[d].command.user = u /\ call'[d].counted = day
          BY DEF CountedCalls, Command, Calls
        <4>2. d # c
          BY <2>1, <2>2, <4>1
        <4>3. QED
          BY <2>1, <4>1, <4>2 DEF CountedCalls, Command
      <3>2. QED
        BY <3>1
    <2>3. ASSUME NEW u \in Users, NEW day \in 0 .. MaxToday, u # v \/ day # today
          PROVE  Used(u, day)' <= Used(u, day) /\ Used(u, day)' \in Nat /\ Used(u, day) \in Nat
      BY <1>4, <2>2, <2>3, CountedFinite, SmallerUse DEF Used
    <2>4. PICK now \in 0 .. MaxToday : now = today /\ now = today'
      BY <1>3, <1>5 DEF world
    <2>5. CountedCalls(v, now)' \subseteq CountedCalls(v, now) \cup {c}
      <3>1. ASSUME NEW d \in CountedCalls(v, now)', d # c PROVE d \in CountedCalls(v, now)
        BY <2>1, <3>1 DEF CountedCalls, Command, Calls
      <3>2. QED
        BY <3>1
    <2>6. Used(v, now)' <= Used(v, now) + 1 /\ Used(v, now)' \in Nat /\ Used(v, now) \in Nat
      <3>1. IsFiniteSet(CountedRows(v, now)) /\ IsFiniteSet(CountedCalls(v, now))
        BY CountedFinite
      <3>2. /\ IsFiniteSet(CountedCalls(v, now) \cup {c})
            /\ Cardinality(CountedCalls(v, now) \cup {c}) <= Cardinality(CountedCalls(v, now)) + 1
        <4>1. PICK S : S = CountedCalls(v, now)
          OBVIOUS
        <4>2. IsFiniteSet(S) /\ Cardinality(S) \in Nat
          BY <3>1, <4>1, FS_CardinalityType
        <4>3. /\ IsFiniteSet(S \cup {c})
              /\ Cardinality(S \cup {c}) = IF c \in S THEN Cardinality(S) ELSE Cardinality(S) + 1
          BY <4>2, FS_AddElement
        <4>4. QED
          BY <4>1, <4>2, <4>3
      <3>3. /\ Used(v, now)' <= Cardinality(CountedRows(v, now))
                                + Cardinality(CountedCalls(v, now) \cup {c})
            /\ Used(v, now)' \in Nat
        BY <1>3, <1>4, <2>5, <3>1, <3>2, SmallerUse DEF Used
      <3>4. Cardinality(CountedRows(v, now)) \in Nat /\ Cardinality(CountedCalls(v, now)) \in Nat
            /\ Cardinality(CountedCalls(v, now) \cup {c}) \in Nat
        BY <3>1, <3>2, FS_CardinalityType
      <3>5. QED
        BY <3>2, <3>3, <3>4 DEF Used
    <2>7. Used(v, now)' <= hits'[v] /\ Used(v, now)' <= MaxTarget
      <3>1. Used(v, now) <= hits[v]
        BY <1>3, <2>4 DEF WindowsHold
      <3>2. hits'[v] = hits[v] + 1 /\ hits[v] \in Nat /\ hits'[v] \in Nat
        BY <1>3, <1>5, <1>9
      <3>3. QED
        BY <1>5, <1>9, <2>6, <3>1, <3>2
    <2>8. ASSUME NEW u \in Users, NEW day \in 0 .. MaxToday
          PROVE  Used(u, day)' <= MaxTarget /\ (day > today' => Used(u, day)' = 0)
      <3>1. CASE u = v /\ day = now
        BY <1>5, <2>4, <2>7, <3>1
      <3>2. CASE u # v \/ day # now
        BY <1>5, <2>3, <2>4, <3>2 DEF WindowsHold
      <3>3. QED
        BY <3>1, <3>2
    <2>9. ASSUME NEW u \in Users PROVE Used(u, today)' <= hits'[u]
      <3>1. Used(u, today)' = Used(u, now)' /\ Used(u, today) = Used(u, now)
        BY <2>4 DEF Used, CountedRows, CountedCalls
      <3>2. CASE u = v
        BY <2>7, <3>1, <3>2
      <3>3. CASE u # v
        <4>1. hits[u] \in Nat /\ hits'[u] = hits[u] /\ Used(u, today) <= hits[u]
          BY <1>5, <1>9, <3>3 DEF WindowsHold
        <4>2. QED
          BY <2>3, <2>4, <3>1, <3>3, <4>1
      <3>4. QED
        BY <3>2, <3>3
    <2>10. QED
      BY <2>8, <2>9 DEF WindowsHold
  <1>10. \/ \E pc \in {"judge", "refused"} : Continue(c, pc)
        \/ (Counted(c) /\ hits' = [hits EXCEPT ![v] = @ + 1] /\ ~(hits'[v] > MaxTarget))
    BY <1>2 DEF CountSubmission, Command, Reject
  <1>11. hits'[v] \in Nat
    BY <1>3 DEF IngestTyped, WorldTyped
  <1>12. QED
    BY <1>5, <1>8, <1>9, <1>10, <1>11

\* CreateObservation turns a call's unit into its row's.
LEMMA CreateKeepsWindows ==
  ASSUME IngestTyped, IngestTyped', WindowsHold, NEW c \in Calls, CreateObservation(c)
  PROVE  WindowsHold'
  <1>1. call[c].pc = "create" /\ UNCHANGED <<world, hits>>
    BY DEF CreateObservation
  <1>2. /\ call[c].command \in ReportCommand \cup FeedCommand
        /\ c \in Reports => call[c].command \in ReportCommand
        /\ c \in Feeds => call[c].command \in FeedCommand
    BY <1>1 DEF IngestTyped, CallsTyped, CallOf, Calls
  <1>3. \A u \in Users : hits'[u] >= hits[u]
    BY <1>1 DEF IngestTyped, WorldTyped
  <1>4. ASSUME UNCHANGED row, NEW r, Answer(c, r) \/ Reject(c) PROVE WindowsHold'
    <2>1. call'[c].pc \in {"answered", "refused"} /\ \A d \in Calls \ {c} : call'[d] = call[d]
      BY <1>4, CallAnswered, CallContinued DEF IngestTyped, Reject
    <2>2. QED
      BY <1>1, <1>3, <1>4, <2>1, QuietCalls, RowsCountedNoMore
  <1>5. ASSUME NEW r \in RowIds, row' = [row EXCEPT ![r] = RowOf(c)], Fresh(r), Answer(c, r)
        PROVE  WindowsHold'
    <2>1. /\ call'[c].pc = "answered" /\ \A d \in Calls \ {c} : call'[d] = call[d]
      BY <1>5, CallAnswered DEF IngestTyped
    <2>2. PICK new : new = RowOf(c)
      OBVIOUS
    <2>3. new.user = call[c].command.user /\ new.counted = call[c].counted
      BY <2>2 DEF RowOf, Command
    <2>4. row'[r] = new /\ \A s \in RowIds \ {r} : row'[s] = row[s]
      BY <1>5, <2>2 DEF IngestTyped, RowsTyped
    <2>5. ASSUME NEW u \in Users, NEW day \in 0 .. MaxToday
          PROVE  CountedRows(u, day)' \subseteq CountedRows(u, day) \cup {r}
      BY <2>4 DEF CountedRows, Present
    <2>6. ASSUME NEW u \in Users, NEW day \in 0 .. MaxToday
          PROVE  CountedCalls(u, day)' \subseteq CountedCalls(u, day) \ {c}
      <3>1. CountedCalls(u, day)' \subseteq CountedCalls(u, day)
        BY <2>1, CallsCountedNoMore
      <3>2. c \notin CountedCalls(u, day)'
        BY <2>1 DEF CountedCalls
      <3>3. QED
        BY <3>1, <3>2
    <2>7. ASSUME NEW u \in Users, NEW day \in 0 .. MaxToday
          PROVE  Used(u, day)' <= Used(u, day) /\ Used(u, day)' \in Nat /\ Used(u, day) \in Nat
      <3>1. IsFiniteSet(CountedRows(u, day)) /\ IsFiniteSet(CountedCalls(u, day))
        BY CountedFinite
      <3>2. CASE u = call[c].command.user /\ day = call[c].counted
        <4>1. c \in Reports
          BY <1>2, <3>2, IngestionAssumption DEF FeedCommand, Calls
        <4>2. c \in CountedCalls(u, day)
          BY <1>1, <3>2, <4>1 DEF CountedCalls, Command
        <4>3. PICK R, S : R = CountedRows(u, day) /\ S = CountedCalls(u, day)
          OBVIOUS
        <4>4. /\ IsFiniteSet(R \cup {r}) /\ Cardinality(R \cup {r}) \in Nat /\ Cardinality(R) \in Nat
              /\ Cardinality(R \cup {r}) = Cardinality(R) \/ Cardinality(R \cup {r}) = Cardinality(R) + 1
          BY <3>1, <4>3, FS_AddElement, FS_CardinalityType
        <4>5. /\ IsFiniteSet(S \ {c}) /\ Cardinality(S \ {c}) \in Nat /\ Cardinality(S) \in Nat
              /\ Cardinality(S \ {c}) = Cardinality(S) - 1
          BY <3>1, <4>2, <4>3, FS_RemoveElement, FS_CardinalityType
        <4>6. /\ Cardinality(CountedRows(u, day)') + Cardinality(CountedCalls(u, day)')
                   <= Cardinality(R \cup {r}) + Cardinality(S \ {c})
              /\ Cardinality(CountedRows(u, day)') + Cardinality(CountedCalls(u, day)') \in Nat
          BY <2>5, <2>6, <4>3, <4>4, <4>5, SmallerUse
        <4>7. /\ Used(u, day) = Cardinality(R) + Cardinality(S)
              /\ Used(u, day)' = Cardinality(CountedRows(u, day)') + Cardinality(CountedCalls(u, day)')
          BY <4>3 DEF Used
        <4>8. QED
          BY <4>4, <4>5, <4>6, <4>7
      <3>3. CASE ~(u = call[c].command.user /\ day = call[c].counted)
        <4>1. CountedRows(u, day)' \subseteq CountedRows(u, day)
          BY <2>3, <2>4, <3>3 DEF CountedRows, Present
        <4>2. CountedCalls(u, day)' \subseteq CountedCalls(u, day)
          BY <2>6
        <4>3. QED
          BY <3>1, <4>1, <4>2, SmallerUse DEF Used
      <3>4. QED
        BY <3>2, <3>3
    <2>8. QED
      <3>1. /\ today \in 0 .. MaxToday /\ today' = today /\ MaxTarget \in Nat
            /\ \A u \in Users : hits[u] \in Nat /\ hits'[u] = hits[u]
        BY <1>1, IngestionAssumption DEF IngestTyped, WorldTyped, world
      <3>2. PICK now \in 0 .. MaxToday : now = today /\ now = today'
        BY <3>1
      <3>3. ASSUME NEW u \in Users PROVE Used(u, today)' <= hits'[u]
        <4>1. Used(u, today)' = Used(u, now)' /\ Used(u, today) = Used(u, now)
          BY <3>2 DEF Used, CountedRows, CountedCalls
        <4>2. QED
          BY <2>7, <3>1, <4>1 DEF WindowsHold
      <3>4. ASSUME NEW u \in Users, NEW day \in 0 .. MaxToday
            PROVE  Used(u, day)' <= MaxTarget /\ (day > today' => Used(u, day)' = 0)
        BY <2>7, <3>1 DEF WindowsHold
      <3>5. QED
        BY <3>3, <3>4 DEF WindowsHold
  <1>6. QED
    BY <1>4, <1>5 DEF CreateObservation

LEMMA DayKeepsWindows ==
  ASSUME IngestTyped, IngestTyped', WindowsHold, NextDay
  PROVE  WindowsHold'
  <1>1. /\ today \in 0 .. MaxToday /\ today' = today + 1 /\ today' \in 0 .. MaxToday
        /\ UNCHANGED <<row, call>> /\ hits' = [u \in Users |-> 0]
    BY DEF NextDay, IngestTyped, WorldTyped
  <1>2. ASSUME NEW u \in Users, NEW day \in 0 .. MaxToday
        PROVE  Used(u, day)' = Used(u, day)
    BY <1>1 DEF Used, CountedRows, CountedCalls, Present, Command
  <1>3. ASSUME NEW u \in Users PROVE Used(u, today)' <= hits'[u]
    <2>1. PICK next \in 0 .. MaxToday : next = today'
      BY <1>1
    <2>2. Used(u, today)' = Used(u, next)'
      BY <2>1 DEF Used, CountedRows, CountedCalls
    <2>3. Used(u, next) = 0
      BY <1>1, <2>1 DEF WindowsHold
    <2>4. QED
      BY <1>1, <1>2, <2>2, <2>3
  <1>4. QED
    BY <1>1, <1>2, <1>3 DEF WindowsHold

LEMMA IngestKeepsWindows ==
  ASSUME IngestTyped, WindowsHold, [IngestNext]_ingestVars
  PROVE  WindowsHold'
  <1>1. IngestTyped'
    BY IngestKeepsTypes
  <1>2. hits \in [Users -> Nat]
    BY DEF IngestTyped, WorldTyped
  <1>3. ASSUME hits' = hits PROVE \A u \in Users : hits'[u] >= hits[u]
    BY <1>2, <1>3
  <1>4. ASSUME UNCHANGED <<row, call, today, hits>> PROVE WindowsHold'
    BY <1>4 DEF WindowsHold, Used, CountedRows, CountedCalls, Present, Command
  <1>5. ASSUME NEW c \in Calls, NEW pc, pc \notin {"judge", "create"}, NEW command,
               call' = [call EXCEPT ![c] = Started(command, pc)], UNCHANGED <<world, row, hits>>
        PROVE  WindowsHold'
    <2>1. call'[c].pc = pc /\ \A d \in Calls \ {c} : call'[d] = call[d]
      BY <1>5 DEF IngestTyped, CallsTyped, Started
    <2>2. QED
      BY <1>1, <1>3, <1>5, <2>1, QuietCalls, RowsCountedNoMore
  <1>6. ASSUME NEW c \in Reports, NEW command \in ReportCommand, Report(c, command)
        PROVE  WindowsHold'
    <2>1. \/ call' = [call EXCEPT ![c] = Started(command, "replay")]
          \/ call' = [call EXCEPT ![c] = Started(command, "refused")]
      BY <1>6 DEF Report
    <2>2. QED
      BY <1>5, <1>6, <2>1 DEF Report, Calls
  <1>7. ASSUME NEW c \in Feeds, NEW command \in FeedCommand, Offer(c, command)
        PROVE  WindowsHold'
    BY <1>5, <1>7 DEF Offer, Calls
  <1>8. ASSUME NEW c \in Calls, IngestStep(c) PROVE WindowsHold'
    <2>1. ASSUME UNCHANGED <<world, row, hits>>, NEW pc, Continue(c, pc),
                 call[c].counted = None
          PROVE  WindowsHold'
      <3>1. call'[c].counted = None /\ \A d \in Calls \ {c} : call'[d] = call[d]
        BY <2>1, CallContinued DEF IngestTyped
      <3>2. QED
        BY <1>1, <1>3, <2>1, <3>1, QuietCalls, RowsCountedNoMore
    <2>2. ASSUME UNCHANGED <<world, row, hits>>, NEW r, Answer(c, r)
          PROVE  WindowsHold'
      <3>1. call'[c].pc = "answered" /\ \A d \in Calls \ {c} : call'[d] = call[d]
        BY <2>2, CallAnswered DEF IngestTyped
      <3>2. QED
        BY <1>1, <1>3, <2>2, <3>1, QuietCalls, RowsCountedNoMore
    <2>3. CallOf(c, call[c])
      BY DEF IngestTyped, CallsTyped
    <2>4. CASE CompareLatest(c)
      <3>1. UNCHANGED <<world, row, hits>> /\ call[c].counted = None /\ c \notin Reports
        BY <2>3, <2>4 DEF CompareLatest, CallOf
      <3>2. ASSUME NEW r, call' = [call EXCEPT ![c].pc = "confirm", ![c].row = r]
            PROVE  WindowsHold'
        <4>1. \A d \in Calls \ {c} : call'[d] = call[d]
          BY <3>2 DEF IngestTyped, CallsTyped
        <4>2. QED
          BY <1>1, <1>3, <3>1, <4>1, QuietCalls, RowsCountedNoMore
      <3>3. QED
        BY <2>1, <2>2, <2>4, <3>1, <3>2 DEF CompareLatest
    <2>5. CASE ConfirmMany(c)
      <3>1. /\ UNCHANGED <<world, hits>> /\ c \notin Reports /\ call[c].row \in RowIds
            /\ call[c].command \in FeedCommand
        BY <2>3, <2>5 DEF ConfirmMany, CallOf, Calls
      <3>2. \A d \in Calls \ {c} : call'[d] = call[d]
        BY <2>5 DEF ConfirmMany, Answer, IngestTyped, CallsTyped
      <3>3. ASSUME NEW u \in Users, NEW day \in 0 .. MaxToday
            PROVE  CountedRows(u, day)' \subseteq CountedRows(u, day)
        <4>1. CASE UNCHANGED row
          BY <4>1, RowsCountedNoMore
        <4>2. CASE row[call[c].row].there
                   /\ row' = [row EXCEPT ![call[c].row].confirmed = Command(c).observed]
          <5>1. PICK r \in RowIds, at \in 0 .. MaxToday :
                  r = call[c].row /\ at = call[c].command.observed
            BY <3>1 DEF FeedCommand
          <5>2. PICK old, new : old = row[r] /\ new = [old EXCEPT !.confirmed = at]
            OBVIOUS
          <5>3. row'[r] = new /\ \A s \in RowIds \ {r} : row'[s] = row[s]
            <6>1. row[r].there /\ row' = [row EXCEPT ![r].confirmed = at]
              BY <4>2, <5>1 DEF Command
            <6>2. row'[r] = [row[r] EXCEPT !.confirmed = at] /\ \A s \in RowIds \ {r} : row'[s] = row[s]
              BY <6>1, RowsConfirmed DEF IngestTyped
            <6>3. QED
              BY <5>2, <6>2
          <5>4. old \in RowType
            BY <4>2, <5>1, <5>2, RowFields DEF IngestTyped, RowsTyped
          <5>5. old.user = new.user /\ old.counted = new.counted /\ old.there
            BY <4>2, <5>1, <5>2, <5>4 DEF RowType
          <5>6. QED
            BY <5>1, <5>2, <5>3, <5>5, ZenonT(60) DEF CountedRows, Present
        <4>3. QED
          BY <2>5, <4>1, <4>2 DEF ConfirmMany
      <3>4. QED
        BY <1>1, <1>3, <3>1, <3>2, <3>3, QuietCalls
    <2>6. CASE FindReplay(c)
      BY <2>1, <2>2, <2>3, <2>6 DEF FindReplay, CallOf, Reject
    <2>7. CASE CheckCatalog(c)
      BY <2>1, <2>3, <2>7 DEF CheckCatalog, CallOf, Reject
    <2>8. CASE FindDuplicate(c)
      BY <2>1, <2>2, <2>3, <2>8 DEF FindDuplicate, CallOf
    <2>9. CASE Judge(c)
      <3>1. /\ UNCHANGED <<world, row, hits>> /\ call[c].pc = "judge"
            /\ call'[c].counted = call[c].counted /\ call'[c].command = call[c].command
            /\ \A d \in Calls \ {c} : call'[d] = call[d]
        BY <2>9 DEF Judge, IngestTyped, CallsTyped, CallType
      <3>2. QED
        BY <1>1, <1>3, <3>1, QuietCalls, RowsCountedNoMore
    <2>10. QED
      BY <1>1, <1>8, <2>4, <2>5, <2>6, <2>7, <2>8, <2>9, CountKeepsWindows, CreateKeepsWindows
      DEF IngestStep
  <1>9. CASE DeleteExpired
    <2>1. /\ UNCHANGED <<call, today, hits>>
          /\ \A r \in RowIds : row'[r] = row[r] \/ (row[r].there /\ row'[r] = Deleted)
      BY <1>9, RowsDeleted DEF DeleteExpired, IngestTyped
    <2>2. ~Deleted.there
      BY DEF Deleted
    <2>3. ASSUME NEW u \in Users, NEW day \in 0 .. MaxToday
          PROVE  /\ CountedRows(u, day)' \subseteq CountedRows(u, day)
                 /\ CountedCalls(u, day)' \subseteq CountedCalls(u, day)
      BY <2>1, <2>2 DEF CountedRows, CountedCalls, Present, Command
    <2>4. QED
      BY <1>1, <1>3, <2>1, <2>3, QuietWindows
  <1>10. QED
    BY <1>1, <1>4, <1>6, <1>7, <1>8, <1>9, DayKeepsWindows
    DEF IngestNext, ingestVars, SelectExpired, RetireProduct

\* However their requests interleave, nobody's counted reports of a day
\* outnumber the hard limit.
THEOREM HardLimitKept == IngestSpec => []HardLimitHolds
  <1>1. IngestInit => WindowsHold
    <2>1. SUFFICES ASSUME IngestInit PROVE WindowsHold
      OBVIOUS
    <2>2. IngestTyped
      BY <2>1, IngestStartsTyped
    <2>3. ASSUME NEW u \in Users, NEW day PROVE Used(u, day) = 0
      <3>1. CountedRows(u, day) = {}
        <4>1. ASSUME NEW r \in RowIds, row[r].there PROVE row[r].user = None
          BY <2>1, <4>1 DEF IngestInit, NoRow
        <4>2. QED
          BY <4>1, IngestionAssumption DEF CountedRows, Present
      <3>2. CountedCalls(u, day) = {}
        BY <2>1 DEF CountedCalls, IngestInit, Started, Calls
      <3>3. QED
        BY <3>1, <3>2, FS_EmptySet DEF Used
    <2>4. \A u \in Users : hits[u] = 0
      BY <2>1 DEF IngestInit
    <2>5. QED
      BY <2>3, <2>4, IngestionAssumption DEF WindowsHold
  <1>2. WindowsHold => HardLimitHolds
    <2>1. SUFFICES ASSUME WindowsHold, NEW u \in Users, NEW day \in 0 .. MaxToday
                   PROVE  Cardinality(CountedRows(u, day)) <= MaxTarget
      BY DEF HardLimitHolds, CountedRows
    <2>2. Cardinality(CountedRows(u, day)) \in Nat /\ Cardinality(CountedCalls(u, day)) \in Nat
      BY CountedFinite, FS_CardinalityType
    <2>3. QED
      BY <2>1, <2>2, IngestionAssumption DEF WindowsHold, Used
  <1>3. IngestTyped /\ WindowsHold /\ [IngestNext]_ingestVars => (IngestTyped /\ WindowsHold)'
    BY IngestKeepsTypes, IngestKeepsWindows
  <1>4. QED
    BY <1>1, <1>2, <1>3, IngestStartsTyped, PTL DEF IngestSpec

-----------------------------------------------------------------------------
(***************************************************************************)
(* PriceAlerts: types.                                                     *)
(***************************************************************************)
AlertRow ==
    [type : AlertKinds, product : {"milk"}, store : {Absent, "here"},
     threshold : {Absent, Threshold}, dropPercent : {Absent, DropPercent},
     radius : {Absent, Radius}, currency : {Absent}, enabled : BOOLEAN,
     lastNotified : MaybePrice, lastTriggered : (0 .. MaxMinute) \cup {Absent}]

EvaluationType ==
    [pc : {"idle", "find", "context", "consider", "create", "mark", "enqueue"},
     price : MaybePrice, now : 0 .. MaxMinute, seen : AlertRow \cup {Absent}]

\* An evaluation is of a price, and past its first step of an alert it has read.
EvaluationOf(of) ==
    /\ of.pc # "idle" => of.price \in AlertPrices
    /\ of.pc \notin {"idle", "find"} => of.seen \in AlertRow

AlertsTyped ==
    /\ minute \in 0 .. MaxMinute
    /\ alert \in AlertRow \cup {Absent}
    /\ evaluator \in [Workers -> EvaluationType]
    /\ \A w \in Workers : EvaluationOf(evaluator[w])
    /\ raised \subseteq AlertPrices
    /\ latest \in (0 .. MaxMinute) \cup {Absent}
    /\ disturbed \in BOOLEAN

(***************************************************************************)
(* What the alert remembers of what it said: the lowest price and the last *)
(* moment.  An evaluation alone knows as much, finds news only below and   *)
(* after that, and leaves the alert remembering it; only between the       *)
(* message and its mark does the alert lag behind.                         *)
(***************************************************************************)
Remembers(memo) ==
    /\ memo.lastTriggered = latest
    /\ \A p \in raised : memo.lastNotified # Absent /\ memo.lastNotified <= p

Finds(of) ==
    /\ of.pc \in {"context", "consider", "create"} => Remembers(of.seen)
    /\ of.pc = "create" =>
         /\ of.seen.lastNotified # Absent => of.price < of.seen.lastNotified
         /\ of.seen.lastTriggered # Absent => of.now - of.seen.lastTriggered >= MinMinutes
    /\ of.pc = "mark" => /\ latest = of.now
                         /\ \A p \in raised : of.price <= p

Undisturbed ==
    /\ \A v, w \in Workers : Busy(v) /\ Busy(w) => v = w
    /\ \A w \in Workers : Finds(evaluator[w])
    /\ alert # Absent /\ (\A w \in Workers : evaluator[w].pc # "mark") => Remembers(alert)
    /\ slips = {}

Speaking == disturbed \/ Undisturbed

Evaluates(w, of) == evaluator' = [evaluator EXCEPT ![w] = of]

LEMMA Evaluated ==
  ASSUME AlertsTyped, NEW w \in Workers, NEW of \in EvaluationType, EvaluationOf(of),
         Evaluates(w, of)
  PROVE  /\ evaluator' \in [Workers -> EvaluationType]
         /\ \A v \in Workers : EvaluationOf(evaluator'[v])
         /\ evaluator'[w] = of /\ \A v \in Workers \ {w} : evaluator'[v] = evaluator[v]
  BY DEF AlertsTyped, Evaluates

LEMMA EvaluationIdle == Idle \in EvaluationType /\ EvaluationOf(Idle)
  BY AlertsAssumption DEF Idle, EvaluationType, EvaluationOf, MaybePrice

\* Prices and moments are numbers, and Absent is none.
LEMMA AlertNumbers ==
  /\ \A p \in AlertPrices : p \in Int /\ p # Absent
  /\ \A one \in AlertRow : one.lastNotified # Absent => one.lastNotified \in Int
  /\ \A of \in EvaluationType : of.now \in Int
  /\ MinMinutes \in Int
  <1>1. \A p \in AlertPrices : p \in Int /\ p # Absent
    <2>1. AlertPrices \subseteq Nat
      BY AlertsAssumption
    <2>2. Absent \notin Int
      BY RulesAssumption
    <2>3. QED
      BY <2>1, <2>2
  <1>2. ASSUME NEW one \in AlertRow, one.lastNotified # Absent PROVE one.lastNotified \in Int
    <2>1. one.lastNotified \in AlertPrices
      BY <1>2 DEF AlertRow, MaybePrice
    <2>2. QED
      BY <1>1, <2>1
  <1>3. ASSUME NEW of \in EvaluationType PROVE of.now \in Int
    <2>1. of.now \in 0 .. MaxMinute
      BY DEF EvaluationType
    <2>2. QED
      BY <2>1
  <1>4. MinMinutes \in Int
    BY AlertsAssumption
  <1>5. QED
    BY <1>1, <1>2, <1>3, <1>4

\* What an evaluation is once a step of it is done, for each kind of step.
LEMMA EvaluationGoesOn ==
  ASSUME AlertsTyped, NEW w \in Workers, NEW pc, evaluator[w].pc \notin {"idle", "find"},
         pc \in {"consider", "create", "mark", "enqueue"}, At(w, pc)
  PROVE  \E of \in EvaluationType :
            /\ Evaluates(w, of) /\ EvaluationOf(of) /\ of.pc = pc
            /\ of.price = evaluator[w].price /\ of.now = evaluator[w].now
            /\ of.seen = evaluator[w].seen
  <1>1. PICK of : of = [evaluator[w] EXCEPT !.pc = pc]
    OBVIOUS
  <1>2. evaluator[w] \in EvaluationType /\ EvaluationOf(evaluator[w])
    BY DEF AlertsTyped
  <1>3. /\ of \in EvaluationType /\ of.pc = pc
        /\ of.price = evaluator[w].price /\ of.now = evaluator[w].now
        /\ of.seen = evaluator[w].seen
    BY <1>1, <1>2 DEF EvaluationType
  <1>4. EvaluationOf(of)
    BY <1>2, <1>3 DEF EvaluationOf
  <1>5. Evaluates(w, of)
    BY <1>1 DEF At, Evaluates, AlertsTyped
  <1>6. QED
    BY <1>3, <1>4, <1>5

LEMMA AlertsKeepTypes ==
  ASSUME AlertsTyped, [AlertsNext]_alertVars
  PROVE  AlertsTyped'
  <1>1. ASSUME UNCHANGED <<minute, alert, evaluator, raised, latest, disturbed>> PROVE AlertsTyped'
    BY <1>1 DEF AlertsTyped
  <1>2. ASSUME NEW w \in Workers, NEW of \in EvaluationType, EvaluationOf(of), Evaluates(w, of),
               UNCHANGED minute, alert' \in AlertRow \cup {Absent}, raised' \subseteq AlertPrices,
               latest' \in (0 .. MaxMinute) \cup {Absent}, disturbed' \in BOOLEAN
        PROVE  AlertsTyped'
    BY <1>2, Evaluated DEF AlertsTyped
  <1>3. CASE NextMinute
    <2>1. minute' \in 0 .. MaxMinute
      BY <1>3, AlertsAssumption DEF NextMinute, AlertsTyped
    <2>2. QED
      BY <1>3, <2>1 DEF NextMinute, AlertsTyped, settings, outcome
  <1>4. ASSUME NEW w \in Workers, NEW p \in AlertPrices, TakeEvaluation(w, p) PROVE AlertsTyped'
    <2>1. PICK of : of = [Idle EXCEPT !.pc = "find", !.price = p, !.now = minute]
      OBVIOUS
    <2>2. of = [pc |-> "find", price |-> p, now |-> minute, seen |-> Absent]
      BY <2>1 DEF Idle
    <2>3. of \in EvaluationType /\ EvaluationOf(of)
      BY <2>2 DEF EvaluationType, EvaluationOf, AlertsTyped, MaybePrice
    <2>4. Evaluates(w, of)
      BY <1>4, <2>1 DEF TakeEvaluation, Evaluates
    <2>5. QED
      BY <1>2, <1>4, <2>3, <2>4 DEF TakeEvaluation, AlertsTyped, market, settings, outcome
  <1>5. ASSUME NEW w \in Workers, Evaluates(w, Idle),
               UNCHANGED <<minute, alert, raised, latest>>, disturbed' \in BOOLEAN
        PROVE  AlertsTyped'
    BY <1>2, <1>5, EvaluationIdle DEF AlertsTyped
  <1>6. ASSUME NEW w \in Workers, EvaluatorStep(w) PROVE AlertsTyped'
    <2>1. ASSUME Finish(w) PROVE Evaluates(w, Idle)
      BY <2>1 DEF Finish, Evaluates
    <2>2. CASE FindAlert(w)
      <3>1. UNCHANGED <<minute, alert, raised, latest>> /\ disturbed' \in BOOLEAN
        BY <2>2 DEF FindAlert, market, settings, outcome, AlertsTyped
      <3>2. CASE alert # Absent /\ evaluator' = [evaluator EXCEPT ![w].pc = "context", ![w].seen = alert]
        <4>1. PICK of : of = [evaluator[w] EXCEPT !.pc = "context", !.seen = alert]
          OBVIOUS
        <4>2. evaluator[w] \in EvaluationType /\ EvaluationOf(evaluator[w]) /\ alert \in AlertRow
          BY <3>2 DEF AlertsTyped
        <4>3. of \in EvaluationType
          BY <4>1, <4>2 DEF EvaluationType
        <4>4. EvaluationOf(of)
          BY <2>2, <4>1, <4>2 DEF EvaluationType, EvaluationOf, FindAlert
        <4>5. Evaluates(w, of)
          BY <3>2, <4>1 DEF Evaluates, AlertsTyped
        <4>6. QED
          BY <1>2, <3>1, <4>3, <4>4, <4>5 DEF AlertsTyped
      <3>3. QED
        BY <1>5, <2>1, <2>2, <3>1, <3>2 DEF FindAlert
    <2>3. ASSUME NEW pc \in {"consider", "create", "mark", "enqueue"}, At(w, pc),
                 evaluator[w].pc \notin {"idle", "find"},
                 UNCHANGED minute, alert' \in AlertRow \cup {Absent}, raised' \subseteq AlertPrices,
                 latest' \in (0 .. MaxMinute) \cup {Absent}, disturbed' \in BOOLEAN
          PROVE  AlertsTyped'
      BY <1>2, <2>3, EvaluationGoesOn
    <2>4. CASE HearsOfShop(w)
      BY <1>5, <2>1, <2>3, <2>4 DEF HearsOfShop, AlertsTyped, market, settings, outcome
    <2>5. CASE Consider(w)
      BY <1>5, <2>1, <2>3, <2>5 DEF Consider, AlertsTyped, market, settings, outcome
    <2>6. CASE RaiseMessage(w)
      <3>1. evaluator[w].pc = "create" /\ evaluator[w].price \in AlertPrices
            /\ evaluator[w].now \in 0 .. MaxMinute
        BY <2>6 DEF RaiseMessage, AlertsTyped, EvaluationOf, EvaluationType
      <3>2. QED
        BY <1>5, <2>1, <2>3, <2>6, <3>1 DEF RaiseMessage, AlertsTyped, market, settings, outcome
    <2>7. CASE MarkTriggered(w)
      <3>1. evaluator[w].pc = "mark" /\ evaluator[w].price \in AlertPrices
            /\ evaluator[w].now \in 0 .. MaxMinute
        BY <2>7 DEF MarkTriggered, AlertsTyped, EvaluationOf, EvaluationType
      <3>2. UNCHANGED <<minute, raised, latest, disturbed>>
        BY <2>7 DEF MarkTriggered, market, outcome
      <3>3. CASE alert = Absent /\ evaluator' = [evaluator EXCEPT ![w] = Idle] /\ UNCHANGED alert
        BY <1>5, <3>2, <3>3 DEF Evaluates, AlertsTyped
      <3>4. CASE /\ alert # Absent /\ At(w, "enqueue")
                 /\ alert' = [alert EXCEPT !.lastTriggered = evaluator[w].now,
                                           !.lastNotified = evaluator[w].price]
        <4>1. alert' \in AlertRow
          BY <3>1, <3>4 DEF AlertsTyped, AlertRow, MaybePrice
        <4>2. QED
          BY <2>3, <3>1, <3>2, <3>4, <4>1 DEF AlertsTyped
      <3>5. QED
        BY <2>7, <3>3, <3>4 DEF MarkTriggered
    <2>8. CASE EnqueueDelivery(w)
      BY <1>5, <2>1, <2>8 DEF EnqueueDelivery, AlertsTyped, market, settings, outcome
    <2>9. QED
      BY <1>6, <2>2, <2>4, <2>5, <2>6, <2>7, <2>8 DEF EvaluatorStep
  <1>7. ASSUME NEW w \in Workers, EvaluationDies(w) PROVE AlertsTyped'
    BY <1>5, <1>7 DEF EvaluationDies, Evaluates, market, outcome
  <1>8. CASE UpdateAlert
    <2>1. alert' \in AlertRow
      BY <1>8 DEF UpdateAlert, AlertsTyped, AlertRow
    <2>2. QED
      BY <1>8, <2>1 DEF UpdateAlert, AlertsTyped, market, outcome
  <1>9. CASE DeleteAlert
    BY <1>9 DEF DeleteAlert, AlertsTyped, market, outcome
  <1>10. QED
    BY <1>1, <1>3, <1>4, <1>6, <1>7, <1>8, <1>9
    DEF AlertsNext, alertVars, MovePrice, RecoverEvaluation, MuteAlerts, PublishShop,
        market, settings, outcome

LEMMA AlertsStartTyped ==
  ASSUME AlertsInit
  PROVE  AlertsTyped /\ Undisturbed
  <1>1. alert \in AlertRow /\ alert.lastTriggered = Absent
    BY DEF AlertsInit, CompleteAlert, AlertRow, MaybePrice
  <1>2. evaluator = [w \in Workers |-> Idle] /\ raised = {} /\ latest = Absent /\ slips = {}
        /\ disturbed = FALSE /\ minute \in 0 .. MaxMinute
    BY AlertsAssumption DEF AlertsInit
  <1>3. AlertsTyped
    BY <1>1, <1>2, EvaluationIdle DEF AlertsTyped
  <1>4. Remembers(alert)
    BY <1>1, <1>2 DEF Remembers
  <1>5. \A w \in Workers : evaluator[w].pc = "idle"
    BY <1>2 DEF Idle
  <1>6. QED
    BY <1>2, <1>3, <1>4, <1>5 DEF Undisturbed, Busy, Finds

\* An alert that has news of a price knows of no lower one and is not due again
\* too soon.
LEMMA NewsIsNew ==
  ASSUME NEW w \in Workers, evaluator[w].seen \in AlertRow, Speaks(w)
  PROVE  LET of == evaluator[w] IN
         /\ of.seen.lastNotified # Absent => ~(of.price >= of.seen.lastNotified)
         /\ of.seen.lastTriggered # Absent => ~(of.now - of.seen.lastTriggered < MinMinutes)
  <1>1. EvaluateAlert(evaluator[w].seen, Change(w)).triggered
        /\ ~IsThrottled(evaluator[w].seen.lastTriggered, MinMinutes, evaluator[w].now)
    BY DEF Speaks
  <1>2. Change(w).price = evaluator[w].price
    BY DEF Change
  <1>3. \A reason : ~No(reason).triggered
    BY DEF No
  <1>4. ~AlreadyKnown(evaluator[w].seen, Change(w))
    <2>1. PICK one, change : one = evaluator[w].seen /\ change = Change(w)
      OBVIOUS
    <2>2. ASSUME AlreadyKnown(one, change) PROVE ~EvaluateAlert(one, change).triggered
      <3>1. /\ ~BelowThreshold(one, change).triggered /\ ~PriceDrop(one, change).triggered
            /\ ~CheaperNearby(one, change).triggered
        BY <1>3, <2>2 DEF BelowThreshold, PriceDrop, CheaperNearby
      <3>2. QED
        <4>1. one.type \in AlertKinds
          BY <2>1 DEF AlertRow
        <4>2. QED
          BY <1>3, <3>1, <4>1 DEF EvaluateAlert, AlertKinds
    <2>3. QED
      BY <1>1, <2>1, <2>2
  <1>5. QED
    BY <1>1, <1>2, <1>4 DEF AlreadyKnown, IsThrottled

\* Whether one step leaves what evaluations know as it is.
LEMMA Unspoken ==
  ASSUME AlertsTyped, Undisturbed, UNCHANGED outcome, UNCHANGED evaluator,
         \/ alert' = Absent
         \/ /\ alert # Absent /\ alert'.lastNotified = alert.lastNotified
            /\ alert'.lastTriggered = alert.lastTriggered
         \/ UNCHANGED alert
  PROVE  Undisturbed'
  <1>1. raised' = raised /\ latest' = latest /\ slips' = slips
    BY DEF outcome
  <1>2. \A w \in Workers : Finds(evaluator[w])'
    BY <1>1 DEF Undisturbed, Finds, Remembers
  <1>3. (alert # Absent /\ (\A w \in Workers : evaluator[w].pc # "mark") => Remembers(alert))'
    BY <1>1 DEF Undisturbed, Remembers
  <1>4. QED
    BY <1>1, <1>2, <1>3 DEF Undisturbed, Busy

\* An evaluation ends, having said nothing it has not marked.
LEMMA UnspokenEnd ==
  ASSUME AlertsTyped, Undisturbed, UNCHANGED outcome, UNCHANGED alert, NEW w \in Workers,
         Evaluates(w, Idle), evaluator[w].pc # "mark"
  PROVE  Undisturbed'
  <1>1. raised' = raised /\ latest' = latest /\ slips' = slips
    BY DEF outcome
  <1>2. evaluator'[w] = Idle /\ \A v \in Workers \ {w} : evaluator'[v] = evaluator[v]
    BY EvaluationIdle, Evaluated
  <1>3. Idle.pc = "idle"
    BY DEF Idle
  <1>4. ASSUME NEW v \in Workers PROVE Finds(evaluator[v])'
    <2>1. CASE v = w
      BY <1>2, <1>3, <2>1 DEF Finds
    <2>2. CASE v # w
      BY <1>1, <1>2, <2>2 DEF Undisturbed, Finds, Remembers
    <2>3. QED
      BY <2>1, <2>2
  <1>5. (alert # Absent /\ (\A v \in Workers : evaluator[v].pc # "mark") => Remembers(alert))'
    BY <1>1, <1>2 DEF Undisturbed, Remembers
  <1>6. (\A v, u \in Workers : Busy(v) /\ Busy(u) => v = u)'
    BY <1>2, <1>3 DEF Undisturbed, Busy
  <1>7. QED
    BY <1>1, <1>4, <1>5, <1>6 DEF Undisturbed

\* An evaluation that is the only busy one goes on, and the alert remembers.
LEMMA SpeakingAlone ==
  ASSUME AlertsTyped, Undisturbed, NEW w \in Workers, NEW of,
         evaluator'[w] = of, \A v \in Workers \ {w} : evaluator'[v] = evaluator[v],
         \A v \in Workers \ {w} : ~Busy(v),
         Finds(of)', slips' = {},
         alert' # Absent /\ of.pc # "mark" => Remembers(alert)'
  PROVE  Undisturbed'
  <1>1. ASSUME NEW v \in Workers PROVE Finds(evaluator[v])'
    <2>1. CASE v = w
      BY <2>1 DEF Finds, Remembers
    <2>2. CASE v # w
      <3>1. evaluator'[v].pc \in {"idle", "find"}
        BY <2>2 DEF Busy
      <3>2. QED
        BY <3>1 DEF Finds
    <2>3. QED
      BY <2>1, <2>2
  <1>2. (\A v, u \in Workers : Busy(v) /\ Busy(u) => v = u)'
    BY DEF Busy
  <1>3. QED
    BY <1>1, <1>2 DEF Undisturbed

LEMMA AlertsKeepSpeaking ==
  ASSUME AlertsTyped, Undisturbed, [AlertsNext]_alertVars, ~disturbed'
  PROVE  Undisturbed'
  <1>1. ASSUME UNCHANGED <<alert, evaluator, outcome>> PROVE Undisturbed'
    BY <1>1, Unspoken
  <1>2. ASSUME NEW w \in Workers, Finish(w) PROVE Evaluates(w, Idle)
    BY <1>2 DEF Finish, Evaluates
  <1>3. ASSUME NEW w \in Workers, NEW p \in AlertPrices, TakeEvaluation(w, p) PROVE Undisturbed'
    <2>1. /\ evaluator'[w].pc = "find" /\ \A v \in Workers \ {w} : evaluator'[v] = evaluator[v]
          /\ evaluator[w].pc = "idle" /\ UNCHANGED <<alert, outcome>>
      BY <1>3 DEF TakeEvaluation, AlertsTyped, Idle, settings
    <2>2. raised' = raised /\ latest' = latest /\ slips' = slips
      BY <2>1 DEF outcome
    <2>3. ASSUME NEW v \in Workers PROVE Finds(evaluator[v])'
      <3>1. CASE v = w
        BY <2>1, <3>1 DEF Finds
      <3>2. CASE v # w
        BY <2>1, <2>2, <3>2 DEF Undisturbed, Finds, Remembers
      <3>3. QED
        BY <3>1, <3>2
    <2>4. (alert # Absent /\ (\A v \in Workers : evaluator[v].pc # "mark") => Remembers(alert))'
      BY <2>1, <2>2 DEF Undisturbed, Remembers
    <2>5. (\A v, u \in Workers : Busy(v) /\ Busy(u) => v = u)'
      BY <2>1 DEF Undisturbed, Busy
    <2>6. QED
      BY <2>2, <2>3, <2>4, <2>5 DEF Undisturbed
  <1>4. ASSUME NEW w \in Workers, FindAlert(w) PROVE Undisturbed'
    <2>1. evaluator[w].pc = "find" /\ UNCHANGED <<alert, outcome>>
      BY <1>4 DEF FindAlert, settings
    <2>2. CASE /\ alert # Absent
               /\ evaluator' = [evaluator EXCEPT ![w].pc = "context", ![w].seen = alert]
               /\ disturbed' = (disturbed \/ \E v \in Workers : Busy(v))
      <3>1. PICK of : of = [evaluator[w] EXCEPT !.pc = "context", !.seen = alert]
        OBVIOUS
      <3>2. /\ evaluator'[w] = of /\ \A v \in Workers \ {w} : evaluator'[v] = evaluator[v]
            /\ of.pc = "context" /\ of.seen = alert
        BY <2>2, <3>1 DEF AlertsTyped, EvaluationType
      <3>3. \A v \in Workers : ~Busy(v)
        BY <2>2
      <3>4. Remembers(alert)
        BY <2>2, <3>3 DEF Undisturbed, Busy
      <3>5. raised' = raised /\ latest' = latest /\ slips' = {}
        BY <2>1 DEF outcome, Undisturbed
      <3>6. Finds(of)' /\ Remembers(alert)'
        BY <2>1, <3>2, <3>4, <3>5 DEF Finds, Remembers
      <3>7. QED
        BY <3>2, <3>3, <3>5, <3>6, SpeakingAlone
    <2>3. QED
      BY <1>2, <1>4, <2>1, <2>2, UnspokenEnd DEF FindAlert
  <1>5. ASSUME NEW w \in Workers, Busy(w) PROVE \A v \in Workers \ {w} : ~Busy(v)
    BY <1>5 DEF Undisturbed
  <1>6. ASSUME NEW w \in Workers, HearsOfShop(w) \/ Consider(w) PROVE Undisturbed'
    <2>1. /\ evaluator[w].pc \in {"context", "consider"} /\ UNCHANGED <<alert, outcome>>
          /\ evaluator[w] \in EvaluationType /\ evaluator[w].seen \in AlertRow
      BY <1>6 DEF HearsOfShop, Consider, settings, AlertsTyped, EvaluationOf
    <2>2. ASSUME NEW pc \in {"consider", "create"}, At(w, pc), pc = "create" => Speaks(w)
          PROVE  Undisturbed'
      <3>1. PICK of \in EvaluationType :
              /\ Evaluates(w, of) /\ EvaluationOf(of) /\ of.pc = pc
              /\ of.price = evaluator[w].price /\ of.now = evaluator[w].now
              /\ of.seen = evaluator[w].seen
        BY <2>1, <2>2, EvaluationGoesOn
      <3>2. evaluator'[w] = of /\ \A v \in Workers \ {w} : evaluator'[v] = evaluator[v]
        BY <3>1, Evaluated
      <3>3. \A v \in Workers \ {w} : ~Busy(v)
        BY <1>5, <2>1 DEF Busy
      <3>4. raised' = raised /\ latest' = latest /\ slips' = {} /\ alert' = alert
        BY <2>1 DEF outcome, Undisturbed
      <3>5. Remembers(of.seen)
        BY <2>1, <3>1 DEF Undisturbed, Finds
      <3>6. ASSUME pc = "create"
            PROVE  /\ of.seen.lastNotified # Absent => of.price < of.seen.lastNotified
                   /\ of.seen.lastTriggered # Absent =>
                        of.now - of.seen.lastTriggered >= MinMinutes
        <4>1. /\ of.seen.lastNotified # Absent => ~(of.price >= of.seen.lastNotified)
              /\ of.seen.lastTriggered # Absent =>
                   ~(of.now - of.seen.lastTriggered < MinMinutes)
          BY <2>1, <2>2, <3>1, <3>6, NewsIsNew
        <4>2. of.seen.lastNotified # Absent => of.seen.lastNotified \in Int
          BY <2>1, <3>1, AlertNumbers
        <4>3. of.seen.lastTriggered # Absent => of.seen.lastTriggered \in Int
          BY <2>1, <3>1 DEF AlertRow
        <4>4. of.price \in Int /\ of.now \in Int /\ MinMinutes \in Int
          BY <3>1, <3>6, AlertNumbers DEF EvaluationOf
        <4>5. QED
          BY <4>1, <4>2, <4>3, <4>4
      <3>7. Finds(of)'
        BY <3>1, <3>4, <3>5, <3>6 DEF Finds, Remembers
      <3>8. alert' # Absent => Remembers(alert)'
        BY <2>1, <3>3, <3>4 DEF Undisturbed, Remembers, Busy
      <3>9. QED
        BY <3>2, <3>3, <3>4, <3>7, <3>8, SpeakingAlone
    <2>3. QED
      BY <1>2, <1>6, <2>1, <2>2, UnspokenEnd DEF HearsOfShop, Consider
  <1>7. ASSUME NEW w \in Workers, RaiseMessage(w) PROVE Undisturbed'
    <2>1. /\ evaluator[w].pc = "create" /\ UNCHANGED alert
          /\ evaluator[w].price \in AlertPrices /\ evaluator[w].seen \in AlertRow
          /\ evaluator[w].now \in 0 .. MaxMinute
      BY <1>7 DEF RaiseMessage, AlertsTyped, EvaluationOf, EvaluationType
    <2>2. CASE Finish(w) /\ UNCHANGED outcome
      BY <1>2, <2>1, <2>2, UnspokenEnd
    <2>3. CASE /\ raised' = raised \cup {evaluator[w].price} /\ latest' = evaluator[w].now
               /\ slips' = slips \cup Slips(w) /\ At(w, "mark")
      <3>1. PICK of \in EvaluationType :
              /\ Evaluates(w, of) /\ EvaluationOf(of) /\ of.pc = "mark"
              /\ of.price = evaluator[w].price /\ of.now = evaluator[w].now
              /\ of.seen = evaluator[w].seen
        BY <2>1, <2>3, EvaluationGoesOn
      <3>2. evaluator'[w] = of /\ \A v \in Workers \ {w} : evaluator'[v] = evaluator[v]
        BY <3>1, Evaluated
      <3>3. \A v \in Workers \ {w} : ~Busy(v)
        BY <1>5, <2>1 DEF Busy
      <3>4. Finds(evaluator[w])
        BY DEF Undisturbed
      <3>5. ASSUME NEW p \in raised PROVE of.price < p /\ p \in Int /\ of.price \in Int
        <4>1. of.seen.lastNotified # Absent /\ of.seen.lastNotified <= p
          BY <2>1, <3>1, <3>4 DEF Finds, Remembers
        <4>2. of.price < of.seen.lastNotified
          BY <2>1, <3>1, <3>4, <4>1 DEF Finds
        <4>3. {of.price, of.seen.lastNotified, p} \subseteq Int
          BY <2>1, <3>1, <4>1, AlertNumbers DEF AlertsTyped
        <4>4. QED
          BY <4>1, <4>2, <4>3
      <3>6. Slips(w) = {}
        <4>1. ~\E p \in raised : p <= evaluator[w].price
          BY <3>1, <3>5
        <4>2. ~(latest # Absent /\ evaluator[w].now - latest < MinMinutes)
          <5>1. latest = evaluator[w].seen.lastTriggered
            BY <2>1, <3>4 DEF Finds, Remembers
          <5>2. latest # Absent => evaluator[w].now - latest >= MinMinutes
            BY <2>1, <3>4, <5>1 DEF Finds
          <5>3. latest # Absent => latest \in Int
            BY DEF AlertsTyped
          <5>4. evaluator[w].now \in Int /\ MinMinutes \in Int
            BY <2>1, AlertsAssumption
          <5>5. QED
            BY <5>2, <5>3, <5>4
        <4>3. QED
          BY <4>1, <4>2 DEF Slips
      <3>7. slips' = {}
        BY <2>3, <3>6 DEF Undisturbed
      <3>8. Finds(of)'
        <4>1. ASSUME NEW p \in raised' PROVE of.price <= p
          <5>1. CASE p \in raised
            BY <3>5, <5>1
          <5>2. CASE p = of.price
            BY <2>1, <3>1, <5>2, AlertNumbers
          <5>3. QED
            BY <2>3, <3>1, <5>1, <5>2
        <4>2. QED
          BY <2>3, <3>1, <4>1 DEF Finds
      <3>9. QED
        BY <3>1, <3>2, <3>3, <3>7, <3>8, SpeakingAlone
    <2>4. QED
      BY <1>7, <2>2, <2>3 DEF RaiseMessage
  <1>8. ASSUME NEW w \in Workers, MarkTriggered(w) PROVE Undisturbed'
    <2>1. /\ evaluator[w].pc = "mark" /\ UNCHANGED outcome
          /\ evaluator[w].price \in AlertPrices /\ evaluator[w] \in EvaluationType
      BY <1>8 DEF MarkTriggered, AlertsTyped, EvaluationOf
    <2>2. raised' = raised /\ latest' = latest /\ slips' = {}
      BY <2>1 DEF outcome, Undisturbed
    <2>3. \A v \in Workers \ {w} : ~Busy(v)
      BY <1>5, <2>1 DEF Busy
    <2>4. latest = evaluator[w].now /\ \A p \in raised : evaluator[w].price <= p
      BY <2>1 DEF Undisturbed, Finds
    <2>5. CASE alert = Absent /\ evaluator' = [evaluator EXCEPT ![w] = Idle] /\ UNCHANGED alert
      <3>1. evaluator'[w] = Idle /\ \A v \in Workers \ {w} : evaluator'[v] = evaluator[v]
        BY <2>5 DEF AlertsTyped
      <3>2. Finds(Idle)'
        BY DEF Finds, Idle
      <3>3. QED
        BY <2>2, <2>3, <2>5, <3>1, <3>2, SpeakingAlone
    <2>6. CASE /\ alert # Absent /\ At(w, "enqueue")
               /\ alert' = [alert EXCEPT !.lastTriggered = evaluator[w].now,
                                         !.lastNotified = evaluator[w].price]
      <3>1. PICK of \in EvaluationType : Evaluates(w, of) /\ EvaluationOf(of) /\ of.pc = "enqueue"
        BY <2>1, <2>6, EvaluationGoesOn
      <3>2. evaluator'[w] = of /\ \A v \in Workers \ {w} : evaluator'[v] = evaluator[v]
        BY <3>1, Evaluated
      <3>3. Finds(of)'
        BY <3>1 DEF Finds
      <3>4. alert'.lastTriggered = evaluator[w].now /\ alert'.lastNotified = evaluator[w].price
        BY <2>6 DEF AlertsTyped, AlertRow
      <3>5. evaluator[w].price # Absent
        BY <2>1, AlertNumbers
      <3>6. Remembers(alert)'
        BY <2>2, <2>4, <3>4, <3>5 DEF Remembers
      <3>7. QED
        BY <2>2, <2>3, <3>2, <3>3, <3>6, SpeakingAlone
    <2>7. QED
      BY <1>8, <2>5, <2>6 DEF MarkTriggered
  <1>9. ASSUME NEW w \in Workers, EnqueueDelivery(w) PROVE Undisturbed'
    BY <1>2, <1>9, UnspokenEnd DEF EnqueueDelivery
  <1>10. CASE UpdateAlert
    <2>1. /\ alert # Absent /\ alert'.lastNotified = alert.lastNotified
          /\ alert'.lastTriggered = alert.lastTriggered
      BY <1>10 DEF UpdateAlert, AlertsTyped, AlertRow
    <2>2. QED
      BY <1>10, <2>1, Unspoken DEF UpdateAlert
  <1>11. CASE DeleteAlert
    BY <1>11, Unspoken DEF DeleteAlert
  <1>12. \A w \in Workers : ~EvaluationDies(w)
    BY DEF EvaluationDies
  <1>13. QED
    BY <1>1, <1>3, <1>4, <1>6, <1>7, <1>8, <1>9, <1>10, <1>11, <1>12
    DEF AlertsNext, EvaluatorStep, alertVars, NextMinute, MovePrice, RecoverEvaluation,
        MuteAlerts, PublishShop, settings, outcome

\* Whatever order a price's jobs run in and whatever its owner edits, each
\* message of an alert names a lower price than every one before it and keeps
\* its distance from the last, as long as evaluations do not overlap and none
\* dies.
THEOREM AlertsSpeakOnlyWithNews == AlertsSpec => []SpeaksOnlyWithNews
  <1>1. AlertsInit => AlertsTyped /\ Speaking
    BY AlertsStartTyped DEF Speaking
  <1>2. AlertsTyped /\ Speaking /\ [AlertsNext]_alertVars => (AlertsTyped /\ Speaking)'
    <2>1. SUFFICES ASSUME AlertsTyped, Speaking, [AlertsNext]_alertVars
                   PROVE  (AlertsTyped /\ Speaking)'
      OBVIOUS
    <2>2. AlertsTyped'
      BY <2>1, AlertsKeepTypes
    <2>3. disturbed => disturbed'
      BY <2>1 DEF AlertsNext, alertVars, NextMinute, MovePrice, RecoverEvaluation, TakeEvaluation,
         EvaluatorStep, FindAlert, HearsOfShop, Consider, RaiseMessage, MarkTriggered,
         EnqueueDelivery, EvaluationDies, UpdateAlert, DeleteAlert, MuteAlerts, PublishShop
    <2>4. CASE disturbed'
      BY <2>2, <2>4 DEF Speaking
    <2>5. CASE ~disturbed'
      BY <2>1, <2>2, <2>3, <2>5, AlertsKeepSpeaking DEF Speaking
    <2>6. QED
      BY <2>4, <2>5
  <1>3. Speaking => SpeaksOnlyWithNews
    BY DEF Speaking, Undisturbed, SpeaksOnlyWithNews
  <1>4. QED
    BY <1>1, <1>2, <1>3, PTL DEF AlertsSpec

-----------------------------------------------------------------------------
(***************************************************************************)
(* PriceAlerts: the market, the settings and the jobs of the evaluations.  *)
(***************************************************************************)
AroundTyped ==
    /\ shelf \in MaybePrice /\ moves \in 0 .. MaxMoves
    /\ shop \in [public : BOOLEAN, mine : BOOLEAN]
    /\ listening \in BOOLEAN
    /\ told \in [AlertPrices -> MaybePrice]
    /\ slips \subseteq {"repeat", "soon"}
    /\ edits \in 0 .. MaxEdits

EvaluationsSound == evaluation \in [AlertPrices -> Job] /\ \A p \in AlertPrices : SoundJob(evaluation[p])

LEMMA AroundStaysTyped ==
  ASSUME AlertsTyped, AroundTyped, [AlertsNext]_alertVars
  PROVE  AroundTyped'
  <1>1. moves \in Nat /\ edits \in Nat /\ MaxMoves \in Nat /\ MaxEdits \in Nat
    BY AlertsAssumption DEF AroundTyped
  <1>2. CASE UNCHANGED <<shelf, moves, shop, listening, told, slips, edits>>
    BY <1>2 DEF AroundTyped
  <1>3. ASSUME NEW p \in AlertPrices, MovePrice(p) PROVE AroundTyped'
    <2>1. moves' \in 0 .. MaxMoves
      BY <1>1, <1>3 DEF MovePrice
    <2>2. shelf' \in MaybePrice /\ told' \in [AlertPrices -> MaybePrice]
      BY <1>3 DEF MovePrice, AroundTyped, MaybePrice
    <2>3. QED
      BY <1>3, <2>1, <2>2 DEF MovePrice, AroundTyped, settings, outcome
  <1>4. ASSUME NEW w \in Workers, RaiseMessage(w) PROVE AroundTyped'
    <2>1. slips' \subseteq {"repeat", "soon"}
      BY <1>4 DEF RaiseMessage, AroundTyped, outcome, Slips
    <2>2. QED
      BY <1>4, <2>1 DEF RaiseMessage, AroundTyped, market, settings
  <1>5. ASSUME Edit PROVE edits' \in 0 .. MaxEdits
    BY <1>1, <1>5 DEF Edit, AroundTyped
  <1>6. CASE \/ \E w \in Workers : EvaluationDies(w)
             \/ UpdateAlert \/ DeleteAlert
    BY <1>5, <1>6 DEF EvaluationDies, UpdateAlert, DeleteAlert, AroundTyped, market, outcome
  <1>7. CASE MuteAlerts
    BY <1>5, <1>7 DEF MuteAlerts, AroundTyped, market, outcome
  <1>8. CASE PublishShop
    <2>1. shop' \in [public : BOOLEAN, mine : BOOLEAN]
      BY <1>8 DEF PublishShop, AroundTyped
    <2>2. QED
      BY <1>5, <1>8, <2>1 DEF PublishShop, AroundTyped, market, outcome
  <1>9. CASE NextMinute \/ \E p \in AlertPrices : RecoverEvaluation(p)
    BY <1>2, <1>9 DEF NextMinute, RecoverEvaluation, market, settings, outcome
  <1>10. CASE \E w \in Workers, p \in AlertPrices : TakeEvaluation(w, p)
    BY <1>2, <1>10 DEF TakeEvaluation, market, settings, outcome
  <1>11. CASE \E w \in Workers : \/ FindAlert(w) \/ HearsOfShop(w) \/ Consider(w)
                                 \/ MarkTriggered(w) \/ EnqueueDelivery(w)
    BY <1>2, <1>11
    DEF FindAlert, HearsOfShop, Consider, MarkTriggered, EnqueueDelivery, market, settings, outcome
  <1>12. CASE UNCHANGED alertVars
    BY <1>2, <1>12 DEF alertVars
  <1>13. QED
    BY <1>3, <1>4, <1>6, <1>7, <1>8, <1>9, <1>10, <1>11, <1>12 DEF AlertsNext, EvaluatorStep

\* The queue keeps a job's attempts and its holder right, whoever finishes it,
\* throws it, or loses it.
LEMMA EvaluationsStaySound ==
  ASSUME AlertsTyped, EvaluationsSound, [AlertsNext]_alertVars
  PROVE  EvaluationsSound'
  <1>1. ASSUME UNCHANGED evaluation PROVE EvaluationsSound'
    BY <1>1 DEF EvaluationsSound
  <1>2. ASSUME NEW p \in AlertPrices, NEW n, SoundJob(n), evaluation' = [evaluation EXCEPT ![p] = n]
        PROVE  EvaluationsSound'
    BY <1>2 DEF EvaluationsSound, SoundJob
  <1>3. ASSUME NEW p \in AlertPrices
        PROVE  /\ SoundJob(NoJob) /\ SoundJob(Added(evaluation[p]))
               /\ evaluation[p].state = "active" => SoundJob(Stalled(evaluation[p]))
               /\ \A w \in Workers :
                    /\ SoundJob(Done(evaluation[p], w)) /\ SoundJob(Threw(evaluation[p], w))
                    /\ evaluation[p].state = "waiting" => SoundJob(Taken(evaluation[p], w))
    BY JobOperations DEF EvaluationsSound
  <1>4. \A w \in Workers : evaluator[w].pc # "idle" => evaluator[w].price \in AlertPrices
    BY DEF AlertsTyped, EvaluationOf
  <1>5. ASSUME NEW w \in Workers, Finish(w), evaluator[w].pc # "idle" PROVE EvaluationsSound'
    BY <1>2, <1>3, <1>4, <1>5 DEF Finish
  <1>6. ASSUME NEW p \in AlertPrices, MovePrice(p) \/ RecoverEvaluation(p) PROVE EvaluationsSound'
    BY <1>2, <1>3, <1>6 DEF MovePrice, RecoverEvaluation
  <1>7. ASSUME NEW w \in Workers, NEW p \in AlertPrices, TakeEvaluation(w, p) PROVE EvaluationsSound'
    BY <1>2, <1>3, <1>7 DEF TakeEvaluation
  <1>8. ASSUME NEW w \in Workers, EvaluatorStep(w) PROVE EvaluationsSound'
    <2>1. CASE FindAlert(w) \/ HearsOfShop(w) \/ Consider(w) \/ RaiseMessage(w) \/ EnqueueDelivery(w)
      BY <1>1, <1>5, <2>1 DEF FindAlert, HearsOfShop, Consider, RaiseMessage, EnqueueDelivery, At
    <2>2. CASE MarkTriggered(w)
      BY <1>1, <1>2, <1>3, <1>4, <2>2 DEF MarkTriggered, At
    <2>3. QED
      BY <1>8, <2>1, <2>2 DEF EvaluatorStep
  <1>9. QED
    BY <1>1, <1>6, <1>7, <1>8
    DEF AlertsNext, alertVars, NextMinute, EvaluationDies, UpdateAlert, DeleteAlert, MuteAlerts,
        PublishShop

\* Prices that move, messages raised, jobs that throw and alerts their owners
\* edit or delete keep an alert's state well formed: an alert remembers prices
\* and moments there have been, and a job holds no more attempts than it has.
THEOREM AlertsAreTyped == AlertsSpec => []AlertsTypeOK
  <1>1. AlertsInit => AlertsTyped /\ AroundTyped /\ EvaluationsSound
    <2>1. SUFFICES ASSUME AlertsInit PROVE AlertsTyped /\ AroundTyped /\ EvaluationsSound
      OBVIOUS
    <2>2. AroundTyped
      BY <2>1, AlertsAssumption DEF AlertsInit, AroundTyped, MaybePrice
    <2>3. SoundJob(NoJob) /\ NoJob \in Job
      BY JobAssumption DEF SoundJob, NoJob, Job, MaxStalls
    <2>4. QED
      BY <2>1, <2>2, <2>3, AlertsStartTyped DEF AlertsInit, EvaluationsSound
  <1>2. AlertsTyped /\ AroundTyped /\ EvaluationsSound /\ [AlertsNext]_alertVars
          => (AlertsTyped /\ AroundTyped /\ EvaluationsSound)'
    BY AlertsKeepTypes, AroundStaysTyped, EvaluationsStaySound
  <1>3. AlertsTyped /\ AroundTyped /\ EvaluationsSound => AlertsTypeOK
    BY DEF AlertsTyped, AroundTyped, EvaluationsSound, AlertsTypeOK, AlertRow, EvaluationType
  <1>4. QED
    BY <1>1, <1>2, <1>3, PTL DEF AlertsSpec

-----------------------------------------------------------------------------
(***************************************************************************)
(* DailyPrices: types.                                                     *)
(***************************************************************************)
Sighting ==
    [source : {"EXTERNAL_API", "PURCHASE_CONFIRMED", "USER_WITH_EVIDENCE", "USER_REPORTED"},
     by : STRING, status : {"ACCEPTED", "FLAGGED", "REJECTED"}, currency : Nat \ {0},
     price : Nat \ {0}, at : Moments, received : Moments, confirmed : Moments \cup {0}]

AggregatorPlaces == {"off", "list", "window", "previous", "upsert"}

AggregatorRecord(k) ==
    k \in [pc : AggregatorPlaces, day : Calendar, todo : SUBSET (Nat \ {0}),
           computed : {k.computed}, previous : {k.previous}]

SightingsTyped ==
    sightings \subseteq Sighting /\ IsFiniteSet(sightings) /\ Cardinality(sightings) <= MaxSightings

AggregatorsTyped ==
    /\ aggregator = [r \in Runs |-> aggregator[r]]
    /\ \A r \in Runs : /\ AggregatorRecord(aggregator[r])
                       /\ aggregator[r].computed.count \in 0 .. MaxSightings

DailyTyped ==
    /\ moment \in Moments /\ SightingsTyped /\ AggregatorsTyped
    /\ history = [d \in Calendar |-> history[d]]
    /\ \A d \in Calendar : history[d].count \in 0 .. MaxSightings
    /\ tick \in [state : {"none", "waiting", "active"}, day : 0 .. LastDay]
    /\ doubtful \subseteq Calendar /\ mishaps \in 0 .. MaxMishaps

AggregatorSet(r, k) == aggregator' = [aggregator EXCEPT ![r] = k]

LEMMA Lengths == DayLength \in Nat \ {0} /\ LastDay \in Nat \ {0} /\ MaxSightings \in Nat
  BY DailyAssumption DEF DailyAssumption

LEMMA DaysOf ==
  ASSUME NEW d \in Int, NEW e \in Int
  PROVE  /\ DayStart(d) \in Int /\ DayEnd(d) \in Int /\ DayStart(d) < DayEnd(d)
         /\ DayEnd(d) = DayStart(d + 1)
         /\ d < e => DayEnd(d) <= DayStart(e)
         /\ d <= e => DayStart(d) <= DayStart(e) /\ DayEnd(d) <= DayEnd(e)
  <1>1. DayLength * d \in Int /\ DayLength * e \in Int /\ d * DayLength = DayLength * d
        /\ (d - 1) * DayLength = DayLength * d - DayLength
        /\ (e - 1) * DayLength = DayLength * e - DayLength
        /\ e * DayLength = DayLength * e
    BY Lengths
  <1>2. d < e => DayLength * d + DayLength <= DayLength * e
    BY Lengths, Grows
  <1>3. d <= e => DayLength * d <= DayLength * e
    BY <1>1, <1>2, Lengths
  <1>4. QED
    BY <1>1, <1>2, <1>3, Lengths DEF DayStart, DayEnd

LEMMA DayOfMoment ==
  ASSUME NEW t \in Int, NEW d \in Int
  PROVE  UtcDay(t) \in Int /\ (d <= UtcDay(t) <=> DayStart(d) <= t)
  <1>1. (t - 1) \div DayLength \in Int
    BY Lengths, Division
  <1>2. d - 1 <= (t - 1) \div DayLength <=> DayLength * (d - 1) <= t - 1
    BY Lengths, Quotient
  <1>3. DayLength * (d - 1) = (d - 1) * DayLength /\ DayLength * (d - 1) \in Int
    BY Lengths
  <1>4. QED
    BY <1>1, <1>2, <1>3 DEF UtcDay, DayStart

\* A moment's day is one of the calendar, and it lies in it.
LEMMA DayIsKnown ==
  ASSUME NEW t \in Moments
  PROVE  /\ t \in Nat \ {0} /\ UtcDay(t) \in Calendar
         /\ \A d \in Int : d <= UtcDay(t) <=> DayStart(d) <= t
         /\ \A d \in Int : UtcDay(t) < d <=> t < DayStart(d)
         /\ \A d \in Int : UtcDay(t) <= d <=> t < DayEnd(d)
  <1>1. t \in 1 .. DayEnd(LastDay) - 1
    BY DEF Moments
  <1>2. t \in Nat \ {0}
    BY <1>1, Lengths, DaysOf
  <1>3. \A d \in Int : d <= UtcDay(t) <=> DayStart(d) <= t
    BY <1>2, DayOfMoment
  <1>4. UtcDay(t) \in Int /\ \A d \in Int : DayStart(d) \in Int
    BY <1>2, DayOfMoment, DaysOf
  <1>5. \A d \in Int : UtcDay(t) < d <=> t < DayStart(d)
    BY <1>2, <1>3, <1>4
  <1>6. \A d \in Int : DayEnd(d) = DayStart(d + 1)
    BY DaysOf
  <1>7. \A d \in Int : UtcDay(t) <= d <=> t < DayEnd(d)
    <2>1. SUFFICES ASSUME NEW d \in Int PROVE UtcDay(t) <= d <=> t < DayEnd(d)
      OBVIOUS
    <2>2. d + 1 \in Int /\ UtcDay(t) < d + 1 <=> t < DayStart(d + 1)
      BY <1>5
    <2>3. QED
      BY <1>4, <1>6, <2>2
  <1>8. 1 <= UtcDay(t) /\ UtcDay(t) <= LastDay
    <2>1. DayStart(1) = 1
      BY Lengths DEF DayStart
    <2>2. QED
      BY <1>1, <1>2, <1>3, <1>7, <2>1, Lengths, DaysOf
  <1>9. QED
    BY <1>2, <1>3, <1>4, <1>5, <1>7, <1>8 DEF Calendar

\* What a day yields counts some of the observations.
LEMMA WeighsSome ==
  ASSUME NEW S, NEW t
  PROVE  WeightedPrice(S, t).count = Cardinality(S)
  BY DEF WeightedPrice

LEMMA ComputedCounts ==
  ASSUME SightingsTyped, NEW d, NEW c, NEW t
  PROVE  Computed(d, c, t).count \in 0 .. MaxSightings
  <1>1. PICK usable : usable = Usable({o \in Held(d) : o.currency = c})
    OBVIOUS
  <1>2. usable \subseteq sightings
    BY <1>1 DEF Usable, Held
  <1>3. Cardinality(usable) \in 0 .. MaxSightings
    <2>1. IsFiniteSet(usable) /\ Cardinality(usable) <= Cardinality(sightings)
      BY <1>2, FS_Subset DEF SightingsTyped
    <2>2. Cardinality(usable) \in Nat /\ Cardinality(sightings) \in Nat
      BY <2>1, FS_CardinalityType DEF SightingsTyped
    <2>3. QED
      BY <2>1, <2>2, Lengths DEF SightingsTyped
  <1>4. Computed(d, c, t) = IF usable = {} THEN NoPoint ELSE WeightedPrice(usable, t)
    BY <1>1 DEF Computed
  <1>5. NoPoint.count = 0
    BY DEF NoPoint
  <1>6. QED
    BY <1>3, <1>4, <1>5, WeighsSome, Lengths

LEMMA OffIsTyped == AggregatorRecord(Off) /\ Off.computed.count = 0 /\ Off.pc = "off"
  <1>1. 1 \in Calendar
    BY Lengths DEF Calendar
  <1>2. QED
    BY <1>1 DEF AggregatorRecord, Off, NoPoint, AggregatorPlaces

\* What a step does to the run that takes it, one field after the other.
LEMMA RunStarts ==
  ASSUME NEW r \in Runs, NEW d \in Calendar, StartRun(r, d)
  PROVE  /\ aggregator[r].pc = "off"
         /\ \E k : /\ AggregatorSet(r, k) /\ AggregatorRecord(k) /\ k.computed.count = 0
                   /\ k.pc = "list" /\ k.day = d
  <1>1. PICK k : k = [Off EXCEPT !.pc = "list", !.day = d]
    OBVIOUS
  <1>2. AggregatorRecord(k) /\ k.computed.count = 0 /\ k.pc = "list" /\ k.day = d
    BY <1>1, OffIsTyped DEF AggregatorRecord, Off, AggregatorPlaces, NoPoint
  <1>3. QED
    BY <1>1, <1>2 DEF StartRun, AggregatorSet

LEMMA RunLists ==
  ASSUME AggregatorsTyped, NEW r \in Runs, NEW todo \in SUBSET (Nat \ {0}),
         aggregator' = [aggregator EXCEPT ![r].pc = "window", ![r].todo = todo]
  PROVE  \E k : /\ AggregatorSet(r, k) /\ AggregatorRecord(k) /\ k.computed = aggregator[r].computed
                /\ k.pc = "window" /\ k.day = aggregator[r].day /\ k.todo = todo
  <1>1. PICK k : k = [aggregator[r] EXCEPT !.pc = "window", !.todo = todo]
    OBVIOUS
  <1>2. AggregatorRecord(aggregator[r])
    BY DEF AggregatorsTyped
  <1>3. /\ AggregatorRecord(k) /\ k.computed = aggregator[r].computed
        /\ k.pc = "window" /\ k.day = aggregator[r].day /\ k.todo = todo
    BY <1>1, <1>2 DEF AggregatorRecord, AggregatorPlaces
  <1>4. AggregatorSet(r, k)
    BY <1>1 DEF AggregatorSet, AggregatorsTyped
  <1>5. QED
    BY <1>3, <1>4

LEMMA TargetDone ==
  ASSUME AggregatorsTyped, NEW r \in Runs, NextTarget(r)
  PROVE  LET left == aggregator[r].todo \ {Currency(r)} IN
         \/ left = {} /\ AggregatorSet(r, Off) /\ Ended(r)
         \/ /\ left # {} /\ UNCHANGED tick
            /\ \E k : /\ AggregatorSet(r, k) /\ AggregatorRecord(k)
                      /\ k.computed = aggregator[r].computed
                      /\ k.pc = "window" /\ k.day = aggregator[r].day /\ k.todo = left
  <1>1. PICK left : left = aggregator[r].todo \ {Currency(r)}
    OBVIOUS
  <1>2. left \in SUBSET (Nat \ {0})
    BY <1>1 DEF AggregatorsTyped, AggregatorRecord
  <1>3. CASE left = {}
    BY <1>1, <1>3 DEF NextTarget, AggregatorSet
  <1>4. CASE left # {}
    <2>1. /\ aggregator' = [aggregator EXCEPT ![r].pc = "window", ![r].todo = left]
          /\ UNCHANGED tick
      BY <1>1, <1>4 DEF NextTarget
    <2>2. QED
      BY <1>1, <1>2, <1>4, <2>1, RunLists, ZenonT(60)
  <1>5. QED
    BY <1>3, <1>4

LEMMA DayRead ==
  ASSUME AggregatorsTyped, NEW r \in Runs, NEW n,
         aggregator' = [aggregator EXCEPT ![r].pc = "previous", ![r].computed = n]
  PROVE  \E k : /\ AggregatorSet(r, k) /\ AggregatorRecord(k) /\ k.computed = n
                /\ k.pc = "previous" /\ k.day = aggregator[r].day /\ k.todo = aggregator[r].todo
  <1>1. PICK h : h = [aggregator[r] EXCEPT !.pc = "previous"]
    OBVIOUS
  <1>2. PICK k : k = [h EXCEPT !.computed = n]
    OBVIOUS
  <1>3. AggregatorRecord(aggregator[r])
    BY DEF AggregatorsTyped
  <1>4. /\ AggregatorRecord(h) /\ h.computed = aggregator[r].computed /\ h.pc = "previous"
        /\ h.day = aggregator[r].day /\ h.todo = aggregator[r].todo
    BY <1>1, <1>3 DEF AggregatorRecord, AggregatorPlaces
  <1>5. /\ AggregatorRecord(k) /\ k.computed = n /\ k.pc = "previous"
        /\ k.day = h.day /\ k.todo = h.todo
    BY <1>2, <1>4 DEF AggregatorRecord, AggregatorPlaces
  <1>6. AggregatorSet(r, k)
    BY <1>1, <1>2 DEF AggregatorSet, AggregatorsTyped
  <1>7. QED
    BY <1>4, <1>5, <1>6

LEMMA PreviousFound ==
  ASSUME AggregatorsTyped, NEW r \in Runs, FindPreviousDay(r)
  PROVE  \E k : /\ AggregatorSet(r, k) /\ AggregatorRecord(k) /\ k.computed = aggregator[r].computed
                /\ k.pc = "upsert" /\ k.day = aggregator[r].day /\ k.todo = aggregator[r].todo
                /\ k.previous = PreviousRow(aggregator[r].day)
  <1>1. PICK n : n = PreviousRow(aggregator[r].day)
    OBVIOUS
  <1>2. PICK h : h = [aggregator[r] EXCEPT !.pc = "upsert"]
    OBVIOUS
  <1>3. PICK k : k = [h EXCEPT !.previous = n]
    OBVIOUS
  <1>4. AggregatorRecord(aggregator[r])
    BY DEF AggregatorsTyped
  <1>5. /\ AggregatorRecord(h) /\ h.computed = aggregator[r].computed /\ h.pc = "upsert"
        /\ h.day = aggregator[r].day /\ h.todo = aggregator[r].todo
    BY <1>2, <1>4 DEF AggregatorRecord, AggregatorPlaces
  <1>6. /\ AggregatorRecord(k) /\ k.computed = h.computed /\ k.pc = "upsert"
        /\ k.day = h.day /\ k.todo = h.todo /\ k.previous = n
    BY <1>3, <1>5 DEF AggregatorRecord, AggregatorPlaces
  <1>7. AggregatorSet(r, k)
    BY <1>1, <1>2, <1>3 DEF FindPreviousDay, AggregatorSet, AggregatorsTyped
  <1>8. QED
    BY <1>1, <1>5, <1>6, <1>7

LEMMA RunIsTyped ==
  ASSUME AggregatorsTyped, NEW r \in Runs, NEW k, AggregatorRecord(k),
         k.computed.count \in 0 .. MaxSightings, AggregatorSet(r, k)
  PROVE  AggregatorsTyped'
  <1>1. aggregator' = [s \in Runs |-> aggregator'[s]] /\ aggregator'[r] = k
        /\ \A s \in Runs \ {r} : aggregator'[s] = aggregator[s]
    BY DEF AggregatorsTyped, AggregatorSet
  <1>2. QED
    BY <1>1 DEF AggregatorsTyped

LEMMA TargetsTyped ==
  ASSUME SightingsTyped, NEW d
  PROVE  Targets(d) \in SUBSET (Nat \ {0}) /\ IsFiniteSet(Targets(d))
  <1>1. Held(d) \subseteq Sighting /\ IsFiniteSet(Held(d))
    BY FS_Subset DEF SightingsTyped, Held
  <1>2. Targets(d) \subseteq Nat \ {0}
    BY <1>1 DEF Targets, Sighting
  <1>3. PICK f : f = [o \in Held(d) |-> o.currency]
    OBVIOUS
  <1>4. f \in Surjection(Held(d), Targets(d))
    BY <1>3 DEF Targets, Surjection
  <1>5. QED
    BY <1>1, <1>2, <1>4, FS_Surjection

\* One observation more, one changed or one less.
LEMMA SightingsKeepTypes ==
  ASSUME DailyTyped,
         \/ \E who \in Reporting, at \in 1 .. moment : Observe(who, at)
         \/ \E o \in sightings : ConfirmSighting(o) \/ PruneSighting(o)
  PROVE  SightingsTyped'
  <1>1. /\ sightings \subseteq Sighting /\ IsFiniteSet(sightings) /\ moment \in Moments
        /\ Cardinality(sightings) \in Nat /\ Cardinality(sightings) <= MaxSightings
    BY FS_CardinalityType DEF DailyTyped, SightingsTyped
  <1>2. ASSUME NEW who \in Reporting, NEW at \in 1 .. moment, Observe(who, at)
        PROVE  SightingsTyped'
    <2>1. PICK o : o = [source |-> who.source, by |-> who.by, status |-> who.status,
                        currency |-> who.currency, price |-> who.price, at |-> at,
                        received |-> moment, confirmed |-> 0]
      OBVIOUS
    <2>2. who \in [source : {"EXTERNAL_API", "PURCHASE_CONFIRMED", "USER_WITH_EVIDENCE",
                             "USER_REPORTED"},
                   by : STRING, status : {"ACCEPTED", "FLAGGED", "REJECTED"},
                   currency : Nat \ {0}, price : Nat \ {0}]
      BY DailyAssumption DEF DailyAssumption
    <2>3. at \in Moments
      BY <1>1, DayIsKnown, Lengths, DaysOf DEF Moments
    <2>4. o \in Sighting
      BY <1>1, <2>1, <2>2, <2>3 DEF Sighting
    <2>5. sightings' = sightings \cup {o} /\ Cardinality(sightings) < MaxSightings
      BY <1>2, <2>1 DEF Observe
    <2>6. IsFiniteSet(sightings \cup {o}) /\ Cardinality(sightings \cup {o}) \in Nat
      BY <1>1, FS_AddElement, FS_CardinalityType
    <2>7. Cardinality(sightings \cup {o}) <= Cardinality(sightings) + 1
      <3>1. Cardinality(sightings \cup {o})
              = IF o \in sightings THEN Cardinality(sightings) ELSE Cardinality(sightings) + 1
        BY <1>1, FS_AddElement
      <3>2. QED
        BY <1>1, <3>1
    <2>8. QED
      BY <1>1, <2>4, <2>5, <2>6, <2>7, Lengths DEF SightingsTyped
  <1>3. ASSUME NEW o \in sightings
        PROVE  /\ IsFiniteSet(sightings \ {o})
               /\ Cardinality(sightings \ {o}) + 1 = Cardinality(sightings)
               /\ Cardinality(sightings \ {o}) \in Nat
    <2>1. IsFiniteSet(sightings \ {o}) /\ Cardinality(sightings \ {o}) \in Nat
      BY <1>1, FS_RemoveElement, FS_CardinalityType
    <2>2. Cardinality(sightings \ {o}) = Cardinality(sightings) - 1
      BY <1>1, FS_RemoveElement
    <2>3. QED
      BY <1>1, <2>1, <2>2
  <1>4. ASSUME NEW o \in sightings, ConfirmSighting(o) PROVE SightingsTyped'
    <2>1. PICK n : n = [o EXCEPT !.confirmed = moment]
      OBVIOUS
    <2>2. n \in Sighting
      BY <1>1, <2>1 DEF Sighting
    <2>3. sightings' = (sightings \ {o}) \cup {n}
      BY <1>4, <2>1 DEF ConfirmSighting
    <2>4. IsFiniteSet(sightings') /\ Cardinality(sightings') \in Nat
      BY <1>3, <2>3, FS_AddElement, FS_CardinalityType
    <2>5. Cardinality(sightings') <= Cardinality(sightings \ {o}) + 1
      <3>1. PICK T : T = sightings \ {o}
        OBVIOUS
      <3>2. Cardinality(T \cup {n}) = IF n \in T THEN Cardinality(T) ELSE Cardinality(T) + 1
        BY <1>3, <3>1, FS_AddElement
      <3>3. QED
        BY <1>3, <2>3, <3>1, <3>2
    <2>6. QED
      BY <1>1, <1>3, <2>2, <2>3, <2>4, <2>5, Lengths DEF SightingsTyped
  <1>5. ASSUME NEW o \in sightings, PruneSighting(o) PROVE SightingsTyped'
    BY <1>1, <1>3, <1>5, Lengths DEF PruneSighting, SightingsTyped
  <1>6. QED
    BY <1>2, <1>4, <1>5

LEMMA AggregatorsKeepTypes ==
  ASSUME DailyTyped, DailyNext
  PROVE  AggregatorsTyped' /\ SightingsTyped'
  <1>1. AggregatorsTyped /\ SightingsTyped /\ moment \in Moments
    BY DEF DailyTyped
  <1>2. CASE UNCHANGED <<aggregator, sightings>>
    BY <1>1, <1>2 DEF AggregatorsTyped, SightingsTyped
  <1>3. CASE \/ \E who \in Reporting, at \in 1 .. moment : Observe(who, at)
             \/ \E o \in sightings : ConfirmSighting(o) \/ PruneSighting(o)
    <2>1. UNCHANGED aggregator
      BY <1>3 DEF Observe, ConfirmSighting, PruneSighting, Aggregating
    <2>2. QED
      BY <1>1, <1>3, <2>1, SightingsKeepTypes DEF AggregatorsTyped
  <1>4. ASSUME UNCHANGED sightings, AggregatorsTyped' PROVE AggregatorsTyped' /\ SightingsTyped'
    BY <1>1, <1>4 DEF SightingsTyped
  <1>5. ASSUME NEW r \in Runs, NEW d \in Calendar, StartRun(r, d) PROVE AggregatorsTyped'
    BY <1>1, <1>5, RunStarts, RunIsTyped, Lengths
  <1>6. ASSUME NEW r \in Runs, AggregatorSet(r, Off) PROVE AggregatorsTyped'
    BY <1>1, <1>6, OffIsTyped, RunIsTyped, Lengths
  <1>7. ASSUME NEW r \in Runs, NextTarget(r) PROVE AggregatorsTyped'
    <2>1. \/ AggregatorSet(r, Off)
          \/ \E k : AggregatorSet(r, k) /\ AggregatorRecord(k) /\ k.computed = aggregator[r].computed
      BY <1>1, <1>7, TargetDone
    <2>2. QED
      BY <1>1, <1>6, <2>1, RunIsTyped DEF AggregatorsTyped
  <1>8. CASE TakeTick
    <2>1. UtcDay(moment) - 1 \in Calendar
      BY <1>1, <1>8, DayIsKnown, Lengths DEF TakeTick, Calendar
    <2>2. QED
      BY <1>4, <1>5, <1>8, <2>1 DEF TakeTick, Still, Runs
  <1>9. CASE \E d \in Calendar : Reaggregate(d)
    BY <1>4, <1>5, <1>9 DEF Reaggregate, Still, Runs
  <1>10. ASSUME NEW r \in Runs, ListTargets(r) PROVE AggregatorsTyped' /\ SightingsTyped'
    <2>1. PICK todo \in SUBSET (Nat \ {0}) : todo = Targets(aggregator[r].day)
      BY <1>1, TargetsTyped
    <2>2. AggregatorSet(r, Off)
          \/ aggregator' = [aggregator EXCEPT ![r].pc = "window", ![r].todo = todo]
      BY <1>10, <2>1 DEF ListTargets, AggregatorSet
    <2>3. AggregatorsTyped'
      BY <1>1, <1>6, <2>2, RunLists, RunIsTyped DEF AggregatorsTyped
    <2>4. QED
      BY <1>4, <1>10, <2>3 DEF ListTargets, Still
  <1>11. ASSUME NEW r \in Runs, ReadDay(r) PROVE AggregatorsTyped' /\ SightingsTyped'
    <2>1. PICK n : n = Computed(aggregator[r].day, Currency(r), AsOf(aggregator[r].day))
      OBVIOUS
    <2>2. n.count \in 0 .. MaxSightings
      BY <1>1, <2>1, ComputedCounts
    <2>3. NextTarget(r) \/ aggregator' = [aggregator EXCEPT ![r].pc = "previous", ![r].computed = n]
      BY <1>11, <2>1 DEF ReadDay
    <2>4. AggregatorsTyped'
      <3>1. CASE aggregator' = [aggregator EXCEPT ![r].pc = "previous", ![r].computed = n]
        <4>1. PICK k : AggregatorSet(r, k) /\ AggregatorRecord(k) /\ k.computed = n
          BY <1>1, <3>1, DayRead, ZenonT(60)
        <4>2. QED
          BY <1>1, <2>2, <4>1, RunIsTyped
      <3>2. QED
        BY <1>7, <2>3, <3>1
    <2>5. QED
      BY <1>4, <1>11, <2>4 DEF ReadDay, Still
  <1>12. ASSUME NEW r \in Runs, FindPreviousDay(r) PROVE AggregatorsTyped' /\ SightingsTyped'
    <2>1. AggregatorsTyped'
      BY <1>1, <1>12, PreviousFound, RunIsTyped DEF AggregatorsTyped
    <2>2. QED
      BY <1>4, <1>12, <2>1 DEF FindPreviousDay, Still
  <1>13. ASSUME NEW r \in Runs, UpsertDay(r) PROVE AggregatorsTyped' /\ SightingsTyped'
    BY <1>4, <1>7, <1>13 DEF UpsertDay, Still
  <1>14. ASSUME NEW r \in Runs, AggregatorDies(r) PROVE AggregatorsTyped' /\ SightingsTyped'
    BY <1>4, <1>6, <1>14 DEF AggregatorDies, Still, AggregatorSet
  <1>15. CASE NextMoment \/ AddTick
    BY <1>2, <1>15 DEF NextMoment, AddTick, Still
  <1>16. QED
    BY <1>3, <1>8, <1>9, <1>10, <1>11, <1>12, <1>13, <1>14, <1>15 DEF DailyNext, AggregatorStep

LEMMA DailyKeepsTypes ==
  ASSUME DailyTyped, [DailyNext]_dailyVars
  PROVE  DailyTyped'
  <1>1. CASE UNCHANGED dailyVars
    BY <1>1 DEF dailyVars, DailyTyped, SightingsTyped, AggregatorsTyped
  <1>2. CASE DailyNext
    <2>1. AggregatorsTyped' /\ SightingsTyped'
      BY <1>2, AggregatorsKeepTypes
    <2>2. moment' \in Moments
      BY <1>2
      DEF DailyTyped, DailyNext, NextMoment, AddTick, TakeTick, Observe, ConfirmSighting,
          PruneSighting, Reaggregate, AggregatorStep, AggregatorDies, ListTargets, ReadDay,
          FindPreviousDay, UpsertDay, Aggregating, Still
    <2>3. /\ history' = [d \in Calendar |-> history'[d]]
          /\ \A d \in Calendar : history'[d].count \in 0 .. MaxSightings
      <3>1. CASE UNCHANGED history
        BY <3>1 DEF DailyTyped
      <3>2. ASSUME NEW r \in Runs, UpsertDay(r)
            PROVE  /\ history' = [d \in Calendar |-> history'[d]]
                   /\ \A d \in Calendar : history'[d].count \in 0 .. MaxSightings
        <4>1. PICK n : n = Row(aggregator[r].computed, Currency(r), aggregator[r].previous)
          OBVIOUS
        <4>2. n.count = aggregator[r].computed.count
          BY <4>1 DEF Row
        <4>3. history' = [history EXCEPT ![aggregator[r].day] = n]
          BY <3>2, <4>1 DEF UpsertDay
        <4>4. QED
          BY <4>2, <4>3 DEF DailyTyped, AggregatorsTyped
      <3>3. QED
        BY <1>2, <3>1, <3>2
        DEF DailyNext, NextMoment, AddTick, TakeTick, Observe, ConfirmSighting, PruneSighting,
            Reaggregate, AggregatorStep, AggregatorDies, ListTargets, ReadDay, FindPreviousDay,
            Aggregating
    <2>4. tick' \in [state : {"none", "waiting", "active"}, day : 0 .. LastDay]
      <3>1. UtcDay(moment) \in 0 .. LastDay
        BY DayIsKnown, Lengths DEF DailyTyped, Calendar
      <3>2. \/ UNCHANGED tick
            \/ tick' = [state |-> "waiting", day |-> UtcDay(moment)]
            \/ \E s \in {"none", "waiting", "active"} : tick' = [tick EXCEPT !.state = s]
        BY <1>2
        DEF DailyNext, NextMoment, AddTick, TakeTick, Observe, ConfirmSighting, PruneSighting,
            Reaggregate, AggregatorStep, AggregatorDies, ListTargets, ReadDay, FindPreviousDay,
            UpsertDay, NextTarget, Ended, Aggregating
      <3>3. QED
        BY <3>1, <3>2 DEF DailyTyped
    <2>5. doubtful' \subseteq Calendar
      <3>1. \A r \in Runs : aggregator[r].day \in Calendar
        BY DEF DailyTyped, AggregatorsTyped, AggregatorRecord
      <3>2. ASSUME NEW t \in Moments, NEW o \in sightings PROVE Span(o, t) \subseteq Calendar
        <4>1. o.at \in Moments
          BY DEF DailyTyped, SightingsTyped, Sighting
        <4>2. UtcDay(o.at) \in Calendar /\ UtcDay(t) \in Calendar
          BY <4>1, DayIsKnown
        <4>3. QED
          BY <4>2, Lengths DEF Span, Calendar
      <3>3. ASSUME NEW o \in sightings PROVE Later(o.at, o.confirmed) \in Moments
        <4>1. o.at \in Moments /\ o.confirmed \in Moments \cup {0}
          BY DEF DailyTyped, SightingsTyped, Sighting
        <4>2. o.at \in Nat \ {0}
          BY <4>1, DayIsKnown
        <4>3. QED
          BY <4>1, <4>2 DEF Later
      <3>4. ASSUME NEW at \in 1 .. moment PROVE UtcDay(at) \in Calendar
        <4>1. at \in Moments
          BY DayIsKnown, Lengths, DaysOf DEF Moments, DailyTyped
        <4>2. QED
          BY <4>1, DayIsKnown
      <3>5. ASSUME NEW d \in Calendar PROVE d + 1 .. LastDay \subseteq Calendar
        BY Lengths DEF Calendar
      <3>6. \/ UNCHANGED doubtful
            \/ \E at \in 1 .. moment : doubtful' = doubtful \cup {UtcDay(at)}
            \/ \E o \in sightings : doubtful' = doubtful \cup Span(o, moment)
            \/ \E o \in sightings : doubtful' = doubtful \cup Span(o, Later(o.at, o.confirmed))
            \/ \E r \in Runs : \/ doubtful' = doubtful \ {aggregator[r].day}
                               \/ doubtful' = doubtful \cup {aggregator[r].day}
                               \/ doubtful' = doubtful \cup (aggregator[r].day + 1 .. LastDay)
        BY <1>2
        DEF DailyNext, NextMoment, AddTick, TakeTick, Observe, ConfirmSighting, PruneSighting,
            Reaggregate, AggregatorStep, AggregatorDies, ListTargets, ReadDay, FindPreviousDay,
            UpsertDay
      <3>7. QED
        BY <3>1, <3>2, <3>3, <3>4, <3>5, <3>6 DEF DailyTyped
    <2>6. mishaps' \in 0 .. MaxMishaps
      <3>1. UNCHANGED mishaps \/ (mishaps > 0 /\ mishaps' = mishaps - 1)
        BY <1>2
        DEF DailyNext, NextMoment, AddTick, TakeTick, Observe, ConfirmSighting, PruneSighting,
            Reaggregate, AggregatorStep, AggregatorDies, ListTargets, ReadDay, FindPreviousDay,
            UpsertDay, Aggregating
      <3>2. QED
        BY <3>1, DailyAssumption DEF DailyTyped, DailyAssumption
    <2>7. QED
      BY <2>1, <2>2, <2>3, <2>4, <2>5, <2>6 DEF DailyTyped
  <1>3. QED
    BY <1>1, <1>2

LEMMA DailyStartsTyped ==
  ASSUME DailyInit
  PROVE  DailyTyped
  <1>1. moment \in Moments
    <2>1. DayEnd(1) <= DayEnd(LastDay) /\ DayEnd(LastDay) \in Int
      BY Lengths, DaysOf
    <2>2. DayEnd(1) = DayLength + 1
      BY Lengths DEF DayEnd
    <2>3. QED
      BY <2>1, <2>2, Lengths DEF DailyInit, Moments
  <1>2. SightingsTyped
    BY FS_EmptySet, Lengths DEF DailyInit, SightingsTyped
  <1>3. AggregatorsTyped
    BY OffIsTyped, Lengths DEF DailyInit, AggregatorsTyped
  <1>4. QED
    BY <1>1, <1>2, <1>3, Lengths, DailyAssumption
    DEF DailyInit, DailyTyped, NoPoint, DailyAssumption

LEMMA DailyTypes == DailyTyped => DailyTypeOK
  <1>1. SUFFICES ASSUME DailyTyped PROVE DailyTypeOK
    OBVIOUS
  <1>2. \A o \in sightings : {o.at, o.received} \subseteq Moments /\ o.confirmed \in Moments \cup {0}
    BY <1>1 DEF DailyTyped, SightingsTyped, Sighting
  <1>3. \A r \in Runs : aggregator[r].pc \in AggregatorPlaces /\ aggregator[r].day \in Calendar
    BY <1>1 DEF DailyTyped, AggregatorsTyped, AggregatorRecord
  <1>4. QED
    BY <1>1, <1>2, <1>3 DEF DailyTyped, SightingsTyped, AggregatorPlaces, DailyTypeOK

\* Every step of observations, ticks, runs and what cuts them off keeps a day's
\* prices well formed: no row counts more than was observed.
THEOREM DailyIsTyped == DailySpec => []DailyTypeOK
  BY DailyStartsTyped, DailyKeepsTypes, DailyTypes, PTL DEF DailySpec

-----------------------------------------------------------------------------
(***************************************************************************)
(* A day's row.  As long as nothing of the day changes, one run at most is *)
(* past its list, works the list off from its least currency on, and the   *)
(* row is that of the greatest it has weighed.                             *)
(***************************************************************************)
Weighs(k) == k.pc \in {"window", "previous", "upsert"}
Weighers(d) == {r \in Runs : Weighs(aggregator[r]) /\ aggregator[r].day = d}

Yields(d) == {c \in Targets(d) : Computed(d, c, DayEnd(d)).count > 0}

\* The currencies of the day no run has before it.
Weighed(d) == {c \in Targets(d) : \A r \in Weighers(d) : c \notin aggregator[r].todo}

YieldedRow(d, c) == Row(Computed(d, c, DayEnd(d)), c, PreviousRow(d))

InTurn(d, k) ==
    /\ k.todo \subseteq Targets(d) /\ k.todo # {}
    /\ \A c \in Targets(d) \ k.todo, t \in k.todo : c < t
    /\ k.pc \in {"previous", "upsert"} =>
         k.computed = Computed(d, Min(k.todo), DayEnd(d)) /\ k.computed.count > 0
    /\ k.pc = "upsert" => k.previous = PreviousRow(d)

RowIsLast(d) ==
    \A c \in Yields(d) \cap Weighed(d) :
        (\A e \in Yields(d) \cap Weighed(d) : e <= c) => history[d] = YieldedRow(d, c)

DayHolds(d) ==
    /\ \A r, s \in Weighers(d) : r = s
    /\ \A r \in Weighers(d) : InTurn(d, aggregator[r])
    /\ RowIsLast(d)

DaysHold == \A d \in Calendar \ doubtful : DayHolds(d)

LEMMA LeastOf ==
  ASSUME NEW S \in SUBSET (Nat \ {0}), S # {}
  PROVE  Min(S) \in S /\ \A t \in S : Min(S) <= t
  <1>1. \E m \in S : \A n \in S : m <= n
    BY LeastNatural
  <1>2. QED
    BY <1>1 DEF Min

LEMMA GreatestOf ==
  ASSUME NEW S \in SUBSET (Nat \ {0}), IsFiniteSet(S), S # {}
  PROVE  Max(S) \in S /\ \A t \in S : t <= Max(S)
  <1>1. \E m \in S : \A n \in S : n <= m
    BY GreatestNatural
  <1>2. \E m \in S : \A n \in S : m >= n
    BY <1>1
  <1>3. QED
    BY <1>2 DEF Max

\* What a day yields rests on its own observations, and the row before it on
\* the days before it.
LEMMA DayRests ==
  ASSUME NEW d \in Calendar, Held(d)' = Held(d), \A e \in 1 .. d - 1 : history'[e] = history[e]
  PROVE  /\ Targets(d)' = Targets(d) /\ Yields(d)' = Yields(d)
         /\ \A c : Computed(d, c, DayEnd(d))' = Computed(d, c, DayEnd(d))
         /\ PreviousRow(d)' = PreviousRow(d)
         /\ \A c : YieldedRow(d, c)' = YieldedRow(d, c)
  <1>1. Targets(d)' = Targets(d)
    BY DEF Targets
  <1>2. ASSUME NEW c PROVE Computed(d, c, DayEnd(d))' = Computed(d, c, DayEnd(d))
    BY DEF Computed
  <1>3. PreviousRow(d)' = PreviousRow(d)
    <2>1. {e \in 1 .. d - 1 : history'[e].count > 0} = {e \in 1 .. d - 1 : history[e].count > 0}
      OBVIOUS
    <2>2. PICK before : before = {e \in 1 .. d - 1 : history[e].count > 0}
      OBVIOUS
    <2>3. /\ PreviousRow(d) = IF before = {} THEN NoPoint ELSE history[Max(before)]
          /\ PreviousRow(d)' = IF before = {} THEN NoPoint ELSE history'[Max(before)]
      BY <2>1, <2>2 DEF PreviousRow
    <2>4. CASE before = {}
      BY <2>3, <2>4
    <2>5. CASE before # {}
      <3>1. before \in SUBSET (Nat \ {0}) /\ IsFiniteSet(before)
        <4>1. before \subseteq 1 .. d - 1 /\ d - 1 \in Int
          BY <2>2, Lengths DEF Calendar
        <4>2. IsFiniteSet(1 .. d - 1)
          BY <4>1, FS_Interval
        <4>3. IsFiniteSet(before)
          BY <4>1, <4>2, FS_Subset
        <4>4. QED
          BY <4>1, <4>3
      <3>2. Max(before) \in 1 .. d - 1
        BY <2>2, <2>5, <3>1, GreatestOf
      <3>3. QED
        BY <2>3, <3>2
    <2>6. QED
      BY <2>4, <2>5
  <1>4. Yields(d)' = Yields(d)
    BY <1>1, <1>2 DEF Yields
  <1>5. ASSUME NEW c PROVE YieldedRow(d, c)' = YieldedRow(d, c)
    BY <1>2, <1>3 DEF YieldedRow
  <1>6. QED
    BY <1>1, <1>2, <1>3, <1>4, <1>5

\* A step that leaves a day's observations, its row, the rows before it and the
\* runs that weigh it leaves what is known of it.
LEMMA DayStays ==
  ASSUME NEW d \in Calendar, DayHolds(d), Held(d)' = Held(d),
         \A e \in 1 .. d : history'[e] = history[e],
         \A r \in Runs : \/ aggregator'[r] = aggregator[r]
                         \/ /\ ~(Weighs(aggregator[r]) /\ aggregator[r].day = d)
                            /\ ~(Weighs(aggregator'[r]) /\ aggregator'[r].day = d)
  PROVE  DayHolds(d)'
  <1>1. \A e \in 1 .. d - 1 : history'[e] = history[e]
    BY Lengths DEF Calendar
  <1>2. history'[d] = history[d]
    BY Lengths DEF Calendar
  <1>3. /\ Targets(d)' = Targets(d) /\ Yields(d)' = Yields(d)
        /\ \A c : Computed(d, c, DayEnd(d))' = Computed(d, c, DayEnd(d))
        /\ PreviousRow(d)' = PreviousRow(d)
        /\ \A c : YieldedRow(d, c)' = YieldedRow(d, c)
    BY <1>1, DayRests
  <1>4. Weighers(d)' = Weighers(d) /\ \A r \in Weighers(d) : aggregator'[r] = aggregator[r]
    BY DEF Weighers
  <1>5. Weighed(d)' = Weighed(d)
    BY <1>3, <1>4 DEF Weighed
  <1>6. ASSUME NEW r \in Weighers(d)' PROVE InTurn(d, aggregator[r])'
    <2>1. r \in Weighers(d) /\ aggregator'[r] = aggregator[r] /\ InTurn(d, aggregator[r])
      BY <1>4, <1>6 DEF DayHolds
    <2>2. QED
      BY <1>3, <2>1 DEF InTurn
  <1>7. RowIsLast(d)'
    BY <1>2, <1>3, <1>5 DEF DayHolds, RowIsLast
  <1>8. QED
    BY <1>4, <1>6, <1>7 DEF DayHolds

\* What was seen and confirmed by a moment is of no day outside that span.
LEMMA DayPasses ==
  ASSUME NEW o, NEW at \in Moments, o.at = at, NEW known \in Moments \cup {0}, o.confirmed = known,
         NEW t \in Moments, at <= t, known <= t, NEW d \in Calendar, d \notin UtcDay(at) .. UtcDay(t)
  PROVE  ~HeldDuring(o, d)
  <1>1. d \in Int /\ DayStart(d) \in Int /\ DayEnd(d) \in Int
    BY Lengths, DaysOf DEF Calendar
  <1>2. at \in Nat /\ UtcDay(at) \in Int /\ (UtcDay(at) <= d <=> at < DayEnd(d))
    BY <1>1, DayIsKnown DEF Calendar
  <1>3. t \in Nat /\ UtcDay(t) \in Int /\ (UtcDay(t) < d <=> t < DayStart(d))
    BY <1>1, DayIsKnown DEF Calendar
  <1>4. known \in Nat
    BY DayIsKnown
  <1>5. d < UtcDay(at) \/ UtcDay(t) < d
    BY <1>1, <1>2, <1>3
  <1>6. ~(at < DayEnd(d)) \/ (at < DayStart(d) /\ known < DayStart(d))
    BY <1>1, <1>2, <1>3, <1>4, <1>5
  <1>7. (~(at >= DayStart(d)) /\ ~(known >= DayStart(d))) \/ ~(at < DayEnd(d))
    BY <1>1, <1>2, <1>4, <1>6
  <1>8. QED
    BY <1>7 DEF HeldDuring

\* An observation that is not of a day, before or after it changes, leaves it.
LEMMA DayIsNotTold ==
  ASSUME DailyTyped, NEW d \in Calendar,
         \/ \E who \in Reporting, at \in 1 .. moment : Observe(who, at)
         \/ \E o \in sightings : ConfirmSighting(o) \/ PruneSighting(o),
         d \notin doubtful'
  PROVE  Held(d)' = Held(d)
  <1>1. d \in Int /\ DayStart(d) \in Int /\ DayEnd(d) \in Int /\ moment \in Moments
        /\ moment \in Nat \ {0}
    BY Lengths, DaysOf, DayIsKnown DEF Calendar, DailyTyped
  <1>2. \A at \in 1 .. moment : at \in Moments
    BY <1>1, Lengths, DaysOf DEF Moments
  <1>3. \A o \in sightings : o.at \in Moments /\ o.confirmed \in Moments \cup {0}
    BY DEF DailyTyped, SightingsTyped, Sighting
  <1>4. \A t \in Moments : /\ t \in Nat \ {0} /\ UtcDay(t) \in Int
                           /\ UtcDay(t) < d <=> t < DayStart(d)
                           /\ UtcDay(t) <= d <=> t < DayEnd(d)
    BY <1>1, DayIsKnown, Lengths DEF Calendar
  <1>5. ASSUME NEW who \in Reporting, NEW at \in 1 .. moment, Observe(who, at)
        PROVE  Held(d)' = Held(d)
    <2>1. PICK o : o = [source |-> who.source, by |-> who.by, status |-> who.status,
                        currency |-> who.currency, price |-> who.price, at |-> at,
                        received |-> moment, confirmed |-> 0]
      OBVIOUS
    <2>2. sightings' = sightings \cup {o} /\ o.at = at /\ o.confirmed = 0
      BY <1>5, <2>1 DEF Observe
    <2>3. UtcDay(at) # d
      BY <1>5 DEF Observe
    <2>4. 1 <= DayStart(d)
      BY Lengths, DaysOf, <1>1 DEF DayStart, Calendar
    <2>5. ~HeldDuring(o, d)
      BY <1>1, <1>2, <1>4, <2>2, <2>3, <2>4 DEF HeldDuring
    <2>6. QED
      BY <2>2, <2>5 DEF Held
  <1>6. ASSUME NEW o \in sightings, ConfirmSighting(o) PROVE Held(d)' = Held(d)
    <2>0. o.at \in Nat /\ o.confirmed \in Nat
      BY <1>3, <1>4
    <2>1. PICK n : n = [o EXCEPT !.confirmed = moment]
      OBVIOUS
    <2>2. sightings' = (sightings \ {o}) \cup {n} /\ d \notin Span(o, moment)
          /\ o.at < moment /\ o.confirmed < moment
      BY <1>6, <2>1 DEF ConfirmSighting
    <2>3. n.at = o.at /\ n.confirmed = moment
      BY <2>1 DEF DailyTyped, SightingsTyped, Sighting
    <2>4. ~HeldDuring(o, d) /\ ~HeldDuring(n, d)
      <3>1. ~HeldDuring(o, d)
        <4>1. o.at <= moment /\ o.confirmed <= moment
          BY <1>1, <2>0, <2>2
        <4>2. QED
          BY <1>1, <1>3, <2>2, <4>1, DayPasses DEF Span
      <3>2. ~HeldDuring(n, d)
        <4>1. n.at <= moment /\ n.confirmed <= moment
          BY <1>1, <2>0, <2>2, <2>3
        <4>2. QED
          BY <1>1, <1>3, <2>2, <2>3, <4>1, DayPasses DEF Span
      <3>3. QED
        BY <3>1, <3>2
    <2>5. QED
      BY <2>2, <2>4 DEF Held
  <1>7. ASSUME NEW o \in sightings, PruneSighting(o) PROVE Held(d)' = Held(d)
    <2>1. o.at \in Nat /\ o.confirmed \in Nat
      BY <1>3, <1>4
    <2>2. PICK t \in Moments : t = Later(o.at, o.confirmed)
      BY <1>3, <2>1 DEF Later
    <2>3. o.at <= t /\ o.confirmed <= t
      BY <2>1, <2>2 DEF Later
    <2>4. sightings' = sightings \ {o} /\ d \notin Span(o, t)
      BY <1>7, <2>2 DEF PruneSighting
    <2>5. ~HeldDuring(o, d)
      BY <1>3, <2>3, <2>4, DayPasses DEF Span
    <2>6. QED
      BY <2>4, <2>5 DEF Held
  <1>8. QED
    BY <1>5, <1>6, <1>7

-----------------------------------------------------------------------------
LEMMA OneWeigher ==
  ASSUME NEW d \in Calendar, DayHolds(d), NEW r \in Runs, Weighs(aggregator[r]), aggregator[r].day = d
  PROVE  /\ Weighers(d) = {r} /\ InTurn(d, aggregator[r])
         /\ Weighed(d) = Targets(d) \ aggregator[r].todo
  <1>1. r \in Weighers(d)
    BY DEF Weighers
  <1>2. Weighers(d) = {r}
    BY <1>1 DEF DayHolds
  <1>3. QED
    BY <1>1, <1>2 DEF DayHolds, Weighed

LEMMA RunSet ==
  ASSUME AggregatorsTyped, NEW r \in Runs, NEW k, AggregatorSet(r, k)
  PROVE  aggregator'[r] = k /\ \A s \in Runs \ {r} : aggregator'[s] = aggregator[s]
  BY DEF AggregatorsTyped, AggregatorSet

\* A run that goes on with the same currency.
LEMMA SameCurrency ==
  ASSUME AggregatorsTyped, NEW d \in Calendar, DayHolds(d), UNCHANGED <<sightings, history>>,
         NEW r \in Runs, Weighs(aggregator[r]), aggregator[r].day = d,
         NEW k, AggregatorSet(r, k), Weighs(k), k.day = d, k.todo = aggregator[r].todo, InTurn(d, k)
  PROVE  DayHolds(d)'
  <1>1. /\ Weighers(d) = {r} /\ Weighed(d) = Targets(d) \ aggregator[r].todo
    BY OneWeigher
  <1>2. aggregator'[r] = k /\ \A s \in Runs \ {r} : aggregator'[s] = aggregator[s]
    BY RunSet
  <1>3. Weighers(d)' = {r}
    BY <1>1, <1>2 DEF Weighers
  <1>4. Held(d)' = Held(d)
    BY DEF Held
  <1>5. /\ Targets(d)' = Targets(d) /\ Yields(d)' = Yields(d)
        /\ \A c : Computed(d, c, DayEnd(d))' = Computed(d, c, DayEnd(d))
        /\ PreviousRow(d)' = PreviousRow(d)
        /\ \A c : YieldedRow(d, c)' = YieldedRow(d, c)
    BY <1>4, DayRests
  <1>6. Weighed(d)' = Weighed(d)
    BY <1>1, <1>2, <1>3, <1>5 DEF Weighed
  <1>7. InTurn(d, aggregator[r])'
    BY <1>2, <1>5 DEF InTurn
  <1>8. RowIsLast(d)'
    BY <1>5, <1>6 DEF DayHolds, RowIsLast
  <1>9. QED
    BY <1>3, <1>7, <1>8 DEF DayHolds

\* A run is done with its least currency: the day has its row, or none came of
\* it and the row stays.
LEMMA NextCurrency ==
  ASSUME DailyTyped, NEW d \in Calendar, DayHolds(d), UNCHANGED sightings,
         \A e \in 1 .. d - 1 : history'[e] = history[e],
         NEW r \in Runs, Weighs(aggregator[r]), aggregator[r].day = d, NextTarget(r),
         \/ Currency(r) \notin Yields(d) /\ history'[d] = history[d]
         \/ Currency(r) \in Yields(d) /\ history'[d] = YieldedRow(d, Currency(r))
  PROVE  DayHolds(d)'
  <1>1. /\ Weighers(d) = {r} /\ Weighed(d) = Targets(d) \ aggregator[r].todo
        /\ InTurn(d, aggregator[r])
    BY OneWeigher
  <1>2. PICK todo : todo = aggregator[r].todo
    OBVIOUS
  <1>3. PICK left : left = todo \ {Currency(r)}
    OBVIOUS
  <1>4. /\ todo \in SUBSET (Nat \ {0}) /\ todo \subseteq Targets(d) /\ todo # {}
        /\ \A c \in Targets(d) \ todo, t \in todo : c < t
    BY <1>1, <1>2 DEF InTurn, DailyTyped, AggregatorsTyped, AggregatorRecord
  <1>5. Currency(r) \in todo /\ \A t \in todo : Currency(r) <= t
    BY <1>2, <1>4, LeastOf DEF Currency
  <1>6. AggregatorsTyped /\ SightingsTyped
    BY DEF DailyTyped
  <1>7. Targets(d) \in SUBSET (Nat \ {0})
    BY <1>6, TargetsTyped
  <1>8. Held(d)' = Held(d)
    BY DEF Held
  <1>9. /\ Targets(d)' = Targets(d) /\ Yields(d)' = Yields(d)
        /\ \A c : Computed(d, c, DayEnd(d))' = Computed(d, c, DayEnd(d))
        /\ PreviousRow(d)' = PreviousRow(d)
        /\ \A c : YieldedRow(d, c)' = YieldedRow(d, c)
    BY <1>8, DayRests
  <1>10. /\ \A q, s \in Weighers(d)' : q = s
         /\ \A s \in Weighers(d)' : InTurn(d, aggregator[s])'
         /\ Weighed(d)' = Weighed(d) \cup {Currency(r)}
    <2>1. CASE left = {}
      <3>1. AggregatorSet(r, Off)
        BY <1>2, <1>3, <1>6, <2>1, TargetDone
      <3>2. aggregator'[r] = Off /\ \A s \in Runs \ {r} : aggregator'[s] = aggregator[s]
        BY <1>6, <3>1, RunSet
      <3>3. Weighers(d)' = {}
        BY <1>1, <3>2, OffIsTyped DEF Weighers, Weighs
      <3>4. Weighed(d)' = Targets(d)
        BY <1>9, <3>3 DEF Weighed
      <3>5. todo = {Currency(r)}
        BY <1>3, <1>5, <2>1
      <3>6. QED
        BY <1>1, <1>2, <1>4, <3>3, <3>4, <3>5
    <2>2. CASE left # {}
      <3>1. PICK k : /\ AggregatorSet(r, k) /\ k.pc = "window" /\ k.day = d /\ k.todo = left
        BY <1>2, <1>3, <1>6, <2>2, TargetDone
      <3>2. aggregator'[r] = k /\ \A s \in Runs \ {r} : aggregator'[s] = aggregator[s]
        BY <1>6, <3>1, RunSet
      <3>3. Weighers(d)' = {r}
        BY <1>1, <3>1, <3>2 DEF Weighers, Weighs
      <3>4. Weighed(d)' = Targets(d) \ left
        BY <1>9, <3>1, <3>2, <3>3 DEF Weighed
      <3>5. \A c \in Targets(d) \ left, t \in left : c < t
        BY <1>3, <1>4, <1>5, <1>7
      <3>6. InTurn(d, aggregator[r])'
        BY <1>3, <1>4, <1>9, <2>2, <3>1, <3>2, <3>5 DEF InTurn
      <3>7. QED
        BY <1>1, <1>2, <1>3, <1>4, <1>5, <3>3, <3>4, <3>6
    <2>3. QED
      BY <2>1, <2>2
  <1>11. RowIsLast(d)'
    <2>1. SUFFICES ASSUME NEW c \in Yields(d) \cap (Weighed(d) \cup {Currency(r)}),
                          \A e \in Yields(d) \cap (Weighed(d) \cup {Currency(r)}) : e <= c
                   PROVE  history'[d] = YieldedRow(d, c)
      BY <1>9, <1>10 DEF RowIsLast
    <2>2. CASE Currency(r) \notin Yields(d) /\ history'[d] = history[d]
      BY <2>1, <2>2 DEF DayHolds, RowIsLast
    <2>3. CASE history'[d] = YieldedRow(d, Currency(r)) /\ Currency(r) \in Yields(d)
      <3>1. Currency(r) <= c
        BY <2>1, <2>3
      <3>2. c \in Weighed(d) => c < Currency(r)
        BY <1>1, <1>2, <1>4, <1>5
      <3>3. c \in Nat /\ Currency(r) \in Nat
        BY <1>4, <1>5, <1>7, <2>1 DEF Yields
      <3>4. c = Currency(r)
        BY <2>1, <3>1, <3>2, <3>3
      <3>5. QED
        BY <2>3, <3>4
    <2>4. QED
      BY <2>2, <2>3
  <1>12. QED
    BY <1>10, <1>11 DEF DayHolds

\* A run lists its day alone: nothing is weighed yet, or there is nothing to.
LEMMA ListedAlone ==
  ASSUME DailyTyped, NEW d \in Calendar, NEW r \in Runs, ListTargets(r), aggregator[r].day = d,
         Aggregators(d) = {r}
  PROVE  DayHolds(d)'
  <1>1. aggregator[r].day = d
    OBVIOUS
  <1>2. AggregatorsTyped /\ SightingsTyped /\ aggregator[r].pc = "list"
    BY DEF DailyTyped, ListTargets
  <1>3. Held(d)' = Held(d) /\ UNCHANGED <<sightings, history>>
    BY DEF ListTargets, Still, Held
  <1>4. Targets(d)' = Targets(d) /\ Yields(d)' = Yields(d)
    BY <1>3, DayRests
  <1>5. \A s \in Runs \ {r} : ~(Weighs(aggregator[s]) /\ aggregator[s].day = d)
    BY <1>1 DEF Aggregators, Weighs
  <1>6. CASE Targets(d) = {}
    <2>1. AggregatorSet(r, Off)
      BY <1>1, <1>6 DEF ListTargets, AggregatorSet
    <2>2. aggregator'[r] = Off /\ \A s \in Runs \ {r} : aggregator'[s] = aggregator[s]
      BY <1>2, <2>1, RunSet
    <2>3. Weighers(d)' = {}
      BY <1>5, <2>2, OffIsTyped DEF Weighers, Weighs
    <2>4. Yields(d)' = {}
      BY <1>4, <1>6 DEF Yields
    <2>5. QED
      BY <1>1, <2>3, <2>4 DEF DayHolds, RowIsLast
  <1>7. CASE Targets(d) # {}
    <2>1. PICK todo \in SUBSET (Nat \ {0}) : todo = Targets(d)
      BY <1>2, TargetsTyped
    <2>2. aggregator' = [aggregator EXCEPT ![r].pc = "window", ![r].todo = todo]
      BY <1>1, <1>7, <2>1 DEF ListTargets
    <2>3. PICK k : /\ AggregatorSet(r, k) /\ AggregatorRecord(k) /\ k.computed = aggregator[r].computed
                   /\ k.pc = "window" /\ k.day = aggregator[r].day /\ k.todo = todo
      <3>1. \E k : /\ AggregatorSet(r, k) /\ AggregatorRecord(k) /\ k.computed = aggregator[r].computed
                   /\ k.pc = "window" /\ k.day = aggregator[r].day /\ k.todo = todo
        BY <1>2, <2>2, RunLists
      <3>2. QED
        BY <3>1
    <2>4. aggregator'[r] = k /\ \A s \in Runs \ {r} : aggregator'[s] = aggregator[s]
      BY <1>2, <2>3, RunSet
    <2>5. Weighers(d)' = {r}
      BY <1>1, <2>1, <1>5, <2>3, <2>4 DEF Weighers, Weighs
    <2>6. Weighed(d)' = {}
      BY <1>1, <2>1, <1>4, <2>3, <2>4, <2>5 DEF Weighed
    <2>7. InTurn(d, aggregator[r])'
      BY <1>1, <2>1, <1>4, <1>7, <2>3, <2>4 DEF InTurn
    <2>8. QED
      BY <1>1, <2>5, <2>6, <2>7 DEF DayHolds, RowIsLast
  <1>8. QED
    BY <1>6, <1>7

LEMMA DaysKept ==
  ASSUME DailyTyped, DaysHold, DailyNext
  PROVE  DaysHold'
  <1>1. SUFFICES ASSUME NEW d \in Calendar, d \notin doubtful' PROVE DayHolds(d)'
    BY DEF DaysHold
  <1>2. AggregatorsTyped /\ SightingsTyped /\ d \notin doubtful => DayHolds(d)
    BY DEF DailyTyped, DaysHold
  <1>3. AggregatorsTyped /\ SightingsTyped /\ \A r \in Runs : aggregator[r].day \in Calendar
    BY DEF DailyTyped, AggregatorsTyped, AggregatorRecord
  <1>4. CASE d \notin doubtful /\ UNCHANGED <<sightings, history, aggregator>>
    <2>1. Held(d)' = Held(d)
      BY <1>4 DEF Held
    <2>2. QED
      BY <1>2, <1>3, <1>4, <2>1, DayStays
  <1>5. CASE \/ \E who \in Reporting, at \in 1 .. moment : Observe(who, at)
             \/ \E o \in sightings : ConfirmSighting(o) \/ PruneSighting(o)
    <2>1. Held(d)' = Held(d)
      BY <1>1, <1>5, DayIsNotTold
    <2>2. d \notin doubtful /\ UNCHANGED <<history, aggregator>>
      BY <1>1, <1>5 DEF Observe, ConfirmSighting, PruneSighting, Aggregating
    <2>3. QED
      BY <1>2, <1>3, <2>1, <2>2, DayStays
  \* A run of another day, or one that has not come to weigh.
  <1>6. ASSUME d \notin doubtful, UNCHANGED sightings, \A e \in 1 .. d : history'[e] = history[e],
               NEW r \in Runs, NEW k, AggregatorSet(r, k),
               ~(Weighs(aggregator[r]) /\ aggregator[r].day = d), ~(Weighs(k) /\ k.day = d)
        PROVE  DayHolds(d)'
    <2>1. aggregator'[r] = k /\ \A s \in Runs \ {r} : aggregator'[s] = aggregator[s]
      BY <1>3, <1>6, RunSet
    <2>2. Held(d)' = Held(d)
      BY <1>6 DEF Held
    <2>3. QED
      BY <1>2, <1>3, <1>6, <2>1, <2>2, DayStays
  <1>7. ASSUME UNCHANGED history PROVE \A e \in 1 .. d : history'[e] = history[e]
    BY <1>7
  <1>8. ~Weighs(Off)
    BY OffIsTyped DEF Weighs
  <1>9. ASSUME NEW r \in Runs, NEW e \in Calendar, StartRun(r, e), UNCHANGED <<sightings, history, doubtful>>
        PROVE  DayHolds(d)'
    <2>1. aggregator[r].pc = "off"
      BY <1>9, RunStarts
    <2>2. PICK k : AggregatorSet(r, k) /\ k.pc = "list"
      BY <1>9, RunStarts
    <2>3. ~Weighs(aggregator[r]) /\ ~Weighs(k)
      BY <2>1, <2>2 DEF Weighs
    <2>4. QED
      BY <1>1, <1>6, <1>9, <2>2, <2>3
  \* A run that goes on, on another day.
  <1>10. ASSUME NEW r \in Runs, aggregator[r].day # d, d \notin doubtful, UNCHANGED sightings,
                \A e \in 1 .. d : history'[e] = history[e],
                \/ AggregatorSet(r, Off)
                \/ \E k : AggregatorSet(r, k) /\ k.day = aggregator[r].day
         PROVE  DayHolds(d)'
    <2>1. PICK k : AggregatorSet(r, k) /\ (k = Off \/ k.day = aggregator[r].day)
      BY <1>10
    <2>2. ~(Weighs(k) /\ k.day = d)
      BY <1>8, <1>10, <2>1
    <2>3. QED
      BY <1>6, <1>10, <2>1, <2>2
  <1>11. ASSUME NEW r \in Runs, NextTarget(r)
         PROVE  AggregatorSet(r, Off) \/ \E k : AggregatorSet(r, k) /\ k.day = aggregator[r].day
    BY <1>3, <1>11, TargetDone
  <1>12. CASE TakeTick
    <2>1. UtcDay(moment) - 1 \in Calendar
      BY <1>12, DayIsKnown, Lengths DEF DailyTyped, TakeTick, Calendar
    <2>2. QED
      BY <1>9, <1>12, <2>1 DEF TakeTick, Still, Runs
  <1>13. CASE \E e \in Calendar : Reaggregate(e)
    BY <1>9, <1>13 DEF Reaggregate, Still, Runs
  <1>14. ASSUME NEW r \in Runs, ListTargets(r) PROVE DayHolds(d)'
    <2>1. CASE aggregator[r].day = d
      <3>1. Aggregators(d) = {r}
        BY <1>1, <1>14, <2>1 DEF ListTargets
      <3>2. QED
        BY <1>14, <2>1, <3>1, ListedAlone
    <2>2. CASE aggregator[r].day # d
      <3>1. d \notin doubtful /\ UNCHANGED <<sightings, history>>
        BY <1>1, <1>14, <2>2 DEF ListTargets, Still
      <3>2. PICK todo \in SUBSET (Nat \ {0}) : todo = Targets(aggregator[r].day)
        BY <1>3, TargetsTyped
      <3>3. AggregatorSet(r, Off)
            \/ aggregator' = [aggregator EXCEPT ![r].pc = "window", ![r].todo = todo]
        BY <1>14, <3>2 DEF ListTargets, AggregatorSet
      <3>4. AggregatorSet(r, Off) \/ \E k : AggregatorSet(r, k) /\ k.day = aggregator[r].day
        BY <1>3, <3>3, RunLists
      <3>5. QED
        BY <1>7, <1>10, <2>2, <3>1, <3>4
    <2>3. QED
      BY <2>1, <2>2
  <1>15. ASSUME NEW r \in Runs, ReadDay(r) PROVE DayHolds(d)'
    <2>1. /\ d \notin doubtful /\ UNCHANGED <<sightings, history>> /\ aggregator[r].pc = "window"
          /\ DayHolds(d)
      BY <1>1, <1>2, <1>3, <1>15 DEF ReadDay, Still
    <2>2. PICK n : n = Computed(aggregator[r].day, Currency(r), DayEnd(aggregator[r].day))
      OBVIOUS
    <2>3. \/ n.count = 0 /\ NextTarget(r)
          \/ /\ n.count # 0
             /\ aggregator' = [aggregator EXCEPT ![r].pc = "previous", ![r].computed = n]
      BY <1>15, <2>2 DEF ReadDay, AsOf
    <2>4. n.count \in Nat
      BY <1>3, <2>2, ComputedCounts
    <2>5. CASE n.count = 0 /\ NextTarget(r)
      <3>1. CASE aggregator[r].day = d
        <4>1. Currency(r) \notin Yields(d)
          BY <2>2, <2>5, <3>1 DEF Yields
        <4>2. Weighs(aggregator[r])
          BY <2>1 DEF Weighs
        <4>3. QED
          BY <2>1, <2>5, <3>1, <4>1, <4>2, NextCurrency
      <3>2. CASE aggregator[r].day # d
        BY <1>7, <1>10, <1>11, <2>1, <2>5, <3>2
      <3>3. QED
        BY <3>1, <3>2
    <2>6. CASE n.count # 0 /\ aggregator' = [aggregator EXCEPT ![r].pc = "previous", ![r].computed = n]
      <3>0. aggregator' = [aggregator EXCEPT ![r].pc = "previous", ![r].computed = n]
        BY <2>6
      <3>1. PICK k : /\ AggregatorSet(r, k) /\ AggregatorRecord(k) /\ k.computed = n
                     /\ k.pc = "previous" /\ k.day = aggregator[r].day
                     /\ k.todo = aggregator[r].todo
        <4>1. \E k : /\ AggregatorSet(r, k) /\ AggregatorRecord(k) /\ k.computed = n
                     /\ k.pc = "previous" /\ k.day = aggregator[r].day
                     /\ k.todo = aggregator[r].todo
          BY <1>3, <3>0, DayRead, ZenonT(60)
        <4>2. QED
          BY <4>1
      <3>2. CASE aggregator[r].day = d
        <4>1. Weighs(aggregator[r]) /\ Weighs(k)
          BY <2>1, <3>1 DEF Weighs
        <4>2. InTurn(d, aggregator[r])
          BY <2>1, <3>2, <4>1, OneWeigher
        <4>3. InTurn(d, k)
          BY <2>2, <2>4, <2>6, <3>1, <3>2, <4>2 DEF InTurn, Currency
        <4>4. QED
          BY <1>3, <2>1, <3>1, <3>2, <4>1, <4>3, SameCurrency
      <3>3. CASE aggregator[r].day # d
        BY <1>7, <1>10, <2>1, <3>1, <3>3
      <3>4. QED
        BY <3>2, <3>3
    <2>7. QED
      BY <2>3, <2>5, <2>6
  <1>16. ASSUME NEW r \in Runs, FindPreviousDay(r) PROVE DayHolds(d)'
    <2>1. /\ d \notin doubtful /\ UNCHANGED <<sightings, history>> /\ aggregator[r].pc = "previous"
          /\ DayHolds(d)
      BY <1>1, <1>2, <1>3, <1>16 DEF FindPreviousDay, Still
    <2>2. PICK k : /\ AggregatorSet(r, k) /\ k.computed = aggregator[r].computed
                   /\ k.pc = "upsert" /\ k.day = aggregator[r].day /\ k.todo = aggregator[r].todo
                   /\ k.previous = PreviousRow(aggregator[r].day)
      BY <1>3, <1>16, PreviousFound
    <2>3. CASE aggregator[r].day = d
      <3>1. Weighs(aggregator[r]) /\ Weighs(k)
        BY <2>1, <2>2 DEF Weighs
      <3>2. InTurn(d, aggregator[r])
        BY <2>1, <2>3, <3>1, OneWeigher
      <3>3. InTurn(d, k)
        BY <2>1, <2>2, <2>3, <3>2 DEF InTurn
      <3>4. QED
        BY <1>3, <2>1, <2>2, <2>3, <3>1, <3>3, SameCurrency
    <2>4. CASE aggregator[r].day # d
      BY <1>7, <1>10, <2>1, <2>2, <2>4
    <2>5. QED
      BY <2>3, <2>4
  <1>17. ASSUME NEW r \in Runs, UpsertDay(r) PROVE DayHolds(d)'
    <2>1. PICK e \in Calendar : e = aggregator[r].day
      BY <1>3
    <2>2. PICK n : n = Row(aggregator[r].computed, Currency(r), aggregator[r].previous)
      OBVIOUS
    <2>3. /\ d \notin doubtful /\ d \notin e + 1 .. LastDay /\ UNCHANGED sightings
          /\ aggregator[r].pc = "upsert" /\ NextTarget(r) /\ DayHolds(d)
          /\ history' = [history EXCEPT ![e] = n]
      BY <1>1, <1>2, <1>3, <1>17, <2>1, <2>2 DEF UpsertDay, Still
    <2>4. d <= e /\ d \in Nat /\ e \in Nat
      BY <2>1, <2>3, Lengths DEF Calendar
    <2>5. history'[e] = n /\ \A f \in Calendar \ {e} : history'[f] = history[f]
      BY <2>1, <2>3 DEF DailyTyped
    <2>6. CASE e = d
      <3>1. \A f \in 1 .. d - 1 : history'[f] = history[f]
        BY <2>4, <2>5, <2>6, Lengths DEF Calendar
      <3>2. Weighs(aggregator[r])
        BY <2>3 DEF Weighs
      <3>3. InTurn(d, aggregator[r])
        BY <2>1, <2>3, <2>6, <3>2, OneWeigher
      <3>4. /\ aggregator[r].computed = Computed(d, Currency(r), DayEnd(d))
            /\ aggregator[r].computed.count > 0 /\ aggregator[r].previous = PreviousRow(d)
        BY <2>3, <3>3 DEF InTurn, Currency
      <3>5. n = YieldedRow(d, Currency(r))
        BY <2>2, <3>4 DEF YieldedRow
      <3>6. Currency(r) \in Targets(d)
        <4>1. aggregator[r].todo \in SUBSET (Nat \ {0}) /\ aggregator[r].todo # {}
              /\ aggregator[r].todo \subseteq Targets(d)
          BY <3>3 DEF InTurn, DailyTyped, AggregatorsTyped, AggregatorRecord
        <4>2. QED
          BY <4>1, LeastOf DEF Currency
      <3>7. Currency(r) \in Yields(d)
        BY <3>4, <3>6 DEF Yields
      <3>8. QED
        BY <2>1, <2>3, <2>5, <2>6, <3>1, <3>2, <3>5, <3>7, NextCurrency
    <2>7. CASE e # d
      <3>1. \A f \in 1 .. d : history'[f] = history[f]
        BY <2>4, <2>5, <2>7, Lengths DEF Calendar
      <3>2. QED
        BY <1>10, <1>11, <2>1, <2>3, <2>7, <3>1
    <2>8. QED
      BY <2>6, <2>7
  <1>18. ASSUME NEW r \in Runs, AggregatorDies(r) PROVE DayHolds(d)'
    <2>1. /\ d \notin doubtful /\ aggregator[r].day # d /\ UNCHANGED <<sightings, history>>
          /\ AggregatorSet(r, Off)
      BY <1>1, <1>18 DEF AggregatorDies, Still, AggregatorSet
    <2>2. QED
      BY <1>7, <1>10, <2>1
  <1>19. CASE NextMoment \/ AddTick
    BY <1>1, <1>4, <1>19 DEF NextMoment, AddTick, Still
  <1>20. QED
    BY <1>5, <1>12, <1>13, <1>14, <1>15, <1>16, <1>17, <1>18, <1>19 DEF DailyNext, AggregatorStep

LEMMA DaysTrue == DailyTyped /\ DaysHold => DayIsTrue
  <1>1. SUFFICES ASSUME DailyTyped, DaysHold, NEW d \in Calendar \ doubtful, Aggregators(d) = {},
                        Yields(d) # {}
                 PROVE  history[d] = YieldedRow(d, Max(Yields(d)))
    BY DEF DayIsTrue, Yields, YieldedRow
  <1>2. Weighers(d) = {}
    BY <1>1 DEF Aggregators, Weighers, Weighs
  <1>3. Weighed(d) = Targets(d) /\ Yields(d) \subseteq Targets(d)
    BY <1>2 DEF Weighed, Yields
  <1>4. Targets(d) \in SUBSET (Nat \ {0}) /\ IsFiniteSet(Targets(d))
    BY <1>1, TargetsTyped DEF DailyTyped
  <1>5. Yields(d) \in SUBSET (Nat \ {0}) /\ IsFiniteSet(Yields(d))
    BY <1>3, <1>4, FS_Subset
  <1>6. Max(Yields(d)) \in Yields(d) /\ \A t \in Yields(d) : t <= Max(Yields(d))
    BY <1>1, <1>5, GreatestOf
  <1>7. RowIsLast(d)
    BY <1>1 DEF DaysHold, DayHolds
  <1>8. QED
    BY <1>3, <1>6, <1>7 DEF RowIsLast

LEMMA DaysInvariant ==
  ASSUME DailyTyped, DaysHold, [DailyNext]_dailyVars
  PROVE  DaysHold'
  <1>1. CASE UNCHANGED dailyVars
    <2>1. \A d \in Calendar : Held(d)' = Held(d)
      BY <1>1 DEF dailyVars, Held
    <2>2. UNCHANGED <<history, aggregator, doubtful>>
      BY <1>1 DEF dailyVars
    <2>3. ASSUME NEW d \in Calendar \ doubtful PROVE DayHolds(d)'
      BY <2>1, <2>2, DayStays DEF DaysHold
    <2>4. QED
      BY <2>2, <2>3 DEF DaysHold
  <1>2. QED
    BY <1>1, DaysKept

\* Late observations, confirmations, expiry, deaths, repeats and overlaps of
\* runs notwithstanding, a day whose run is over holds what it yields now, as
\* of its own end, unless something happened to it since it was listed.
THEOREM DaysAreTrue == DailySpec => []DayIsTrue
  <1>1. DailyInit => DailyTyped /\ DaysHold
    BY DailyStartsTyped DEF DailyInit, DaysHold
  <1>2. DailyTyped /\ DaysHold /\ [DailyNext]_dailyVars => (DailyTyped /\ DaysHold)'
    BY DailyKeepsTypes, DaysInvariant
  <1>3. QED
    BY <1>1, <1>2, DaysTrue, PTL DEF DailySpec

-----------------------------------------------------------------------------
(***************************************************************************)
(* Quiet hours.  A moment is so many hours since the beginning and a       *)
(* remainder; an hour is so many days and an hour of the day.              *)
(***************************************************************************)
\* A quotient and a remainder are the only ones.
LEMMA OnlyQuotient ==
  ASSUME NEW n \in Nat \ {0}, NEW q \in Int, NEW r \in 0 .. n - 1, NEW t \in Int, t = n * q + r
  PROVE  t \div n = q /\ (t % n) = r
  <1>1. PICK d \in Int, m \in 0 .. n - 1 : d = t \div n /\ m = (t % n) /\ t = n * d + m
    BY Division
  <1>2. q <= d
    BY <1>1, Quotient
  <1>3. ~(q < d)
    <2>1. SUFFICES ASSUME q < d PROVE FALSE
      OBVIOUS
    <2>2. n * q + n <= n * d /\ n * q \in Int /\ n * d \in Int
      BY <2>1, Grows
    <2>3. QED
      BY <1>1, <2>2
  <1>4. q = d /\ n * q \in Int
    BY <1>2, <1>3
  <1>5. QED
    BY <1>1, <1>4

\* The hour of the day, told from the hours since the beginning.
LEMMA HourOfDay ==
  ASSUME NEW at \in Int, NEW k \in Int, NEW h \in 0 .. DayHours - 1, at \div Quarters = DayHours * k + h
  PROVE  Hour(at) = h
  <1>1. DayHours \in Nat \ {0} /\ at \div Quarters \in Int
    BY RulesAssumption, Division
  <1>2. ((at \div Quarters) % DayHours) = h
    BY <1>1, OnlyQuotient, ZenonT(60)
  <1>3. QED
    BY <1>2 DEF Hour

LEMMA HourOnTheDot ==
  ASSUME NEW k \in Int, NEW h \in 0 .. DayHours - 1, NEW at \in Int,
         at = Quarters * (DayHours * k + h)
  PROVE  Hour(at) = h
  <1>1. Quarters \in Nat \ {0} /\ DayHours * k + h \in Int
    BY RulesAssumption
  <1>2. at \div Quarters = DayHours * k + h
    <2>1. PICK q \in Int : q = DayHours * k + h
      BY <1>1
    <2>2. 0 \in 0 .. Quarters - 1 /\ at = Quarters * q + 0
      BY <1>1, <2>1
    <2>3. QED
      BY <1>1, <2>1, <2>2, OnlyQuotient
  <1>3. QED
    BY <1>2, HourOfDay

\* A moment, taken apart: its day, the hour of it, and the rest.
LEMMA MomentParts ==
  ASSUME NEW now \in Nat
  PROVE  \E k \in Nat, h \in 0 .. DayHours - 1, r \in 0 .. Quarters - 1 :
            /\ now \div Quarters = DayHours * k + h
            /\ now = Quarters * (DayHours * k + h) + r
            /\ Midnight(now) = Quarters * (DayHours * k)
            /\ Hour(now) = h
  <1>1. Quarters \in Nat \ {0} /\ DayHours \in Nat \ {0}
    BY RulesAssumption
  <1>2. PICK q \in Int, r \in 0 .. Quarters - 1 : q = now \div Quarters /\ now = Quarters * q + r
    BY <1>1, Division
  <1>3. q \in Nat
    <2>1. Quarters * 0 <= now
      BY <1>1
    <2>2. 0 <= q
      BY <1>1, <1>2, <2>1, Quotient
    <2>3. QED
      BY <2>2
  <1>4. PICK k \in Int, h \in 0 .. DayHours - 1 : k = q \div DayHours /\ q = DayHours * k + h
    BY <1>1, <1>3, Division
  <1>5. k \in Nat
    <2>1. DayHours * 0 <= q
      BY <1>1, <1>3
    <2>2. 0 <= k
      BY <1>1, <1>3, <1>4, <2>1, Quotient
    <2>3. QED
      BY <2>2
  <1>6. Midnight(now) = Quarters * (DayHours * k)
    <2>1. PICK day \in Nat \ {0} : day = Quarters * DayHours
      BY <1>1
    <2>2. Quarters * h + Quarters <= day
      BY <1>1, <2>1, Grows
    <2>3. PICK rest \in 0 .. day - 1 : rest = Quarters * h + r
      BY <1>1, <2>2
    <2>4. Quarters * (DayHours * k) = day * k /\ day * k \in Int
      BY <1>1, <2>1
    <2>5. Quarters * (DayHours * k + h) = Quarters * (DayHours * k) + Quarters * h
      BY <1>1
    <2>6. now = day * k + rest
      <3>1. now = Quarters * (DayHours * k + h) + r
        BY <1>2, <1>4
      <3>2. Quarters * h \in Int
        BY <1>1
      <3>3. QED
        BY <2>3, <2>4, <2>5, <3>1, <3>2
    <2>7. (now % day) = rest
      BY <2>6, OnlyQuotient
    <2>8. QED
      BY <2>1, <2>3, <2>4, <2>6, <2>7 DEF Midnight
  <1>7. Hour(now) = h
    BY <1>2, <1>4, HourOfDay
  <1>8. QED
    BY <1>2, <1>4, <1>5, <1>6, <1>7

\* Whatever the quiet hours, and whenever a message is raised, on any day: it
\* goes out at the first moment outside them, less than a day later.
THEOREM MessagesWaitForTheQuiet ==
  ASSUME NEW quiet \in [start : Hours, end : Hours], NEW now \in Nat
  PROVE  DueWhenAwake(quiet, now)
  <1>1. Quarters \in Nat \ {0} /\ DayHours \in Nat \ {0} /\ Absent \notin Int
    BY RulesAssumption
  <1>2. PICK day \in Nat \ {0} : day = Quarters * DayHours
    BY <1>1
  <1>3. CASE ~IsQuietHour(quiet, now)
    BY <1>2, <1>3 DEF DueWhenAwake, DeliveryTime
  <1>4. CASE IsQuietHour(quiet, now)
    <2>1. PICK s \in 0 .. DayHours - 1, e \in 0 .. DayHours - 1 : s = quiet.start /\ e = quiet.end
      BY <1>4 DEF IsQuietHour, Hours
    <2>2. PICK k \in Nat, h \in 0 .. DayHours - 1, r \in 0 .. Quarters - 1 :
            /\ now \div Quarters = DayHours * k + h
            /\ now = Quarters * (DayHours * k + h) + r
            /\ Midnight(now) = Quarters * (DayHours * k)
            /\ Hour(now) = h
      BY MomentParts
    <2>3. \A t : IsQuietHour(quiet, t) <=>
                   IF s < e THEN s <= Hour(t) /\ Hour(t) < e ELSE s <= Hour(t) \/ Hour(t) < e
      BY <1>1, <1>4, <2>1 DEF IsQuietHour
    <2>4. s # e
      BY <1>4, <2>1 DEF IsQuietHour
    <2>5. PICK base \in Nat : base = DayHours * k
      BY <1>1
    <2>6. PICK due : due = DeliveryTime(quiet, now)
      OBVIOUS
    \* What is due at the end hour of a day after now and less than a day away.
    <2>7. ASSUME NEW d \in Int, NEW hours \in Int, hours = DayHours * d + e, due = Quarters * hours,
                 base + h < hours, hours < base + h + DayHours,
                 \A m \in base + h .. hours - 1 :
                    \E i \in Int, j \in 0 .. DayHours - 1 :
                        /\ m = DayHours * i + j
                        /\ IF s < e THEN s <= j /\ j < e ELSE s <= j \/ j < e
          PROVE  DueWhenAwake(quiet, now)
      <3>1. due \in Int /\ now < due
        <4>1. Quarters * (base + h) + Quarters <= Quarters * hours
          BY <1>1, <2>7, Grows
        <4>2. Quarters * (base + h) \in Int /\ Quarters * hours \in Int
          BY <1>1
        <4>3. QED
          BY <1>1, <2>2, <2>5, <2>7, <4>1, <4>2
      <3>2. due <= now + day - 1
        <4>1. Quarters * hours + Quarters <= Quarters * (base + h + DayHours)
          BY <1>1, <2>7, Grows
        <4>2. Quarters * (base + h + DayHours) = Quarters * (base + h) + day
          BY <1>1, <1>2
        <4>3. Quarters * (base + h) \in Int /\ Quarters * hours \in Int
          BY <1>1
        <4>4. QED
          BY <1>1, <1>2, <2>2, <2>5, <2>7, <4>1, <4>2, <4>3
      <3>3. Hour(due) = e
        BY <2>7, <3>1, HourOnTheDot
      <3>4. ~IsQuietHour(quiet, due)
        BY <2>3, <2>4, <3>3
      <3>5. ASSUME NEW earlier \in now .. due - 1 PROVE IsQuietHour(quiet, earlier)
        <4>1. PICK m \in Int : m = earlier \div Quarters
          BY <1>1, <3>1, Division
        <4>2. Quarters * (base + h) <= earlier /\ ~(Quarters * hours <= earlier)
          BY <1>1, <2>2, <2>5, <2>7, <3>1, <3>5
        <4>3. base + h <= m /\ ~(hours <= m)
          BY <1>1, <3>1, <4>1, <4>2, Quotient
        <4>4. m \in base + h .. hours - 1
          BY <4>3
        <4>5. PICK i \in Int, j \in 0 .. DayHours - 1 :
                /\ m = DayHours * i + j
                /\ IF s < e THEN s <= j /\ j < e ELSE s <= j \/ j < e
          BY <2>7, <4>4
        <4>6. Hour(earlier) = j
          BY <3>1, <4>1, <4>5, HourOfDay
        <4>7. QED
          BY <2>3, <4>5, <4>6
      <3>6. due \in now .. now + Quarters * DayHours - 1
        BY <1>2, <3>1, <3>2
      <3>7. QED
        BY <2>6, <3>4, <3>5, <3>6 DEF DueWhenAwake
    <2>8. PICK end \in Int : end = Midnight(now) + quiet.end * Quarters /\ end = Quarters * (base + e)
      <3>1. Quarters * (base + e) = Quarters * base + e * Quarters /\ Quarters * (base + e) \in Int
        BY <1>1
      <3>2. QED
        BY <2>1, <2>2, <2>5, <3>1
    <2>9. end <= now <=> e <= h
      <3>1. end <= now <=> base + e <= now \div Quarters
        BY <1>1, <2>8, Quotient
      <3>2. QED
        BY <2>2, <2>5, <3>1
    <2>10. due = IF end <= now THEN end + day ELSE end
      BY <1>2, <1>4, <2>6, <2>8 DEF DeliveryTime
    <2>11. CASE e <= h
      <3>1. e < s /\ s <= h
        BY <1>4, <2>2, <2>3, <2>4, <2>11
      <3>2. PICK next \in Int : next = DayHours * (k + 1) /\ next = base + DayHours
        BY <1>1, <2>5
      <3>3. due = Quarters * (next + e)
        <4>1. Quarters * (base + e + DayHours) = Quarters * (base + e) + day
          BY <1>1, <1>2
        <4>2. next + e = base + e + DayHours /\ due = end + day
          BY <1>1, <2>9, <2>10, <2>11, <3>2
        <4>3. QED
          BY <2>8, <4>1, <4>2
      <3>4. ASSUME NEW m \in base + h .. next + e - 1
            PROVE  \E i \in Int, j \in 0 .. DayHours - 1 :
                        /\ m = DayHours * i + j
                        /\ IF s < e THEN s <= j /\ j < e ELSE s <= j \/ j < e
        <4>1. CASE m < next
          <5>1. m \in Int /\ base + h <= m /\ m < base + DayHours
            BY <1>1, <3>2, <3>4, <4>1
          <5>2. m = base + (m - base) /\ h <= m - base /\ m - base < DayHours /\ m - base \in Int
            BY <1>1, <5>1
          <5>3. s <= m - base
            BY <3>1, <5>2
          <5>4. m - base \in 0 .. DayHours - 1
            BY <1>1, <5>2
          <5>5. QED
            BY <2>5, <3>1, <5>2, <5>3, <5>4
        <4>2. CASE ~(m < next)
          <5>1. m - next \in 0 .. e - 1 /\ m = DayHours * (k + 1) + (m - next)
            BY <3>2, <4>2
          <5>2. m - next \in Int /\ 0 <= m - next /\ m - next < e /\ k + 1 \in Int
            BY <5>1
          <5>3. e \in Int /\ e < DayHours
            BY <1>1
          <5>4. m - next \in 0 .. DayHours - 1
            BY <1>1, <5>2, <5>3
          <5>5. QED
            BY <3>1, <5>1, <5>2, <5>4
        <4>3. QED
          BY <4>1, <4>2
      <3>5. /\ k + 1 \in Int /\ next + e \in Int /\ next + e = DayHours * (k + 1) + e
            /\ base + h < next + e /\ next + e < base + h + DayHours
        BY <1>1, <3>1, <3>2
      <3>6. QED
        BY <2>7, <3>3, <3>4, <3>5
    <2>12. CASE h < e
      <3>1. due = Quarters * (base + e)
        BY <2>8, <2>9, <2>10, <2>12
      <3>2. ASSUME NEW m \in base + h .. base + e - 1
            PROVE  \E i \in Int, j \in 0 .. DayHours - 1 :
                        /\ m = DayHours * i + j
                        /\ IF s < e THEN s <= j /\ j < e ELSE s <= j \/ j < e
        <4>1. m = base + (m - base) /\ h <= m - base /\ m - base < e /\ m - base \in Int
          BY <3>2
        <4>2. s < e => s <= h
          BY <1>4, <2>2, <2>3
        <4>3. s < e => s <= m - base
          BY <4>1, <4>2
        <4>4. m - base \in 0 .. DayHours - 1
          BY <1>1, <4>1
        <4>5. QED
          BY <2>5, <4>1, <4>3, <4>4
      <3>3. /\ k \in Int /\ base + e \in Int /\ base + e = DayHours * k + e
            /\ base + h < base + e /\ base + e < base + h + DayHours
        BY <1>1, <2>5, <2>12
      <3>4. QED
        BY <2>7, <3>1, <3>2, <3>3
    <2>13. QED
      BY <2>11, <2>12
  <1>5. QED
    BY <1>3, <1>4

\* As it is checked: no step changes the quiet hours that are looked at.
THEOREM HeldUntilQuiet == Spec => []HeldUntilQuietEnds
  <1>1. Init => evening \in Evenings
    BY RulesAssumption DEF Init, Evenings, NoEvening, Hours
  <1>2. evening \in Evenings /\ [Next]_vars => (evening \in Evenings)'
    BY DEF Next, vars
  <1>3. evening \in Evenings => HeldUntilQuietEnds
    <2>1. SUFFICES ASSUME evening \in Evenings PROVE DueWhenAwake(evening, evening.now)
      BY DEF HeldUntilQuietEnds
    <2>2. PICK quiet : quiet = [start |-> evening.start, end |-> evening.end]
      OBVIOUS
    <2>3. evening.now \in Nat /\ quiet \in [start : Hours, end : Hours]
          /\ quiet.start = evening.start /\ quiet.end = evening.end
      BY <2>1, <2>2 DEF Evenings
    <2>4. DueWhenAwake(quiet, evening.now)
      BY <2>3, MessagesWaitForTheQuiet
    <2>5. QED
      BY <2>3, <2>4 DEF DueWhenAwake, DeliveryTime, IsQuietHour
  <1>4. QED
    BY <1>1, <1>2, <1>3, PTL DEF Spec

-----------------------------------------------------------------------------
(***************************************************************************)
(* PlanSearch: the order in which things are compared.                     *)
(***************************************************************************)
Keys == Seq(Int)

\* A key is told by the integers at its places, and its places have no gap.
LEMMA KeyParts ==
  ASSUME NEW t \in Keys
  PROVE  /\ Len(t) \in Nat /\ DOMAIN t = 1 .. Len(t) /\ DOMAIN t \in SUBSET Nat
         /\ \A i \in DOMAIN t : t[i] \in Int /\ \A j \in 1 .. i - 1 : j \in DOMAIN t
  <1>1. t \in Seq(Int)
    BY Zenon DEF Keys
  <1>2. PICK n \in Nat : n = Len(t) /\ t \in [1 .. n -> Int]
    BY <1>1, LenProperties, Zenon
  <1>3. DOMAIN t = 1 .. n /\ \A i \in 1 .. n : t[i] \in Int
    BY <1>2, Zenon
  <1>4. \A i \in 1 .. n : i \in Nat /\ \A j \in 1 .. i - 1 : j \in 1 .. n
    BY <1>2
  <1>5. QED
    BY <1>2, <1>3, <1>4, Zenon

\* The places before a place are the smaller ones, and the key has them too.
LEMMA KeyPlace ==
  ASSUME NEW u \in Keys, NEW v \in Keys, NEW i \in DOMAIN u, NEW k \in DOMAIN v, i < k
  PROVE  i \in 1 .. k - 1 /\ i \in DOMAIN v
  <1>1. PICK n \in Nat, m \in Nat : DOMAIN u = 1 .. n /\ DOMAIN v = 1 .. m
    BY KeyParts, Zenon
  <1>2. QED
    BY <1>1

\* What follows a key leaves it where it is.
LEMMA KeyKept ==
  ASSUME NEW t \in Keys, NEW s \in Keys
  PROVE  t \o s \in Keys /\ \A i \in DOMAIN t : i \in DOMAIN (t \o s) /\ (t \o s)[i] = t[i]
  <1>1. /\ t \o s \in Keys /\ Len(t \o s) = Len(t) + Len(s)
        /\ \A i \in 1 .. Len(t) + Len(s) : (t \o s)[i] = IF i <= Len(t) THEN t[i] ELSE s[i - Len(t)]
    <2>1. t \in Seq(Int) /\ s \in Seq(Int) /\ Keys = Seq(Int)
      BY Zenon DEF Keys
    <2>2. QED
      BY <2>1, ConcatProperties, Zenon
  <1>2. PICK n \in Nat, m \in Nat : n = Len(t) /\ m = Len(s)
    BY KeyParts, Zenon
  <1>3. DOMAIN t = 1 .. n /\ DOMAIN (t \o s) = 1 .. n + m
    BY <1>1, <1>2, KeyParts, Zenon
  <1>4. \A i \in 1 .. n : i \in 1 .. n + m /\ i <= n
    BY <1>2
  <1>5. \A i \in 1 .. n : (t \o s)[i] = t[i]
    BY <1>1, <1>2, <1>4, Zenon
  <1>6. QED
    BY <1>1, <1>3, <1>4, <1>5, Zenon

LEMMA BeforeOrders ==
  ASSUME NEW u \in Keys, NEW v \in Keys, NEW w \in Keys
  PROVE  ~Before(u, u) /\ (Before(u, v) /\ Before(v, w) => Before(u, w))
  <1>1. \A t \in Keys : DOMAIN t \in SUBSET Nat /\ (\A i \in DOMAIN t : t[i] \in Int /\ \A j \in 1 .. i - 1 : j \in DOMAIN t)
    BY KeyParts, Zenon
  <1>2. ~Before(u, u)
    BY <1>1 DEF Before
  <1>3. SUFFICES ASSUME Before(u, v), Before(v, w) PROVE Before(u, w)
    BY <1>2
  <1>4. PICK i \in DOMAIN u \cap DOMAIN v : (\A j \in 1 .. i - 1 : u[j] = v[j]) /\ u[i] < v[i]
    BY <1>3 DEF Before
  <1>5. PICK k \in DOMAIN v \cap DOMAIN w : (\A j \in 1 .. k - 1 : v[j] = w[j]) /\ v[k] < w[k]
    BY <1>3 DEF Before
  <1>6. CASE i < k
    <2>1. i \in 1 .. k - 1 /\ i \in DOMAIN w
      BY <1>4, <1>5, <1>6, KeyPlace, Zenon
    <2>2. v[i] = w[i]
      BY <1>5, <2>1
    <2>3. ASSUME NEW j \in 1 .. i - 1 PROVE u[j] = w[j]
      <3>1. j \in 1 .. k - 1
        BY <1>1, <1>6
      <3>2. QED
        BY <1>4, <1>5, <3>1
    <2>4. QED
      BY <1>4, <2>1, <2>2, <2>3 DEF Before
  <1>7. CASE k < i
    <2>1. k \in 1 .. i - 1 /\ k \in DOMAIN u
      BY <1>4, <1>5, <1>7, KeyPlace, Zenon
    <2>2. u[k] = v[k]
      BY <1>4, <2>1
    <2>3. ASSUME NEW j \in 1 .. k - 1 PROVE u[j] = w[j]
      <3>1. j \in 1 .. i - 1
        BY <1>1, <1>7
      <3>2. QED
        BY <1>4, <1>5, <3>1
    <2>4. QED
      BY <1>5, <2>1, <2>2, <2>3 DEF Before
  <1>8. CASE i = k
    <2>1. u[i] \in Int /\ v[i] \in Int /\ w[i] \in Int
      BY <1>1, <1>4, <1>5, <1>8
    <2>2. u[i] < w[i]
      BY <1>4, <1>5, <1>8, <2>1
    <2>3. QED
      BY <1>4, <1>5, <1>8, <2>2 DEF Before
  <1>9. QED
    BY <1>1, <1>4, <1>5, <1>6, <1>7, <1>8

\* Of finitely many things there is always one that none comes before.
LEMMA FirstExists ==
  ASSUME NEW S, IsFiniteSet(S), S # {}, NEW key \in [S -> Keys]
  PROVE  \E s \in S : \A t \in S : ~Before(key[t], key[s])
  <1> DEFINE Good == {T \in SUBSET S : T = {} \/ \E s \in T : \A t \in T : ~Before(key[t], key[s])}
  <1>1. {} \in Good
    OBVIOUS
  <1>2. ASSUME NEW T \in SUBSET S, NEW e \in T, T \ {e} \in Good PROVE T \in Good
    <2>1. CASE T \ {e} = {}
      BY <2>1, BeforeOrders
    <2>2. CASE T \ {e} # {}
      <3>1. PICK s \in T \ {e} : \A t \in T \ {e} : ~Before(key[t], key[s])
        BY <1>2, <2>2
      <3>2. key[s] \in Keys /\ key[e] \in Keys /\ \A t \in T : key[t] \in Keys
        OBVIOUS
      <3>3. CASE Before(key[e], key[s])
        <4>1. ASSUME NEW t \in T PROVE ~Before(key[t], key[e])
          BY <3>1, <3>2, <3>3, BeforeOrders
        <4>2. QED
          BY <4>1
      <3>4. CASE ~Before(key[e], key[s])
        BY <3>1, <3>4
      <3>5. QED
        BY <3>3, <3>4
    <2>3. QED
      BY <2>1, <2>2
  <1> HIDE DEF Good
  <1>3. S \in Good
    BY <1>1, <1>2, OneByOne, Zenon
  <1>4. QED
    BY <1>3 DEF Good

\* What is decided on the beginnings is decided.
LEMMA BeforeLonger ==
  ASSUME NEW u \in Keys, NEW v \in Keys, NEW s \in Keys, NEW t \in Keys, Before(u, v)
  PROVE  u \o s \in Keys /\ v \o t \in Keys /\ Before(u \o s, v \o t)
  <1>1. PICK i \in DOMAIN u \cap DOMAIN v : (\A j \in 1 .. i - 1 : u[j] = v[j]) /\ u[i] < v[i]
    BY Zenon DEF Before
  <1>2. PICK m \in Keys : m = u \o s /\ \A j \in DOMAIN u : j \in DOMAIN m /\ m[j] = u[j]
    BY KeyKept, Zenon
  <1>3. PICK n \in Keys : n = v \o t /\ \A j \in DOMAIN v : j \in DOMAIN n /\ n[j] = v[j]
    BY KeyKept, Zenon
  <1>4. \A j \in 1 .. i - 1 : j \in DOMAIN u /\ j \in DOMAIN v
    BY <1>1, KeyParts, Zenon
  <1>5. \A j \in 1 .. i - 1 : m[j] = n[j]
    BY <1>1, <1>2, <1>3, <1>4, Zenon
  <1>6. i \in DOMAIN m \cap DOMAIN n /\ m[i] < n[i]
    BY <1>1, <1>2, <1>3, Zenon
  <1>7. Before(m, n)
    BY <1>5, <1>6, Zenon DEF Before
  <1>8. QED
    BY <1>2, <1>3, <1>7, Zenon

-----------------------------------------------------------------------------
(***************************************************************************)
(* PlanSearch: the drive past the stops of a plan.                         *)
(***************************************************************************)
LEMMA Asked ==
  ASSUME NEW q \in Question
  PROVE  /\ \A s \in Shops, g \in Goods : q.price[s][g] \in Nat
         /\ \A s \in Shops : s \in Nat /\ s # 0 /\ q.street[s] \in Int
         /\ \A s \in Shops, from \in Int : Away(q, from, s) \in Int
         /\ q.maxStores \in Nat /\ 1 <= q.maxStores /\ q.maxStores <= HardShopLimit
         /\ HardShopLimit \in Nat
         /\ q.maxKm \in Nat /\ q.maxMinutes \in Nat /\ q.minSavings \in Nat
         /\ q.excluded \in SUBSET Shops
  <1>1. q.price \in [Shops -> [Goods -> UnitPrices]] /\ UnitPrices \in SUBSET Nat
    BY SearchAssumption DEF Question
  <1>2. q.street \in [Shops -> Int \ {0}]
    BY SearchAssumption DEF Question
  <1>3. \A s \in Shops, from \in Int : Away(q, from, s) \in Int
    BY <1>2 DEF Away, Abs
  <1>4. q.maxStores \in Nat /\ 1 <= q.maxStores /\ q.maxStores <= HardShopLimit /\ HardShopLimit \in Nat
    <2>1. q.maxStores \in ShopLimits
      BY DEF Question
    <2>2. HardShopLimit \in Nat /\ \A n \in ShopLimits : n \in 1 .. HardShopLimit
      BY SearchAssumption
    <2>3. QED
      BY <2>1, <2>2
  <1>5. q.maxKm \in Nat /\ q.maxMinutes \in Nat /\ q.minSavings \in Nat /\ q.excluded \in SUBSET Shops
    BY SearchAssumption DEF Question
  <1>6. \A s \in Shops, g \in Goods : q.price[s][g] \in Nat
    BY <1>1
  <1>7. \A s \in Shops : s \in Nat /\ s # 0 /\ q.street[s] \in Int
    BY <1>2, SearchAssumption
  <1>8. QED
    BY <1>3, <1>4, <1>5, <1>6, <1>7

Driving(stops, n, drive) ==
    drive.order \in [1 .. n -> stops] /\ drive.at \in Int /\ drive.km \in Int

\* A stop is left, so that the drive can go on, as long as fewer are in order.
LEMMA StopIsLeft ==
  ASSUME NEW stops, IsFiniteSet(stops), NEW n \in Nat, n < Cardinality(stops),
         NEW order \in [1 .. n -> stops]
  PROVE  stops \ {order[i] : i \in DOMAIN order} # {}
  <1>1. PICK gone : gone = {order[i] : i \in DOMAIN order}
    OBVIOUS
  <1>2. order \in Surjection(1 .. n, gone)
    BY <1>1 DEF Surjection
  <1>3. IsFiniteSet(1 .. n) /\ Cardinality(1 .. n) = n
    BY FS_Interval
  <1>4. Cardinality(gone) <= n /\ IsFiniteSet(gone)
    BY <1>2, <1>3, FS_Surjection
  <1>5. gone \in SUBSET stops
    BY <1>1
  <1>6. Cardinality(stops) \in Nat /\ Cardinality(gone) \in Nat
    BY <1>4, FS_CardinalityType
  <1>7. gone # stops
    BY <1>4, <1>6
  <1>8. QED
    BY <1>1, <1>5, <1>7

LEMMA DriveGoesOn ==
  ASSUME NEW q \in Question, NEW stops \in SUBSET Shops, NEW n \in Nat,
         n < Cardinality(stops), NEW drive, Driving(stops, n, drive)
  PROVE  Driving(stops, n + 1, DriveOn(q, stops, drive))
  <1>1. IsFiniteSet(stops)
    BY FS_Subset, SearchAssumption
  <1>2. PICK left : left = stops \ {drive.order[i] : i \in DOMAIN drive.order}
    OBVIOUS
  <1>3. left # {} /\ left \in SUBSET stops /\ IsFiniteSet(left)
    BY <1>1, <1>2, StopIsLeft, FS_Subset DEF Driving
  <1>4. PICK key : key = [s \in left |-> <<Away(q, drive.at, s), s>>]
    OBVIOUS
  <1>5. \A s \in left : s \in Nat /\ q.street[s] \in Int /\ Away(q, drive.at, s) \in Int
    BY <1>3, Asked DEF Driving
  <1>6. key \in [left -> Keys]
    BY <1>4, <1>5 DEF Keys
  <1>7. \E s \in left : \A t \in left :
            ~Before(<<Away(q, drive.at, t), t>>, <<Away(q, drive.at, s), s>>)
    <2>1. PICK s \in left : \A t \in left : ~Before(key[t], key[s])
      BY <1>3, <1>6, FirstExists
    <2>2. QED
      BY <1>4, <2>1
  <1>8. PICK next : next = First(left, LAMBDA s : <<Away(q, drive.at, s), s>>)
    OBVIOUS
  <1>9. next \in left
    BY <1>7, <1>8, Zenon DEF First
  <1>10. DriveOn(q, stops, drive) =
            [order |-> Append(drive.order, next), at |-> q.street[next],
             km |-> drive.km + Away(q, drive.at, next)]
    BY <1>2, <1>8 DEF DriveOn
  <1>11. Append(drive.order, next) \in [1 .. n + 1 -> stops]
    <2>1. drive.order \in Seq(stops) /\ Len(drive.order) = n /\ next \in stops
      BY <1>3, <1>9 DEF Driving
    <2>2. Append(drive.order, next) \in Seq(stops) /\ Len(Append(drive.order, next)) = n + 1
      BY <2>1, AppendProperties
    <2>3. QED
      BY <2>2, LenProperties
  <1>12. q.street[next] \in Int /\ drive.km + Away(q, drive.at, next) \in Int
    BY <1>5, <1>9 DEF Driving
  <1>13. QED
    BY <1>10, <1>11, <1>12 DEF Driving

Home == [order |-> <<>>, at |-> 0, km |-> 0]
Drives(q, stops, k, drive) ==
    drive = [n \in 0 .. k |-> IF n = 0 THEN Home ELSE DriveOn(q, stops, drive[n - 1])]

\* The drive's recursion defines it, for any number of stops.
LEMMA DriveExists ==
  ASSUME NEW q, NEW stops, NEW k \in Nat
  PROVE  \E drive : Drives(q, stops, k, drive)
  <1> DEFINE Bad == {n \in Nat : ~ \E drive : Drives(q, stops, n, drive)}
  <1>1. ASSUME Bad # {} PROVE FALSE
    <2>1. PICK n \in Bad : \A m \in Bad : n <= m
      BY <1>1, LeastNatural
    <2>2. n # 0
      <3>1. PICK drive : drive = [m \in 0 .. 0 |-> Home]
        OBVIOUS
      <3>2. [m \in 0 .. 0 |-> IF m = 0 THEN Home ELSE DriveOn(q, stops, drive[m - 1])] = drive
        BY <3>1
      <3>3. Drives(q, stops, 0, drive)
        BY <3>2 DEF Drives
      <3>4. QED
        BY <3>3
    <2>3. n - 1 \in Nat /\ n - 1 \notin Bad
      BY <2>1, <2>2
    <2>4. PICK drive : Drives(q, stops, n - 1, drive)
      BY <2>3
    <2>5. /\ DOMAIN drive = 0 .. n - 1 /\ drive[0] = Home
          /\ \A m \in 1 .. n - 1 : drive[m] = DriveOn(q, stops, drive[m - 1])
      <3>1. drive = [m \in 0 .. n - 1 |-> IF m = 0 THEN Home ELSE DriveOn(q, stops, drive[m - 1])]
        BY <2>4 DEF Drives
      <3>2. DOMAIN drive = 0 .. n - 1
        BY <3>1
      <3>3. \A m \in 0 .. n - 1 : drive[m] = IF m = 0 THEN Home ELSE DriveOn(q, stops, drive[m - 1])
        BY <3>1
      <3>4. QED
        BY <2>3, <3>2, <3>3
    <2>6. PICK longer : longer = [m \in 0 .. n |-> IF m = n THEN DriveOn(q, stops, drive[n - 1]) ELSE drive[m]]
      OBVIOUS
    <2>7. ASSUME NEW m \in 0 .. n
          PROVE  longer[m] = IF m = 0 THEN Home ELSE DriveOn(q, stops, longer[m - 1])
      <3>1. CASE m = 0
        BY <2>2, <2>5, <2>6, <3>1
      <3>2. CASE m # 0
        <4>1. m - 1 \in 0 .. n /\ m - 1 # n
          BY <3>2
        <4>2. longer[m - 1] = drive[m - 1]
          BY <2>6, <4>1
        <4>3. longer[m] = DriveOn(q, stops, drive[m - 1])
          BY <2>5, <2>6, <3>2
        <4>4. QED
          BY <3>2, <4>2, <4>3
      <3>3. QED
        BY <3>1, <3>2
    <2>8. longer = [m \in 0 .. n |-> IF m = 0 THEN Home ELSE DriveOn(q, stops, longer[m - 1])]
      BY <2>6, <2>7
    <2>9. Drives(q, stops, n, longer)
      BY <2>8 DEF Drives
    <2>10. QED
      BY <2>1, <2>9
  <1>2. QED
    BY <1>1

LEMMA DriveHolds ==
  ASSUME NEW q \in Question, NEW stops \in SUBSET Shops, Cardinality(stops) \in Nat,
         NEW drive, Drives(q, stops, Cardinality(stops), drive)
  PROVE  Driving(stops, Cardinality(stops), drive[Cardinality(stops)])
  <1> DEFINE k == Cardinality(stops)
  <1> DEFINE Bad == {n \in 0 .. k : ~Driving(stops, n, drive[n])}
  <1>0. /\ drive[0] = Home
        /\ \A n \in 1 .. k : drive[n] = DriveOn(q, stops, drive[n - 1])
    <2>1. drive = [n \in 0 .. k |-> IF n = 0 THEN Home ELSE DriveOn(q, stops, drive[n - 1])]
      BY DEF Drives
    <2>2. \A n \in 0 .. k : drive[n] = IF n = 0 THEN Home ELSE DriveOn(q, stops, drive[n - 1])
      BY <2>1
    <2>3. QED
      BY <2>2
  <1>1. ASSUME Bad # {} PROVE FALSE
    <2>0. Bad \in SUBSET Nat
      OBVIOUS
    <2>1. PICK n \in Bad : \A m \in Bad : n <= m
      BY <1>1, <2>0, LeastNatural
    <2>2. CASE n = 0
      <3>1. Driving(stops, 0, Home)
        BY DEF Driving, Home
      <3>2. QED
        BY <1>0, <2>2, <3>1
    <2>3. CASE n # 0
      <3>1. n - 1 \in 0 .. k /\ n - 1 \in Nat /\ n - 1 < k /\ n \in 1 .. k
        BY <2>3
      <3>2. Driving(stops, n - 1, drive[n - 1])
        BY <2>1, <3>1
      <3>3. Driving(stops, (n - 1) + 1, DriveOn(q, stops, drive[n - 1]))
        BY <3>1, <3>2, DriveGoesOn
      <3>4. QED
        BY <1>0, <3>1, <3>3
    <2>4. QED
      BY <2>2, <2>3
  <1>2. QED
    BY <1>1

LEMMA RouteTyped ==
  ASSUME NEW q \in Question, NEW stops \in SUBSET Shops
  PROVE  Route(q, stops).order \in Keys /\ Route(q, stops).km \in Int
  <1>1. IsFiniteSet(stops) /\ Cardinality(stops) \in Nat
    BY FS_Subset, FS_CardinalityType, SearchAssumption
  <1>2. PICK drive : drive = CHOOSE f : Drives(q, stops, Cardinality(stops), f)
    OBVIOUS
  <1>3. Drives(q, stops, Cardinality(stops), drive)
    BY <1>1, <1>2, DriveExists
  <1>4. PICK done : done = drive[Cardinality(stops)]
    OBVIOUS
  <1>5. Driving(stops, Cardinality(stops), done)
    BY <1>1, <1>3, <1>4, DriveHolds
  <1>6. Route(q, stops) = [order |-> done.order, km |-> done.km + Abs(done.at)]
    BY <1>2, <1>4 DEF Route, Drives, Home
  <1>7. done.order \in Keys
    <2>1. \A s \in stops : s \in Int
      BY SearchAssumption
    <2>2. QED
      BY <1>1, <1>5, <2>1 DEF Driving, Keys
  <1>8. QED
    BY <1>5, <1>6, <1>7 DEF Driving, Abs

-----------------------------------------------------------------------------
(***************************************************************************)
(* PlanSearch: plans.                                                      *)
(***************************************************************************)
Bought(buys) == {g \in Goods : buys[g] # 0}
StoresOf(buys) == {buys[g] : g \in Bought(buys)}
Paid(q, buys) == [g \in Bought(buys) |-> Wanted * q.price[buys[g]][g]]
Buying == [Goods -> Shops \cup {0}]

PlanTyped(plan) ==
    /\ plan.stores \in SUBSET Shops /\ plan.covered \in 0 .. Cardinality(Goods)
    /\ plan.total \in Int /\ plan.order \in Keys /\ plan.km \in Int /\ plan.minutes \in Int

LEMMA PlanIs ==
  ASSUME NEW q, NEW buys
  PROVE  Plan(q, buys) =
            [stores |-> StoresOf(buys), covered |-> Cardinality(Bought(buys)),
             total |-> Sum(Paid(q, buys)), order |-> Route(q, StoresOf(buys)).order,
             km |-> Route(q, StoresOf(buys)).km,
             minutes |-> IF StoresOf(buys) = {} THEN 0
                         ELSE Minutes(Route(q, StoresOf(buys)).km, Cardinality(StoresOf(buys)))]
  BY Zenon DEF Plan, StoresOf, Bought, Paid

LEMMA PlanIsTyped ==
  ASSUME NEW q \in Question, NEW buys \in Buying
  PROVE  /\ PlanTyped(Plan(q, buys)) /\ Bought(buys) \in SUBSET Goods /\ IsFiniteSet(Bought(buys))
         /\ Cardinality(Bought(buys)) \in Nat
         /\ StoresOf(buys) \in SUBSET Shops /\ Paid(q, buys) \in Numbers(Bought(buys))
         /\ Cardinality(StoresOf(buys)) \in Nat
  <1>1. Bought(buys) \in SUBSET Goods
    BY DEF Bought
  <1>2. /\ IsFiniteSet(Bought(buys)) /\ Cardinality(Bought(buys)) \in Nat
        /\ Cardinality(Goods) \in Nat /\ Cardinality(Bought(buys)) <= Cardinality(Goods)
    BY <1>1, FS_Subset, FS_CardinalityType, SearchAssumption
  <1>3. \A g \in Bought(buys) : g \in Goods /\ buys[g] \in Shops
    BY DEF Bought, Buying
  <1>4. StoresOf(buys) \in SUBSET Shops
    BY <1>3 DEF StoresOf
  <1>5. IsFiniteSet(StoresOf(buys)) /\ Cardinality(StoresOf(buys)) \in Nat
    BY <1>4, FS_Subset, FS_CardinalityType, SearchAssumption
  <1>6. Paid(q, buys) \in Numbers(Bought(buys))
    <2>1. \A g \in Bought(buys) : q.price[buys[g]][g] \in Nat
      BY <1>3, Asked
    <2>2. \A g \in Bought(buys) : Wanted * q.price[buys[g]][g] \in Int
      BY <2>1, SearchAssumption
    <2>3. QED
      BY <2>2 DEF Paid, Numbers
  <1>7. Sum(Paid(q, buys)) \in Int
    <2>1. PICK p \in Numbers(Bought(buys)) : p = Paid(q, buys)
      BY <1>6
    <2>2. \A g \in Bought(buys) : p[g] <= p[g]
      BY DEF Numbers
    <2>3. Sum(p) \in Int
      BY <1>2, <2>2, SumMonotone
    <2>4. QED
      BY <2>1, <2>3
  <1>8. Route(q, StoresOf(buys)).order \in Keys /\ Route(q, StoresOf(buys)).km \in Int
    BY <1>4, RouteTyped
  <1>9. Minutes(Route(q, StoresOf(buys)).km, Cardinality(StoresOf(buys))) \in Int
    BY <1>5, <1>8 DEF Minutes
  <1>10. PlanTyped(Plan(q, buys))
    <2>1. PICK plan : plan = Plan(q, buys)
      OBVIOUS
    <2>2. plan.stores \in SUBSET Shops /\ plan.covered \in 0 .. Cardinality(Goods)
      BY <1>2, <1>4, <2>1, PlanIs
    <2>3. plan.total \in Int /\ plan.order \in Keys /\ plan.km \in Int /\ plan.minutes \in Int
      BY <1>7, <1>8, <1>9, <2>1, PlanIs
    <2>4. QED
      BY <2>1, <2>2, <2>3 DEF PlanTyped
  <1>11. QED
    BY <1>1, <1>2, <1>4, <1>5, <1>6, <1>10

\* What a combination's plan buys where.
Sells(q, s, g) == q.price[s][g] # Unsold
CheapestBuys(q, combination, buys) ==
    /\ buys \in [Goods -> combination \cup {0}]
    /\ \A g \in Goods :
          IF \E s \in combination : Sells(q, s, g)
          THEN /\ buys[g] \in combination /\ Sells(q, buys[g], g)
               /\ \A s \in combination : Sells(q, s, g) => q.price[buys[g]][g] <= q.price[s][g]
          ELSE buys[g] = 0

LEMMA BuildBuys ==
  ASSUME NEW q \in Question, NEW combination \in SUBSET Shops
  PROVE  \E buys \in Buying : BuildPlan(q, combination) = Plan(q, buys)
                              /\ CheapestBuys(q, combination, buys)
  <1> DEFINE sellers(g) == {s \in combination : q.price[s][g] # Unsold}
             store(g) == First(sellers(g), LAMBDA s : <<q.price[s][g], Away(q, 0, s), s>>)
  <1>1. ASSUME NEW g \in Goods, sellers(g) # {}
        PROVE  store(g) \in sellers(g) /\ \A s \in sellers(g) : q.price[store(g)][g] <= q.price[s][g]
    <2>1. PICK S : S = sellers(g)
      OBVIOUS
    <2>2. S \in SUBSET Shops /\ IsFiniteSet(S) /\ S # {}
      BY <1>1, <2>1, FS_Subset, SearchAssumption
    <2>3. \A s \in S : s \in Nat /\ q.price[s][g] \in Nat /\ Away(q, 0, s) \in Int
      BY <2>2, Asked
    <2>4. PICK key : key = [s \in S |-> <<q.price[s][g], Away(q, 0, s), s>>]
      OBVIOUS
    <2>5. key \in [S -> Keys]
      BY <2>3, <2>4 DEF Keys
    <2>6. \E s \in S : \A t \in S :
            ~Before(<<q.price[t][g], Away(q, 0, t), t>>, <<q.price[s][g], Away(q, 0, s), s>>)
      <3>1. PICK s \in S : \A t \in S : ~Before(key[t], key[s])
        BY <2>2, <2>5, FirstExists
      <3>2. QED
        BY <2>4, <3>1
    <2>7. PICK best : best = store(g)
      OBVIOUS
    <2>8. best \in S /\ \A t \in S :
            ~Before(<<q.price[t][g], Away(q, 0, t), t>>, <<q.price[best][g], Away(q, 0, best), best>>)
      BY <2>1, <2>6, <2>7, Zenon DEF First
    <2>9. ASSUME NEW s \in S PROVE q.price[best][g] <= q.price[s][g]
      <3>1. SUFFICES ASSUME q.price[s][g] < q.price[best][g] PROVE FALSE
        BY <2>3, <2>8
      <3>2. PICK u, v : u = <<q.price[s][g], Away(q, 0, s), s>>
                        /\ v = <<q.price[best][g], Away(q, 0, best), best>>
        OBVIOUS
      <3>3. 1 \in DOMAIN u \cap DOMAIN v /\ u[1] < v[1] /\ \A j \in 1 .. 1 - 1 : u[j] = v[j]
        BY <3>1, <3>2
      <3>4. Before(u, v)
        BY <3>3 DEF Before
      <3>5. QED
        BY <2>8, <3>2, <3>4
    <2>10. QED
      BY <2>1, <2>7, <2>8, <2>9
  <1>2. PICK buys : buys = [g \in Goods |-> IF sellers(g) = {} THEN 0 ELSE store(g)]
    OBVIOUS
  <1>3. BuildPlan(q, combination) = Plan(q, buys)
    BY <1>2, Zenon DEF BuildPlan
  <1>4. ASSUME NEW g \in Goods
        PROVE  IF \E s \in combination : Sells(q, s, g)
               THEN /\ buys[g] \in combination /\ Sells(q, buys[g], g)
                    /\ \A s \in combination : Sells(q, s, g) => q.price[buys[g]][g] <= q.price[s][g]
               ELSE buys[g] = 0
    <2>1. CASE sellers(g) = {}
      BY <1>2, <2>1 DEF Sells
    <2>2. CASE sellers(g) # {}
      <3>1. PICK best : best = store(g)
        OBVIOUS
      <3>2. best \in sellers(g) /\ \A s \in sellers(g) : q.price[best][g] <= q.price[s][g]
        BY <1>1, <2>2, <3>1
      <3>3. buys[g] = best
        BY <1>2, <2>2, <3>1
      <3>4. QED
        BY <3>2, <3>3 DEF Sells
    <2>3. QED
      BY <2>1, <2>2
  <1>5. \A g \in Goods : buys[g] \in combination \cup {0}
    BY <1>4
  <1>6. buys \in [Goods -> combination \cup {0}]
    BY <1>2, <1>5
  <1>7. buys \in Buying
    BY <1>6 DEF Buying
  <1>8. QED
    BY <1>3, <1>4, <1>6, <1>7 DEF CheapestBuys

-----------------------------------------------------------------------------
(***************************************************************************)
(* PlanSearch: what is no worse is preferred.                              *)
(***************************************************************************)
\* What is nowhere greater comes before whatever the other comes before.
LEMMA BeforeLess ==
  ASSUME NEW u \in Keys, NEW v \in Keys, NEW w \in Keys, DOMAIN u = DOMAIN v,
         \A i \in DOMAIN u : u[i] <= v[i], Before(v, w)
  PROVE  Before(u, w)
  <1>1. PICK i \in DOMAIN v \cap DOMAIN w : (\A j \in 1 .. i - 1 : v[j] = w[j]) /\ v[i] < w[i]
    BY DEF Before
  <1>2. /\ i \in Nat /\ i >= 1
        /\ \A j \in 1 .. i : j \in DOMAIN v /\ j \in DOMAIN w /\ j \in Nat
                             /\ u[j] \in Int /\ v[j] \in Int /\ w[j] \in Int
    BY <1>1 DEF Keys
  <1>3. PICK D \in SUBSET Nat : D = {j \in 1 .. i : u[j] # v[j]}
    BY <1>2
  <1>4. CASE D = {}
    <2>1. \A j \in 1 .. i : u[j] = v[j]
      BY <1>3, <1>4
    <2>2. (\A j \in 1 .. i - 1 : u[j] = w[j]) /\ u[i] < w[i]
      BY <1>1, <1>2, <2>1
    <2>3. QED
      BY <1>1, <2>2 DEF Before
  <1>5. CASE D # {}
    <2>1. PICK k \in D : \A j \in D : k <= j
      BY <1>5, LeastNatural
    <2>2. k \in 1 .. i /\ u[k] < v[k] /\ v[k] <= w[k]
      <3>1. k \in 1 .. i /\ u[k] # v[k] /\ u[k] <= v[k]
        BY <1>2, <1>3, <2>1
      <3>2. k = i \/ k \in 1 .. i - 1
        BY <1>2, <3>1
      <3>3. v[k] <= w[k]
        BY <1>1, <1>2, <3>1, <3>2
      <3>4. QED
        BY <1>2, <3>1, <3>3
    <2>3. \A j \in 1 .. k - 1 : j \in 1 .. i - 1 /\ u[j] = v[j]
      BY <1>2, <1>3, <2>1, <2>2
    <2>4. \A j \in 1 .. k - 1 : u[j] = w[j]
      BY <1>1, <2>3
    <2>5. k \in DOMAIN u \cap DOMAIN w /\ u[k] < w[k]
      BY <1>2, <2>2
    <2>6. QED
      BY <2>4, <2>5 DEF Before
  <1>6. QED
    BY <1>4, <1>5

RelativeTyped(plan) ==
    /\ PlanTyped(plan)
    /\ plan.extraKm \in Int /\ plan.extraMinutes \in Int /\ plan.savings \in Int

LEMMA RelativeIsTyped ==
  ASSUME NEW plan, PlanTyped(plan), NEW baseline, PlanTyped(baseline)
  PROVE  RelativeTyped(RelativeTo(plan, baseline))
  BY DEF RelativeTo, RelativeTyped, PlanTyped, AtLeast

LEMMA StoresCount ==
  ASSUME NEW stores \in SUBSET Shops
  PROVE  IsFiniteSet(stores) /\ Cardinality(stores) \in Nat /\ (stores # {} => Cardinality(stores) >= 1)
  <1>1. IsFiniteSet(stores)
    BY FS_Subset, SearchAssumption
  <1>2. Cardinality(stores) \in Nat /\ (Cardinality(stores) = 0 => stores = {})
    BY <1>1, FS_CardinalityType, FS_EmptySet
  <1>3. QED
    BY <1>1, <1>2

LEMMA RanksAreKeys ==
  ASSUME NEW plan, RelativeTyped(plan), NEW mode \in Modes
  PROVE  /\ <<-plan.covered>> \in Keys /\ Measure(mode, plan) \in Keys
         /\ <<-plan.covered>> \o Measure(mode, plan) \in Keys
         /\ Rank(mode, plan) \in Keys /\ ComparedAs(mode, plan) \in Keys
  <1>1. Cardinality(plan.stores) \in Nat
    BY StoresCount DEF RelativeTyped, PlanTyped
  <1>2. Cardinality(Goods) \in Nat
    BY FS_CardinalityType, SearchAssumption
  <1>3. EffectiveCost(plan) \in Int
    BY <1>1 DEF EffectiveCost, AtLeast, RelativeTyped, PlanTyped
  <1>4. -plan.covered \in Int
    BY <1>2 DEF RelativeTyped, PlanTyped
  <1>5. <<-plan.covered>> \in Keys
    BY <1>4 DEF Keys
  <1>6. Measure(mode, plan) \in Keys
    BY <1>1, <1>3 DEF Measure, Modes, Keys, RelativeTyped, PlanTyped
  <1>7. <<-plan.covered>> \o Measure(mode, plan) \in Keys
    BY <1>5, <1>6, ConcatProperties DEF Keys
  <1>8. Rank(mode, plan) \in Keys
    BY <1>7 DEF Rank
  <1>9. PICK rest : rest = <<Cardinality(plan.stores), plan.total, plan.km>>
    OBVIOUS
  <1>10. rest \in Keys /\ plan.order \in Keys
    BY <1>1, <1>9 DEF Keys, RelativeTyped, PlanTyped
  <1>11. Rank(mode, plan) \o rest \in Keys
    BY <1>8, <1>10, ConcatProperties DEF Keys
  <1>12. (Rank(mode, plan) \o rest) \o plan.order \in Keys
    BY <1>10, <1>11, ConcatProperties DEF Keys
  <1>13. ComparedAs(mode, plan) \in Keys
    BY <1>9, <1>12 DEF ComparedAs
  <1>14. QED
    BY <1>5, <1>6, <1>7, <1>8, <1>13

\* One plan is no worse than another: it goes to some of its stores, buys as
\* much for no more, and drives no farther.
NoWorse(plan, other) ==
    /\ plan.stores \in SUBSET other.stores /\ plan.stores # {}
    /\ plan.covered = other.covered /\ plan.total <= other.total
    /\ plan.km <= other.km /\ plan.minutes <= other.minutes

LEMMA NoWorseRelative ==
  ASSUME NEW plan, PlanTyped(plan), NEW other, PlanTyped(other), NEW baseline, PlanTyped(baseline),
         NoWorse(plan, other)
  PROVE  LET p == RelativeTo(plan, baseline)
             o == RelativeTo(other, baseline) IN
         /\ p.stores \in SUBSET o.stores /\ Cardinality(p.stores) \in Nat /\ Cardinality(o.stores) \in Nat
         /\ 1 <= Cardinality(p.stores) /\ Cardinality(p.stores) <= Cardinality(o.stores)
         /\ p.covered = o.covered /\ p.total <= o.total
         /\ p.extraKm <= o.extraKm /\ p.extraMinutes <= o.extraMinutes /\ o.savings <= p.savings
  <1>1. /\ plan.stores \in SUBSET other.stores /\ other.stores \in SUBSET Shops
        /\ Cardinality(plan.stores) \in Nat /\ Cardinality(other.stores) \in Nat
        /\ 1 <= Cardinality(plan.stores) /\ Cardinality(plan.stores) <= Cardinality(other.stores)
    <2>1. /\ plan.stores \in SUBSET other.stores /\ other.stores \in SUBSET Shops
          /\ plan.stores \in SUBSET Shops /\ plan.stores # {}
      BY DEF NoWorse, PlanTyped
    <2>2. IsFiniteSet(other.stores) /\ Cardinality(other.stores) \in Nat
          /\ Cardinality(plan.stores) \in Nat /\ Cardinality(plan.stores) >= 1
      BY <2>1, StoresCount
    <2>3. Cardinality(plan.stores) <= Cardinality(other.stores)
      BY <2>1, <2>2, FS_Subset
    <2>4. QED
      BY <2>1, <2>2, <2>3
  <1>2. /\ AtLeast(0, plan.km - baseline.km) <= AtLeast(0, other.km - baseline.km)
        /\ AtLeast(0, plan.minutes - baseline.minutes) <= AtLeast(0, other.minutes - baseline.minutes)
        /\ baseline.total - other.total <= baseline.total - plan.total
    BY DEF NoWorse, PlanTyped, AtLeast
  <1>3. QED
    BY <1>1, <1>2 DEF RelativeTo, NoWorse

LEMMA SatisfiesIs ==
  ASSUME NEW q, NEW plan
  PROVE  Satisfies(q, plan) <=>
            /\ ~(Cardinality(plan.stores) > q.maxStores)
            /\ ~(plan.extraKm > q.maxKm) /\ ~(plan.extraMinutes > q.maxMinutes)
            /\ plan.stores \cap q.excluded = {}
            /\ ~(Cardinality(plan.stores) > 1
                 /\ plan.savings < (Cardinality(plan.stores) - 1) * q.minSavings)
  BY Zenon DEF Satisfies, Violations

\* A plan that is no worse than one within the limits is within them.
LEMMA NoWorseSatisfies ==
  ASSUME NEW q \in Question, NEW plan, PlanTyped(plan), NEW other, PlanTyped(other),
         NEW baseline, PlanTyped(baseline), NoWorse(plan, other),
         Satisfies(q, RelativeTo(other, baseline))
  PROVE  Satisfies(q, RelativeTo(plan, baseline))
  <1>1. PICK p, o : p = RelativeTo(plan, baseline) /\ o = RelativeTo(other, baseline)
    OBVIOUS
  <1>2. RelativeTyped(p) /\ RelativeTyped(o)
    BY <1>1, RelativeIsTyped
  <1>3. /\ p.stores \in SUBSET o.stores /\ Cardinality(p.stores) \in Nat /\ Cardinality(o.stores) \in Nat
        /\ 1 <= Cardinality(p.stores) /\ Cardinality(p.stores) <= Cardinality(o.stores)
        /\ p.extraKm <= o.extraKm /\ p.extraMinutes <= o.extraMinutes /\ o.savings <= p.savings
    BY <1>1, NoWorseRelative
  <1>4. q.maxStores \in Nat /\ q.maxKm \in Nat /\ q.maxMinutes \in Nat /\ q.minSavings \in Nat
    BY Asked
  <1>5. /\ ~(Cardinality(o.stores) > q.maxStores)
        /\ ~(o.extraKm > q.maxKm) /\ ~(o.extraMinutes > q.maxMinutes)
        /\ o.stores \cap q.excluded = {}
        /\ ~(Cardinality(o.stores) > 1 /\ o.savings < (Cardinality(o.stores) - 1) * q.minSavings)
    BY <1>1, SatisfiesIs
  <1>6. ~(Cardinality(p.stores) > q.maxStores) /\ p.stores \cap q.excluded = {}
    BY <1>3, <1>4, <1>5
  <1>7. ~(p.extraKm > q.maxKm) /\ ~(p.extraMinutes > q.maxMinutes)
    BY <1>2, <1>3, <1>4, <1>5 DEF RelativeTyped
  <1>8. ASSUME Cardinality(p.stores) > 1
        PROVE  ~(p.savings < (Cardinality(p.stores) - 1) * q.minSavings)
    <2>1. PICK few \in Nat, many \in Nat : few = Cardinality(p.stores) - 1 /\ many = Cardinality(o.stores) - 1
      BY <1>3
    <2>2. few <= many
      BY <1>3, <2>1
    <2>3. few * q.minSavings <= many * q.minSavings
      <3>1. (many - few) * q.minSavings \in Nat
        BY <1>4, <2>1, <2>2
      <3>2. (many - few) * q.minSavings = many * q.minSavings - few * q.minSavings
        BY <1>4, <2>1
      <3>3. few * q.minSavings \in Int /\ many * q.minSavings \in Int
        BY <1>4, <2>1
      <3>4. QED
        BY <3>1, <3>2, <3>3
    <2>4. ~(o.savings < many * q.minSavings)
      BY <1>3, <1>5, <1>8, <2>1
    <2>5. o.savings \in Int /\ p.savings \in Int /\ few * q.minSavings \in Int /\ many * q.minSavings \in Int
      BY <1>2, <1>4, <2>1 DEF RelativeTyped
    <2>6. QED
      BY <1>3, <2>1, <2>3, <2>4, <2>5
  <1>9. Satisfies(q, p)
    BY <1>6, <1>7, <1>8, SatisfiesIs
  <1>10. QED
    BY <1>1, <1>9

LEMMA NoWorseRanks ==
  ASSUME NEW plan, PlanTyped(plan), NEW other, PlanTyped(other), NEW baseline, PlanTyped(baseline),
         NoWorse(plan, other), NEW mode \in Modes, NEW k \in Keys,
         LET o == RelativeTo(other, baseline) IN Before(<<-o.covered>> \o Measure(mode, o), k)
  PROVE  LET p == RelativeTo(plan, baseline) IN Before(<<-p.covered>> \o Measure(mode, p), k)
  <1>1. PICK p, o : p = RelativeTo(plan, baseline) /\ o = RelativeTo(other, baseline)
    OBVIOUS
  <1>2. RelativeTyped(p) /\ RelativeTyped(o)
    BY <1>1, RelativeIsTyped
  <1>3. /\ p.stores \in SUBSET o.stores /\ Cardinality(p.stores) \in Nat /\ Cardinality(o.stores) \in Nat
        /\ 1 <= Cardinality(p.stores) /\ Cardinality(p.stores) <= Cardinality(o.stores)
        /\ p.covered = o.covered /\ p.total <= o.total
        /\ p.extraKm <= o.extraKm /\ p.extraMinutes <= o.extraMinutes
    BY <1>1, NoWorseRelative
  <1>4. PICK u \in Keys, v \in Keys : u = Measure(mode, p) /\ v = Measure(mode, o)
    BY <1>2, RanksAreKeys
  <1>5. EffectiveCost(p) <= EffectiveCost(o)
    BY <1>2, <1>3 DEF EffectiveCost, AtLeast, RelativeTyped, PlanTyped
  <1>6. DOMAIN u = DOMAIN v /\ \A i \in DOMAIN u : u[i] <= v[i]
    <2>1. CASE mode = "cheapest"
      <3>1. u = <<p.total>> /\ v = <<o.total>>
        BY <1>4, <2>1 DEF Measure
      <3>2. QED
        BY <1>3, <3>1
    <2>2. CASE mode = "bestBalance"
      <3>1. u = <<EffectiveCost(p)>> /\ v = <<EffectiveCost(o)>>
        BY <1>4, <2>2 DEF Measure
      <3>2. QED
        BY <1>5, <3>1
    <2>3. CASE mode = "simplest"
      <3>1. u = <<Cardinality(p.stores), p.extraKm>> /\ v = <<Cardinality(o.stores), o.extraKm>>
        BY <1>4, <2>3 DEF Measure
      <3>2. QED
        BY <1>3, <3>1
    <2>4. QED
      BY <2>1, <2>2, <2>3 DEF Modes
  <1>7. PICK first \in Keys : first = <<-p.covered>> /\ first = <<-o.covered>>
    BY <1>2, <1>3, RanksAreKeys
  <1>8. PICK m \in Keys, n \in Keys : m = first \o u /\ n = first \o v
    BY ConcatProperties DEF Keys
  <1>9. DOMAIN m = DOMAIN n /\ \A i \in DOMAIN m : m[i] <= n[i]
    <2>1. Len(u) = Len(v) /\ Len(u) \in Nat /\ Len(first) \in Nat /\ Len(first) = 1
      BY <1>6, <1>7 DEF Keys
    <2>2. /\ Len(m) = Len(first) + Len(u) /\ Len(n) = Len(first) + Len(v)
          /\ \A i \in 1 .. Len(first) + Len(u) :
                m[i] = IF i <= Len(first) THEN first[i] ELSE u[i - Len(first)]
          /\ \A i \in 1 .. Len(first) + Len(v) :
                n[i] = IF i <= Len(first) THEN first[i] ELSE v[i - Len(first)]
      BY <1>8, ConcatProperties DEF Keys
    <2>3. DOMAIN m = 1 .. 1 + Len(u) /\ DOMAIN n = 1 .. 1 + Len(u)
      BY <2>1, <2>2 DEF Keys
    <2>4. ASSUME NEW i \in 1 .. 1 + Len(u) PROVE m[i] <= n[i]
      <3>1. CASE i = 1
        <4>1. m[i] = first[1] /\ n[i] = first[1] /\ first[1] \in Int
          BY <1>7, <2>1, <2>2, <3>1 DEF Keys
        <4>2. QED
          BY <4>1
      <3>2. CASE i # 1
        <4>1. i - 1 \in 1 .. Len(u) /\ m[i] = u[i - 1] /\ n[i] = v[i - 1]
          BY <2>1, <2>2, <3>2
        <4>2. i - 1 \in DOMAIN u
          BY <4>1 DEF Keys
        <4>3. QED
          BY <1>6, <4>1, <4>2
      <3>3. QED
        BY <3>1, <3>2
    <2>5. QED
      BY <2>3, <2>4
  <1>10. Before(n, k)
    BY <1>1, <1>4, <1>7, <1>8
  <1>11. Before(m, k)
    BY <1>9, <1>10, BeforeLess
  <1>12. QED
    BY <1>1, <1>4, <1>7, <1>8, <1>11

\* More kilometres and more stops take longer.
LEMMA MinutesGrow ==
  ASSUME NEW km \in Int, NEW farther \in Int, km <= farther,
         NEW stops \in Int, NEW more \in Int, stops <= more
  PROVE  Minutes(km, stops) <= Minutes(farther, more)
  <1>1. PICK u \in Int, v \in Int : u = km * 24 + 5 /\ v = farther * 24 + 5
    OBVIOUS
  <1>2. /\ u \div 10 \in Int /\ u % 10 \in 0 .. 10 - 1 /\ u = 10 * (u \div 10) + (u % 10)
        /\ v \div 10 \in Int /\ v % 10 \in 0 .. 10 - 1 /\ v = 10 * (v \div 10) + (v % 10)
    BY Division
  <1>3. u <= v
    BY <1>1
  <1>4. u \div 10 <= v \div 10
    BY <1>2, <1>3
  <1>5. QED
    BY <1>1, <1>2, <1>4 DEF Minutes

\* Whatever is bought where, the plan of those stores buys as much and pays no
\* more for it, and where no stop shortens the drive it is no worse.
LEMMA PlanOfThoseStores ==
  ASSUME NEW q \in Question, NEW buys \in Buying, StoresOf(buys) # {},
         \A g \in Goods :
            IF buys[g] = 0 THEN \A h \in Goods : buys[h] # 0 => q.price[buys[h]][g] = Unsold
            ELSE q.price[buys[g]][g] # Unsold,
         \A stops \in SUBSET StoresOf(buys) : Route(q, stops).km <= Route(q, StoresOf(buys)).km
  PROVE  NoWorse(BuildPlan(q, StoresOf(buys)), Plan(q, buys))
  <1> DEFINE stores == StoresOf(buys)
  <1>1. stores \in SUBSET Shops /\ IsFiniteSet(Bought(buys)) /\ Paid(q, buys) \in Numbers(Bought(buys))
        /\ PlanTyped(Plan(q, buys)) /\ Bought(buys) \in SUBSET Goods
    BY PlanIsTyped
  <1>2. PICK best \in Buying : BuildPlan(q, stores) = Plan(q, best) /\ CheapestBuys(q, stores, best)
    BY <1>1, BuildBuys
  <1>3. \A s \in stores : \E h \in Goods : buys[h] # 0 /\ s = buys[h]
    BY DEF StoresOf, Bought
  <1>4. \A s \in stores : s # 0 /\ s \in Shops
    BY <1>1, Asked
  <1>5. ASSUME NEW g \in Goods
        PROVE  /\ best[g] # 0 <=> buys[g] # 0
               /\ buys[g] # 0 => /\ best[g] \in stores /\ buys[g] \in stores
                                 /\ q.price[best[g]][g] <= q.price[buys[g]][g]
    <2>1. CASE buys[g] = 0
      <3>1. \A s \in stores : ~Sells(q, s, g)
        BY <1>3, <2>1 DEF Sells
      <3>2. best[g] = 0
        BY <1>2, <3>1 DEF CheapestBuys
      <3>3. QED
        BY <2>1, <3>2
    <2>2. CASE buys[g] # 0
      <3>1. buys[g] \in stores /\ Sells(q, buys[g], g)
        BY <2>2 DEF StoresOf, Bought, Sells
      <3>2. best[g] \in stores /\ q.price[best[g]][g] <= q.price[buys[g]][g]
        BY <1>2, <3>1 DEF CheapestBuys
      <3>3. QED
        BY <1>4, <2>2, <3>1, <3>2
    <2>3. QED
      BY <2>1, <2>2
  <1>6. Bought(best) = Bought(buys)
    BY <1>5 DEF Bought
  <1>7. StoresOf(best) \in SUBSET stores
    BY <1>5, <1>6 DEF StoresOf, Bought
  <1>8. StoresOf(best) # {}
    BY <1>6 DEF StoresOf
  <1>9. Sum(Paid(q, best)) <= Sum(Paid(q, buys))
    <2>1. Paid(q, best) \in Numbers(Bought(buys))
      BY <1>6, PlanIsTyped
    <2>2. PICK p \in Numbers(Bought(buys)), o \in Numbers(Bought(buys)) :
              p = Paid(q, best) /\ o = Paid(q, buys)
      BY <1>1, <2>1
    <2>3. ASSUME NEW g \in Bought(buys) PROVE p[g] <= o[g]
      <3>1. g \in Goods /\ buys[g] # 0 /\ g \in Bought(best)
        BY <1>6 DEF Bought
      <3>2. p[g] = Wanted * q.price[best[g]][g] /\ o[g] = Wanted * q.price[buys[g]][g]
        BY <2>2, <3>1 DEF Paid
      <3>3. /\ q.price[best[g]][g] <= q.price[buys[g]][g]
            /\ q.price[best[g]][g] \in Nat /\ q.price[buys[g]][g] \in Nat
        BY <1>1, <1>5, <3>1, Asked
      <3>4. PICK less \in Nat, more \in Nat : less = q.price[best[g]][g] /\ more = q.price[buys[g]][g]
        BY <3>3
      <3>5. Wanted * less <= Wanted * more
        <4>1. Wanted \in Nat /\ more - less \in Nat
          BY <3>3, <3>4, SearchAssumption
        <4>2. Wanted * (more - less) \in Nat
          BY <4>1
        <4>3. Wanted * (more - less) = Wanted * more - Wanted * less
          BY <4>1
        <4>4. Wanted * more \in Int /\ Wanted * less \in Int
          BY <4>1
        <4>5. QED
          BY <4>2, <4>3, <4>4
      <3>6. QED
        BY <3>2, <3>4, <3>5
    <2>4. Sum(p) <= Sum(o)
      BY <1>1, <2>3, SumMonotone
    <2>5. QED
      BY <2>2, <2>4
  <1>10. Route(q, StoresOf(best)).km <= Route(q, stores).km
    BY <1>7
  <1>11. Minutes(Route(q, StoresOf(best)).km, Cardinality(StoresOf(best)))
           <= Minutes(Route(q, stores).km, Cardinality(stores))
    <2>1. Route(q, StoresOf(best)).km \in Int /\ Route(q, stores).km \in Int
      <3>1. StoresOf(best) \in SUBSET Shops
        BY <1>1, <1>7
      <3>2. QED
        BY <1>1, <3>1, RouteTyped
    <2>2. IsFiniteSet(stores) /\ Cardinality(stores) \in Nat
      BY <1>1, StoresCount
    <2>3. Cardinality(StoresOf(best)) \in Nat /\ Cardinality(StoresOf(best)) <= Cardinality(stores)
      BY <1>7, <2>2, FS_Subset, FS_CardinalityType
    <2>4. QED
      BY <1>10, <2>1, <2>2, <2>3, MinutesGrow
  <1>12. PICK p, o : p = Plan(q, best) /\ o = Plan(q, buys)
    OBVIOUS
  <1>13. /\ p.stores = StoresOf(best) /\ o.stores = stores
         /\ p.covered = Cardinality(Bought(best)) /\ o.covered = Cardinality(Bought(buys))
         /\ p.total = Sum(Paid(q, best)) /\ o.total = Sum(Paid(q, buys))
         /\ p.km = Route(q, StoresOf(best)).km /\ o.km = Route(q, stores).km
         /\ p.minutes = Minutes(Route(q, StoresOf(best)).km, Cardinality(StoresOf(best)))
         /\ o.minutes = Minutes(Route(q, stores).km, Cardinality(stores))
    BY <1>8, <1>12, PlanIs
  <1>14. NoWorse(p, o)
    BY <1>6, <1>7, <1>8, <1>9, <1>10, <1>11, <1>13 DEF NoWorse
  <1>15. QED
    BY <1>2, <1>12, <1>14

-----------------------------------------------------------------------------
(***************************************************************************)
(* PlanSearch: what the search answers.                                    *)
(***************************************************************************)
Built(q) == {BuildPlan(q, c) : c \in Combinations(q)}
Relatives(q) == {RelativeTo(p, Baseline(Built(q))) : p \in Built(q)}
Valid(q) == {p \in Relatives(q) : Satisfies(q, p)}

LEMMA OptimizeIs ==
  ASSUME NEW q
  PROVE  /\ Optimize(q).done /\ Optimize(q).unavailable \in SUBSET Goods
         /\ Optimize(q).found = (Built(q) # {})
         /\ Built(q) # {} => /\ Optimize(q).baseline = Baseline(Built(q))
                             /\ \A m \in Modes : Optimize(q).plan[m] = Best(m, Valid(q))
  BY DEF Optimize, Built, Relatives, Valid

LEMMA Candidates ==
  ASSUME NEW q \in Question
  PROVE  /\ SelectCandidates(q) \in SUBSET Shops /\ IsFiniteSet(SelectCandidates(q))
         /\ \A s \in SelectCandidates(q) : s \notin q.excluded /\ \E g \in Goods : Sells(q, s, g)
         /\ \A c \in SUBSET SelectCandidates(q) :
                c # {} /\ Cardinality(c) <= q.maxStores => c \in Combinations(q)
         /\ \A c \in Combinations(q) : c \in SUBSET SelectCandidates(q) /\ c # {}
         /\ IsFiniteSet(Combinations(q))
  <1>1. SelectCandidates(q) \in SUBSET Shops
    BY DEF SelectCandidates
  <1>2. IsFiniteSet(SelectCandidates(q))
    BY <1>1, FS_Subset, SearchAssumption
  <1>3. \A s \in SelectCandidates(q) : s \notin q.excluded /\ \E g \in Goods : Sells(q, s, g)
    BY DEF SelectCandidates, Sold, Sells
  <1>4. ASSUME NEW c \in SUBSET SelectCandidates(q), c # {}, Cardinality(c) <= q.maxStores
        PROVE  c \in Combinations(q)
    <2>1. Cardinality(c) \in Nat
      BY <1>1, StoresCount
    <2>2. q.maxStores \in Nat /\ HardShopLimit \in Nat /\ q.maxStores <= HardShopLimit
      BY Asked
    <2>3. Cardinality(c) <= IF q.maxStores < HardShopLimit THEN q.maxStores + 1 ELSE HardShopLimit
      BY <1>4, <2>1, <2>2
    <2>4. QED
      BY <1>4, <2>3 DEF Combinations
  <1>5. \A c \in Combinations(q) : c \in SUBSET SelectCandidates(q) /\ c # {}
    BY DEF Combinations
  <1>6. IsFiniteSet(Combinations(q))
    <2>1. IsFiniteSet(SUBSET SelectCandidates(q))
      BY <1>2, FS_SUBSET
    <2>2. Combinations(q) \in SUBSET (SUBSET SelectCandidates(q))
      BY <1>5
    <2>3. QED
      BY <2>1, <2>2, FS_Subset
  <1>7. QED
    BY <1>1, <1>2, <1>3, <1>4, <1>5, <1>6

\* Every plan that is built goes to stores of its combination and buys something.
LEMMA BuiltOf ==
  ASSUME NEW q \in Question, NEW c \in Combinations(q)
  PROVE  /\ PlanTyped(BuildPlan(q, c))
         /\ BuildPlan(q, c).stores \in SUBSET c /\ BuildPlan(q, c).stores # {}
         /\ 1 <= BuildPlan(q, c).covered
  <1>1. c \in SUBSET SelectCandidates(q) /\ c \in SUBSET Shops /\ c # {}
    BY Candidates
  <1>2. PICK buys \in Buying : BuildPlan(q, c) = Plan(q, buys) /\ CheapestBuys(q, c, buys)
    BY <1>1, BuildBuys
  <1>3. PICK s \in c : TRUE
    BY <1>1
  <1>4. PICK g \in Goods : Sells(q, s, g)
    BY <1>1, Candidates
  <1>5. g \in Bought(buys)
    <2>1. buys[g] \in c
      BY <1>2, <1>3, <1>4 DEF CheapestBuys
    <2>2. buys[g] # 0
      BY <1>1, <2>1, Asked
    <2>3. QED
      BY <2>2 DEF Bought
  <1>6. StoresOf(buys) \in SUBSET c
    BY <1>2 DEF CheapestBuys, StoresOf, Bought
  <1>7. StoresOf(buys) # {}
    BY <1>5 DEF StoresOf
  <1>8. PlanTyped(Plan(q, buys)) /\ IsFiniteSet(Bought(buys)) /\ Cardinality(Bought(buys)) \in Nat
    BY PlanIsTyped
  <1>9. 1 <= Cardinality(Bought(buys))
    BY <1>5, <1>8, FS_EmptySet
  <1>10. PICK p : p = Plan(q, buys)
    OBVIOUS
  <1>11. p.stores = StoresOf(buys) /\ p.covered = Cardinality(Bought(buys))
    BY <1>10, PlanIs
  <1>12. QED
    BY <1>2, <1>6, <1>7, <1>8, <1>9, <1>10, <1>11

LEMMA BuiltAre ==
  ASSUME NEW q \in Question
  PROVE  /\ IsFiniteSet(Built(q))
         /\ \A p \in Built(q) : /\ PlanTyped(p) /\ 1 <= p.covered /\ p.stores # {}
                                /\ p.stores \in SUBSET SelectCandidates(q)
  <1>1. PICK f : f = [c \in Combinations(q) |-> BuildPlan(q, c)]
    OBVIOUS
  <1>2. f = [c \in Combinations(q) |-> f[c]]
    BY <1>1
  <1>3. IsFiniteSet({f[c] : c \in Combinations(q)})
    BY <1>2, Candidates, ImageIsFinite
  <1>4. Built(q) = {f[c] : c \in Combinations(q)}
    BY <1>1 DEF Built
  <1>5. ASSUME NEW p \in Built(q)
        PROVE  /\ PlanTyped(p) /\ 1 <= p.covered /\ p.stores # {}
               /\ p.stores \in SUBSET SelectCandidates(q)
    <2>1. PICK c \in Combinations(q) : p = BuildPlan(q, c)
      BY DEF Built
    <2>2. c \in SUBSET SelectCandidates(q)
      BY Candidates
    <2>3. QED
      BY <2>1, <2>2, BuiltOf
  <1>6. QED
    BY <1>3, <1>4, <1>5

\* If anything is on sale there is a trip to one store to compare with.
LEMMA BaselineIs ==
  ASSUME NEW q \in Question, Built(q) # {}
  PROVE  Baseline(Built(q)) \in Built(q) /\ Cardinality(Baseline(Built(q)).stores) = 1
  <1>1. PICK c \in Combinations(q) : TRUE
    BY DEF Built
  <1>2. PICK s \in c : TRUE
    BY Candidates
  <1>3. {s} \in SUBSET SelectCandidates(q)
    BY Candidates
  <1>4. Cardinality({s}) = 1 /\ IsFiniteSet({s})
    BY FS_Singleton
  <1>5. {s} \in Combinations(q)
    <2>1. q.maxStores \in Nat /\ 1 <= q.maxStores
      BY Asked
    <2>2. Cardinality({s}) <= q.maxStores
      BY <1>4, <2>1
    <2>3. QED
      BY <1>3, <2>2, Candidates
  <1>6. PICK plan : plan = BuildPlan(q, {s})
    OBVIOUS
  <1>7. plan \in Built(q) /\ plan.stores = {s}
    <2>1. PICK d \in Combinations(q) : d = {s}
      BY <1>5
    <2>2. plan = BuildPlan(q, d)
      BY <1>6, <2>1
    <2>3. plan.stores \in SUBSET d /\ plan.stores # {}
      BY <2>2, BuiltOf
    <2>4. plan \in Built(q)
      BY <2>2 DEF Built
    <2>5. QED
      BY <2>1, <2>3, <2>4
  <1>8. PICK singles : singles = {p \in Built(q) : Cardinality(p.stores) = 1}
    OBVIOUS
  <1>9. singles # {} /\ singles \in SUBSET Built(q) /\ IsFiniteSet(singles)
    BY <1>4, <1>7, <1>8, BuiltAre, FS_Subset
  <1>10. PICK key : key = [p \in singles |-> <<-p.covered, p.km, p.total>> \o p.order]
    OBVIOUS
  <1>11. key \in [singles -> Keys]
    <2>1. ASSUME NEW p \in singles PROVE <<-p.covered, p.km, p.total>> \o p.order \in Keys
      <3>1. PlanTyped(p)
        BY <1>9, BuiltAre
      <3>2. <<-p.covered, p.km, p.total>> \in Keys
        <4>1. Cardinality(Goods) \in Nat
          BY FS_CardinalityType, SearchAssumption
        <4>2. -p.covered \in Int
          BY <3>1, <4>1 DEF PlanTyped
        <4>3. QED
          BY <3>1, <4>2 DEF PlanTyped, Keys
      <3>3. p.order \in Keys
        BY <3>1 DEF PlanTyped
      <3>4. QED
        BY <3>2, <3>3, ConcatProperties DEF Keys
    <2>2. QED
      BY <1>10, <2>1
  <1>12. \E p \in singles : \A o \in singles :
            ~Before(<<-o.covered, o.km, o.total>> \o o.order, <<-p.covered, p.km, p.total>> \o p.order)
    <2>1. PICK p \in singles : \A o \in singles : ~Before(key[o], key[p])
      BY <1>9, <1>11, FirstExists
    <2>2. QED
      BY <1>10, <2>1
  <1>13. First(singles, LAMBDA p : <<-p.covered, p.km, p.total>> \o p.order) \in singles
    BY <1>12, Zenon DEF First
  <1>14. Baseline(Built(q)) \in singles
    BY <1>8, <1>13 DEF Baseline
  <1>15. QED
    BY <1>8, <1>14

\* The trip that a recommendation would replace is within any limits.
LEMMA BaselineIsValid ==
  ASSUME NEW q \in Question, Built(q) # {}
  PROVE  Valid(q) # {}
  <1>1. PICK p : p = Baseline(Built(q))
    OBVIOUS
  <1>2. p \in Built(q) /\ Cardinality(p.stores) = 1 /\ PlanTyped(p) /\ p.stores \in SUBSET SelectCandidates(q)
    BY <1>1, BaselineIs, BuiltAre
  <1>3. PICK r : r = RelativeTo(p, p)
    OBVIOUS
  <1>4. r.stores = p.stores /\ r.extraKm = 0 /\ r.extraMinutes = 0
    BY <1>2, <1>3 DEF RelativeTo, PlanTyped, AtLeast
  <1>5. /\ q.maxStores \in Nat /\ 1 <= q.maxStores /\ q.maxKm \in Nat /\ q.maxMinutes \in Nat
        /\ p.stores \cap q.excluded = {}
    BY <1>2, Asked, Candidates
  <1>6. Satisfies(q, r)
    BY <1>2, <1>4, <1>5, SatisfiesIs
  <1>7. r \in Valid(q)
    BY <1>1, <1>2, <1>3, <1>6 DEF Valid, Relatives
  <1>8. QED
    BY <1>7

\* A recommendation is within the limits, and no plan within them ranks better.
LEMMA BestIs ==
  ASSUME NEW q \in Question, Built(q) # {}, NEW mode \in Modes
  PROVE  /\ \A p \in Valid(q) : RelativeTyped(p) /\ 1 <= p.covered
         /\ Best(mode, Valid(q)) \in Valid(q)
         /\ \A p \in Valid(q) :
                ~Before(ComparedAs(mode, p), ComparedAs(mode, Best(mode, Valid(q))))
  <1>1. PICK base : base = Baseline(Built(q))
    OBVIOUS
  <1>2. PlanTyped(base)
    BY <1>1, BaselineIs, BuiltAre
  <1>3. ASSUME NEW p \in Valid(q) PROVE RelativeTyped(p) /\ 1 <= p.covered
    <2>1. PICK o \in Built(q) : p = RelativeTo(o, base)
      BY <1>1 DEF Valid, Relatives
    <2>2. PlanTyped(o) /\ 1 <= o.covered
      BY BuiltAre
    <2>3. p.covered = o.covered
      BY <2>1 DEF RelativeTo
    <2>4. QED
      BY <1>2, <2>1, <2>2, <2>3, RelativeIsTyped
  <1>4. IsFiniteSet(Valid(q))
    <2>1. PICK f : f = [p \in Built(q) |-> RelativeTo(p, base)]
      OBVIOUS
    <2>2. f = [p \in Built(q) |-> f[p]]
      BY <2>1
    <2>3. IsFiniteSet({f[p] : p \in Built(q)})
      BY <2>2, BuiltAre, ImageIsFinite
    <2>4. Valid(q) \in SUBSET {f[p] : p \in Built(q)}
      BY <1>1, <2>1 DEF Valid, Relatives
    <2>5. QED
      BY <2>3, <2>4, FS_Subset
  <1>5. PICK key : key = [p \in Valid(q) |-> ComparedAs(mode, p)]
    OBVIOUS
  <1>6. key \in [Valid(q) -> Keys]
    BY <1>3, <1>5, RanksAreKeys
  <1>7. \E p \in Valid(q) : \A o \in Valid(q) : ~Before(ComparedAs(mode, o), ComparedAs(mode, p))
    <2>1. PICK p \in Valid(q) : \A o \in Valid(q) : ~Before(key[o], key[p])
      BY <1>4, <1>6, BaselineIsValid, FirstExists
    <2>2. QED
      BY <1>5, <2>1
  <1>8. PICK best : best = Best(mode, Valid(q))
    OBVIOUS
  <1>9. best \in Valid(q) /\ \A o \in Valid(q) : ~Before(ComparedAs(mode, o), ComparedAs(mode, best))
    BY <1>7, <1>8, Zenon DEF Best, First
  <1>10. QED
    BY <1>3, <1>8, <1>9

\* What is answered is what the question asks for.
SearchHolds == question \in Question /\ (result = NoResult \/ result = Optimize(question))

LEMMA SearchIsTyped ==
  ASSUME SearchHolds
  PROVE  SearchTypeOK
  <1>1. PICK q \in Question : q = question
    BY DEF SearchHolds
  <1>2. CASE result = NoResult
    BY <1>1, <1>2 DEF NoResult, SearchTypeOK
  <1>3. CASE result = Optimize(q)
    <2>1. result.unavailable \in SUBSET Goods
      BY <1>3, OptimizeIs
    <2>2. ASSUME result.found, NEW m \in Modes
          PROVE  result.plan[m].stores \subseteq Shops /\ result.plan[m].covered \in 1 .. Cardinality(Goods)
      <3>1. Built(q) # {} /\ result.plan[m] = Best(m, Valid(q))
        BY <1>3, <2>2, OptimizeIs
      <3>2. RelativeTyped(Best(m, Valid(q))) /\ 1 <= Best(m, Valid(q)).covered
        BY <3>1, BestIs
      <3>3. Cardinality(Goods) \in Nat
        BY FS_CardinalityType, SearchAssumption
      <3>4. QED
        BY <3>1, <3>2, <3>3 DEF RelativeTyped, PlanTyped
    <2>3. QED
      BY <1>1, <2>1, <2>2 DEF SearchTypeOK
  <1>4. QED
    BY <1>1, <1>2, <1>3 DEF SearchHolds

LEMMA SearchFindsTheBest ==
  ASSUME SearchHolds
  PROVE  NothingBetter
  <1>1. PICK q \in Question : q = question
    BY DEF SearchHolds
  <1>2. SUFFICES ASSUME result.done, result.found, NEW way \in Ways, NEW mode \in Modes,
                        way.covered > 0, Satisfies(q, way), NoStopShortens(way),
                        Before(<<-way.covered>> \o Measure(mode, way),
                               <<-result.plan[mode].covered>> \o Measure(mode, result.plan[mode]))
                 PROVE  FALSE
    BY <1>1 DEF NothingBetter
  <1>3. result = Optimize(q)
    BY <1>1, <1>2 DEF SearchHolds, NoResult
  <1>4. PICK base : base = Baseline(Built(q))
    OBVIOUS
  <1>5. PICK best : best = Best(mode, Valid(q))
    OBVIOUS
  <1>6. Built(q) # {} /\ result.baseline = base /\ result.plan[mode] = best
    BY <1>2, <1>3, <1>4, <1>5, OptimizeIs
  <1>7. PlanTyped(base)
    BY <1>4, <1>6, BaselineIs, BuiltAre
  <1>8. PICK buys \in Shopping : way = RelativeTo(Plan(q, buys), base)
    BY <1>1, <1>2, <1>6 DEF Ways
  <1>9. /\ buys \in [Goods -> SelectCandidates(q) \cup {0}]
        /\ \A g \in Goods :
              IF buys[g] = 0 THEN \A h \in Goods : buys[h] # 0 => q.price[buys[h]][g] = Unsold
              ELSE q.price[buys[g]][g] # Unsold
    BY <1>1, <1>8 DEF Shopping
  <1>10. buys \in Buying
    <2>1. SelectCandidates(q) \in SUBSET Shops
      BY Candidates
    <2>2. QED
      BY <1>9, <2>1 DEF Buying
  <1>11. PICK plan : plan = Plan(q, buys)
    OBVIOUS
  <1>12. /\ PlanTyped(plan) /\ IsFiniteSet(Bought(buys))
         /\ plan.stores = StoresOf(buys) /\ plan.covered = Cardinality(Bought(buys))
         /\ plan.km = Route(q, StoresOf(buys)).km
    BY <1>10, <1>11, PlanIs, PlanIsTyped
  <1>13. way.stores = plan.stores /\ way.covered = plan.covered /\ way.km = plan.km
    BY <1>8, <1>11 DEF RelativeTo
  <1>14. StoresOf(buys) # {}
    <2>1. Cardinality(Bought(buys)) > 0
      BY <1>2, <1>12, <1>13
    <2>2. Bought(buys) # {}
      BY <2>1, FS_EmptySet
    <2>3. QED
      BY <2>2 DEF StoresOf
  <1>15. \A stops \in SUBSET StoresOf(buys) : Route(q, stops).km <= Route(q, StoresOf(buys)).km
    BY <1>1, <1>2, <1>12, <1>13 DEF NoStopShortens
  <1>16. StoresOf(buys) \in Combinations(q)
    <2>1. StoresOf(buys) \in SUBSET SelectCandidates(q)
      BY <1>9 DEF StoresOf, Bought
    <2>2. ~(Cardinality(StoresOf(buys)) > q.maxStores)
      BY <1>2, <1>12, <1>13, SatisfiesIs
    <2>3. Cardinality(StoresOf(buys)) \in Nat /\ q.maxStores \in Nat
      BY <1>10, Asked, PlanIsTyped
    <2>4. QED
      BY <1>14, <2>1, <2>2, <2>3, Candidates
  <1>17. PICK built : built = BuildPlan(q, StoresOf(buys))
    OBVIOUS
  <1>18. NoWorse(built, plan)
    BY <1>9, <1>10, <1>11, <1>14, <1>15, <1>17, PlanOfThoseStores
  <1>19. built \in Built(q) /\ PlanTyped(built)
    <2>1. built \in Built(q)
      BY <1>16, <1>17 DEF Built
    <2>2. QED
      BY <2>1, BuiltAre
  <1>20. PICK found : found = RelativeTo(built, base)
    OBVIOUS
  <1>21. found \in Valid(q)
    <2>1. Satisfies(q, found)
      BY <1>2, <1>7, <1>8, <1>11, <1>12, <1>18, <1>19, <1>20, NoWorseSatisfies
    <2>2. found \in Relatives(q)
      BY <1>4, <1>19, <1>20 DEF Relatives
    <2>3. QED
      BY <2>1, <2>2 DEF Valid
  <1>22. /\ RelativeTyped(found) /\ RelativeTyped(best)
         /\ ~Before(ComparedAs(mode, found), ComparedAs(mode, best))
    BY <1>5, <1>6, <1>21, BestIs
  <1>23. Before(Rank(mode, found), Rank(mode, best))
    <2>1. PICK k \in Keys : k = <<-best.covered>> \o Measure(mode, best)
      BY <1>22, RanksAreKeys
    <2>2. PICK o : o = RelativeTo(plan, base)
      OBVIOUS
    <2>3. Before(<<-o.covered>> \o Measure(mode, o), k)
      BY <1>2, <1>6, <1>8, <1>11, <2>1, <2>2
    <2>4. Before(<<-found.covered>> \o Measure(mode, found), k)
      BY <1>7, <1>12, <1>18, <1>19, <1>20, <2>2, <2>3, NoWorseRanks
    <2>5. QED
      BY <2>1, <2>4 DEF Rank
  <1>24. Before(ComparedAs(mode, found), ComparedAs(mode, best))
    <2>1. PICK u \in Keys, v \in Keys : u = Rank(mode, found) /\ v = Rank(mode, best)
      BY <1>22, RanksAreKeys
    <2>2. Cardinality(found.stores) \in Nat /\ Cardinality(best.stores) \in Nat
      BY <1>22, StoresCount DEF RelativeTyped, PlanTyped
    <2>3. PICK s, t : /\ s = <<Cardinality(found.stores), found.total, found.km>>
                      /\ t = <<Cardinality(best.stores), best.total, best.km>>
      OBVIOUS
    <2>4. s \in Keys /\ t \in Keys
      BY <1>22, <2>2, <2>3 DEF RelativeTyped, PlanTyped, Keys
    <2>5. u \o s \in Keys /\ v \o t \in Keys /\ Before(u \o s, v \o t)
      BY <1>23, <2>1, <2>4, BeforeLonger
    <2>6. found.order \in Keys /\ best.order \in Keys
      BY <1>22 DEF RelativeTyped, PlanTyped
    <2>7. Before((u \o s) \o found.order, (v \o t) \o best.order)
      BY <2>5, <2>6, BeforeLonger
    <2>8. QED
      BY <2>1, <2>3, <2>7 DEF ComparedAs
  <1>25. QED
    BY <1>22, <1>24

\* The search answers in types and, of the ways to buy what the shops sell
\* within the shopper's limits, recommends one that none of the others beats.
THEOREM SearchFinds == SearchSpec => [](SearchTypeOK /\ NothingBetter)
  <1>1. SearchInit => SearchHolds
    BY DEF SearchInit, SearchHolds
  <1>2. SearchHolds /\ [Search]_searchVars => SearchHolds'
    BY DEF SearchHolds, Search, searchVars
  <1>3. SearchHolds => SearchTypeOK /\ NothingBetter
    BY SearchIsTyped, SearchFindsTheBest
  <1>4. QED
    BY <1>1, <1>2, <1>3, PTL DEF SearchSpec

-----------------------------------------------------------------------------
(***************************************************************************)
(* The modules together, as they are checked: whichever of them moves.     *)
(***************************************************************************)
\* What alerts, reports and the days' history do together is what each does
\* alone: a step of one leaves the state of the others.
THEOREM ShoppersAreTheirParts == Spec => AlertsSpec /\ IngestSpec /\ DailySpec
  <1>1. Init => AlertsInit /\ IngestInit /\ DailyInit
    BY DEF Init
  <1>2. [Next]_vars => [AlertsNext]_alertVars /\ [IngestNext]_ingestVars /\ [DailyNext]_dailyVars
    BY DEF Next, vars
  <1>3. QED
    BY <1>1, <1>2, PTL DEF Spec, AlertsSpec, IngestSpec, DailySpec

\* The search is asked something only where it is looked at.
SearchRests == IF focus = "search" THEN SearchHolds ELSE result = NoResult

LEMMA SearchAmongOthers ==
    Spec => []((focus = "search" => SearchTypeOK) /\ NothingBetter)
  <1>1. Init => SearchRests
    BY DEF Init, SearchRests, SearchHolds
  <1>2. SearchRests /\ [Next]_vars => SearchRests'
    <2>1. SUFFICES ASSUME SearchRests, [Next]_vars PROVE SearchRests'
      OBVIOUS
    <2>2. UNCHANGED focus /\ (UNCHANGED searchVars \/ (focus = "search" /\ Search))
      BY <2>1 DEF Next, vars
    <2>3. QED
      BY <2>1, <2>2 DEF SearchRests, SearchHolds, Search, searchVars
  <1>3. SearchRests => (focus = "search" => SearchTypeOK) /\ NothingBetter
    <2>1. CASE focus = "search"
      BY <2>1, SearchIsTyped, SearchFindsTheBest DEF SearchRests
    <2>2. CASE focus # "search"
      BY <2>2 DEF SearchRests, NoResult, NothingBetter
    <2>3. QED
      BY <2>1, <2>2
  <1>4. QED
    BY <1>1, <1>2, <1>3, PTL DEF Spec

\* Whichever of them moves: alerts speak only with news, no one's reports
\* outnumber the limit, a report is answered as its author's, a confirmed price
\* stays confirmed, a day's row is what the day yields, messages wait for the
\* end of the quiet hours and no longer, and no way of buying within the limits
\* beats a recommendation.
THEOREM ShoppersAreSafe ==
    Spec => [](/\ SpeaksOnlyWithNews /\ HardLimitHolds /\ AnswersAreTheCallers
               /\ ConfirmationsLast /\ DayIsTrue /\ HeldUntilQuietEnds /\ NothingBetter)
  BY ShoppersAreTheirParts, AlertsSpeakOnlyWithNews, HardLimitKept, AuthorsAnswered,
     ConfirmationsKept, DaysAreTrue, HeldUntilQuiet, SearchAmongOthers, PTL

\* The type invariant of the modules together.
THEOREM ShoppersKeepTypes == Spec => []TypeOK
  <1>1. AlertsTypeOK /\ IngestTypeOK /\ DailyTypeOK /\ (focus = "search" => SearchTypeOK) => TypeOK
    BY DEF TypeOK
  <1>2. QED
    BY <1>1, ShoppersAreTheirParts, AlertsAreTyped, ReportsTyped, DailyIsTyped, SearchAmongOthers, PTL
=============================================================================
