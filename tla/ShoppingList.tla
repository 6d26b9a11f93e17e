----------------------------- MODULE ShoppingList -----------------------------
(***************************************************************************)
(* One list of one shopper, edited from several devices that retry: its    *)
(* items, the copy that duplicating makes, and the trips started from it.  *)
(* A request loads the list, checks what it loaded, and then writes.       *)
(***************************************************************************)
EXTENDS Integers, Sequences, FiniteSets

CONSTANTS
    Requests,       \* requests under way
    ItemIds,        \* ids a client gives its items
    TripIds,        \* ids a client gives its trips
    NoId,
    MaxItems,       \* MAX_ITEMS_PER_LIST
    MaxTrips,       \* bound on the trips
    MaxTurns        \* bound on the requests served

ASSUME ListAssumption ==
    /\ NoId \notin ItemIds \cup TripIds /\ IsFiniteSet(ItemIds)
    /\ {MaxItems, MaxTrips, MaxTurns} \subseteq Nat

VARIABLES
    list,           \* the row in shopping_lists: there, and the items' positions
    copy,           \* the items of the list duplicated from it
    trip,           \* shopping_sessions, in the order they were started
    request,
    turns

listVars == <<list, copy, trip, request, turns>>

\* A position of 0 is no item; POSITION_STEP is 1.
NoItems == [i \in ItemIds |-> 0]
Items(l) == {i \in ItemIds : l.at[i] # 0}
Ready == [pc |-> "ready", op |-> "none", id |-> NoId, seen |-> NoItems, last |-> 0,
          order |-> NoItems, answer |-> 0]

ListTypeOK ==
    /\ list \in [there : BOOLEAN, at : [ItemIds -> Nat]]
    /\ copy = NoId \/ copy \subseteq ItemIds
    /\ Len(trip) <= MaxTrips
    /\ \A n \in DOMAIN trip :
         trip[n] \in [id : TripIds \cup {NoId}, open : BOOLEAN, ofList : BOOLEAN,
                      lines : SUBSET ItemIds]
    /\ \A r \in Requests :
         /\ request[r].pc \in {"ready", "load", "replay", "max", "insert", "write", "start"}
         /\ request[r].answer \in 0 .. MaxTrips
    /\ turns \in 0 .. MaxTurns

\* A list to which nothing, or one item, has been added.
ListInit ==
    /\ \E here \in {NoItems} \cup {[NoItems EXCEPT ![i] = 1] : i \in ItemIds} :
         list = [there |-> TRUE, at |-> here]
    /\ copy = NoId
    /\ trip = <<>>
    /\ request = [r \in Requests |-> Ready]
    /\ turns = 0

Loaded(r) == {i \in ItemIds : request[r].seen[i] # 0}
Move(r, pc) == request' = [request EXCEPT ![r].pc = pc]
\* The request ends: answered (with a trip, when it started one) or refused.
End(r, n) == request' = [request EXCEPT ![r] = [Ready EXCEPT !.answer = n]]

Ask(r, op, id, order) ==
    /\ request[r].pc = "ready" /\ turns < MaxTurns
    /\ turns' = turns + 1
    /\ request' = [request EXCEPT ![r] =
         [Ready EXCEPT !.pc = IF op = "start" /\ id # NoId THEN "replay" ELSE "load",
                       !.op = op, !.id = id, !.order = order]]
    /\ UNCHANGED <<list, copy, trip>>

\* loadOwned, and what each request checks of the list it loaded: an add whose
\* item is there already is answered, a full list takes no other, a removal of
\* what is gone is done, an order must name every item, a trip needs items.
LoadList(r) ==
    /\ request[r].pc = "load"
    /\ LET op == request[r].op
           id == request[r].id
           here == Items(list)
           next == CASE op = "add" -> IF id \in here \/ Cardinality(here) >= MaxItems
                                      THEN "end" ELSE "max"
                     [] op = "update" -> IF id \in here THEN "write" ELSE "end"
                     [] op = "remove" -> IF id \in here THEN "write" ELSE "end"
                     [] op = "reorder" -> IF {i \in ItemIds : request[r].order[i] # 0} = here
                                          THEN "write" ELSE "end"
                     [] op = "start" -> IF here = {} THEN "end" ELSE "start"
                     [] OTHER -> "write" IN
         IF ~list.there \/ next = "end" THEN End(r, 0)
         ELSE request' = [request EXCEPT ![r].pc = next, ![r].seen = list.at]
    /\ UNCHANGED <<list, copy, trip, turns>>

-----------------------------------------------------------------------------
\* addItem: the greatest position is read, then the item is created after it,
\* by whoever gets there first with its id.
ReadLastPosition(r) ==
    /\ request[r].pc = "max"
    /\ IF request[r].id \in Items(list) THEN End(r, 0)
       ELSE request' = [request EXCEPT ![r].pc = "insert",
                          ![r].last = CHOOSE p \in {0} \cup {list.at[i] : i \in ItemIds} :
                                        \A i \in ItemIds : list.at[i] <= p]
    /\ UNCHANGED <<list, copy, trip, turns>>

InsertItem(r) ==
    /\ request[r].pc = "insert"
    /\ IF list.there /\ request[r].id \notin Items(list)
       THEN list' = [list EXCEPT !.at[request[r].id] = request[r].last + 1]
       ELSE UNCHANGED list
    /\ End(r, 0)
    /\ UNCHANGED <<copy, trip, turns>>

\* removeItem, reorderItems, delete and create of the copy; updateItem changes
\* nothing the list is about.
Write(r) ==
    /\ request[r].pc = "write"
    /\ list' = CASE request[r].op = "remove" -> [list EXCEPT !.at[request[r].id] = 0]
                 [] request[r].op = "reorder" ->
                      [list EXCEPT !.at = [i \in ItemIds |->
                         IF list.at[i] # 0 /\ request[r].order[i] # 0
                         THEN request[r].order[i] ELSE list.at[i]]]
                 [] request[r].op = "delete" -> [there |-> FALSE, at |-> NoItems]
                 [] OTHER -> list
    /\ copy' = IF request[r].op = "duplicate" /\ copy = NoId THEN Loaded(r) ELSE copy
    /\ trip' = IF request[r].op = "delete"
               THEN [n \in DOMAIN trip |-> [trip[n] EXCEPT !.ofList = FALSE]] ELSE trip
    /\ End(r, 0)
    /\ UNCHANGED turns

-----------------------------------------------------------------------------
SameTrip(r) == {n \in DOMAIN trip : request[r].id # NoId /\ trip[n].id = request[r].id}

\* A start with an id that names a trip is answered with it, also when the
\* list is gone.
ReplayStart(r) ==
    /\ request[r].pc = "replay"
    /\ \/ \E n \in SameTrip(r) : End(r, n)
       \/ SameTrip(r) = {} /\ Move(r, "load")
    /\ UNCHANGED <<list, copy, trip, turns>>

OpenTrips == {n \in DOMAIN trip : trip[n].open /\ trip[n].ofList}

NewTrip(r) == [id |-> request[r].id, open |-> TRUE, ofList |-> TRUE, lines |-> Loaded(r)]

\* What is open is not asked for.
StartUnlocked(r) ==
    /\ request[r].pc = "start"
    /\ \/ /\ SameTrip(r) = {} /\ list.there /\ Len(trip) < MaxTrips
          /\ trip' = Append(trip, NewTrip(r))
          /\ End(r, Len(trip) + 1)
       \/ \E n \in SameTrip(r) : End(r, n) /\ UNCHANGED trip
       \/ ~list.there /\ End(r, 0) /\ UNCHANGED trip
    /\ UNCHANGED <<list, copy, turns>>

\* Under the list's lock: the open trip if there is one, a new one otherwise;
\* an id taken meanwhile is answered with its trip, and a list deleted
\* meanwhile takes no trip.
StartTrip(r) ==
    /\ request[r].pc = "start"
    /\ \/ \E n \in OpenTrips : End(r, n) /\ UNCHANGED trip
       \/ /\ OpenTrips = {} /\ SameTrip(r) = {} /\ list.there /\ Len(trip) < MaxTrips
          /\ trip' = Append(trip, NewTrip(r))
          /\ End(r, Len(trip) + 1)
       \/ OpenTrips = {} /\ \E n \in SameTrip(r) : End(r, n) /\ UNCHANGED trip
       \/ OpenTrips = {} /\ ~list.there /\ End(r, 0) /\ UNCHANGED trip
    /\ UNCHANGED <<list, copy, turns>>

\* The trip is completed or abandoned.
EndTrip(n) ==
    /\ trip[n].open
    /\ trip' = [trip EXCEPT ![n].open = FALSE]
    /\ UNCHANGED <<list, copy, request, turns>>

-----------------------------------------------------------------------------
Orders == {o \in [ItemIds -> 0 .. Cardinality(ItemIds)] :
             LET named == {i \in ItemIds : o[i] # 0} IN
             named # {} /\ {o[i] : i \in named} = 1 .. Cardinality(named)}

ListNext ==
    \/ \E r \in Requests :
         \/ LoadList(r) \/ ReadLastPosition(r) \/ InsertItem(r) \/ Write(r)
         \/ ReplayStart(r) \/ StartTrip(r)
         \/ \E i \in ItemIds, op \in {"add", "update", "remove"} : Ask(r, op, i, NoItems)
         \/ \E o \in Orders : Ask(r, "reorder", NoId, o)
         \/ \E op \in {"duplicate", "delete"} : Ask(r, op, NoId, NoItems)
         \/ \E id \in TripIds \cup {NoId} : Ask(r, "start", id, NoItems)
    \/ \E n \in DOMAIN trip : EndTrip(n)

ListSpec == ListInit /\ [][ListNext]_listVars

-----------------------------------------------------------------------------
(***************************************************************************)
(* Properties.                                                             *)
(***************************************************************************)
\* "A shopper tapping Start on a flaky connection ends up with one trip, not
\* several": whatever is retried, ended, edited or deleted in between, a list
\* has one open trip at most and an id names one trip.
OneOpenTrip ==
    /\ Cardinality(OpenTrips) <= 1
    /\ \A m, n \in DOMAIN trip : m # n /\ trip[m].id = trip[n].id => trip[m].id = NoId
=============================================================================
