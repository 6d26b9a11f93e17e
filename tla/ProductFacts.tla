------------------------------ MODULE ProductFacts ------------------------------
(***************************************************************************)
(* What Open Food Facts knows of a scanned code, asked by shoppers who are *)
(* about to add a product: the answers kept in Redis, the turns that stay  *)
(* under the source's limit and the requests that take them.               *)
(***************************************************************************)
EXTENDS Integers, Sequences

CONSTANTS
    Scans,          \* lookups under way
    Scanned,        \* valid barcodes
    MaxPerMinute,   \* MAX_PER_MINUTE
    Minute,         \* in ticks of the clock
    MaxTicks        \* bound on the clock

ASSUME FactsAssumption ==
    /\ MaxPerMinute \in Nat \ {0} /\ Minute \in Nat /\ MaxTicks \in Nat

VARIABLES
    ticks,          \* the clock
    recentTurns,    \* OpenFoodFactsSource.recent
    sent,           \* when each request was sent, all of them
    kept,           \* for each code, what Redis keeps of it
    heard,          \* for each code, what the source said of it last
    scan,           \* lookups on their way
    crossed         \* codes two lookups asked for at once, or Redis failed to read

factsVars == <<ticks, recentTurns, sent, kept, heard, scan, crossed>>

\* What find answers: the facts, or null.
ProductFactsAnswer == {"FOUND", "MISSING"}
NoScan == [pc |-> "new"]

FactsTypeOK ==
    /\ ticks \in 0 .. MaxTicks
    /\ recentTurns \in Seq(0 .. ticks) /\ sent \in Seq(0 .. ticks)
    /\ kept \in [Scanned -> ProductFactsAnswer \cup {"NOTHING"}]
    /\ heard \in [Scanned -> ProductFactsAnswer \cup {"NOTHING"}]
    /\ \A s \in Scans : /\ scan[s].pc \in {"new", "read", "ask", "keep"}
                        /\ scan[s].pc # "new" => scan[s].code \in Scanned
                        /\ scan[s].pc = "keep" => scan[s].facts \in ProductFactsAnswer
    /\ crossed \subseteq Scanned

FactsInit ==
    /\ ticks = 0
    /\ recentTurns = <<>> /\ sent = <<>>
    /\ kept = [c \in Scanned |-> "NOTHING"] /\ heard = [c \in Scanned |-> "NOTHING"]
    /\ scan = [s \in Scans |-> NoScan]
    /\ crossed = {}

Tells(s) == scan' = [scan EXCEPT ![s] = NoScan]
Asking(c) == {s \in Scans : scan[s].pc \in {"ask", "keep"} /\ scan[s].code = c}

\* A code of ours is answered from the catalog.
LookUpBarcode(s, c) ==
    /\ scan[s].pc = "new"
    /\ scan' = [scan EXCEPT ![s] = [pc |-> "read", code |-> c]]
    /\ UNCHANGED <<ticks, recentTurns, sent, kept, heard, crossed>>

\* Turns of more than a minute ago are shifted out, from the front to the
\* first that is not.
IsPast(t) == t < ticks - Minute
PastTurns ==
    CHOOSE n \in 0 .. Len(recentTurns) :
        /\ \A i \in 1 .. n : IsPast(recentTurns[i])
        /\ n = Len(recentTurns) \/ ~IsPast(recentTurns[n + 1])
RecentTurns == SubSeq(recentTurns, PastTurns + 1, Len(recentTurns))

\* takeTurn: refuses rather than exceed the limit.
TakeTurn(s, c) ==
    IF Len(RecentTurns) >= MaxPerMinute
    THEN recentTurns' = RecentTurns /\ Tells(s) /\ UNCHANGED sent
    ELSE /\ recentTurns' = Append(RecentTurns, ticks)
         /\ sent' = Append(sent, ticks)
         /\ scan' = [scan EXCEPT ![s] = [pc |-> "ask", code |-> c]]

\* Redis being down only means asking again; the turn is taken with no await
\* in between.
ReadKept(s) ==
    /\ scan[s].pc = "read"
    /\ LET c == scan[s].code IN
       \/ /\ kept[c] # "NOTHING" /\ Tells(s)
          /\ UNCHANGED <<recentTurns, sent, crossed>>
       \/ /\ TakeTurn(s, c)
          /\ crossed' = IF kept[c] # "NOTHING" \/ Asking(c) # {} THEN crossed \cup {c} ELSE crossed
    /\ UNCHANGED <<ticks, kept, heard>>

\* Late, or an error: there is nothing to suggest, and nothing is kept.
SourceFails(s) ==
    /\ scan[s].pc = "ask" /\ Tells(s)
    /\ UNCHANGED <<ticks, recentTurns, sent, kept, heard, crossed>>

SourceAnswers(s, facts) ==
    /\ scan[s].pc = "ask"
    /\ heard' = [heard EXCEPT ![scan[s].code] = facts]
    /\ scan' = [scan EXCEPT ![s] = [pc |-> "keep", code |-> scan[s].code, facts |-> facts]]
    /\ UNCHANGED <<ticks, recentTurns, sent, kept, crossed>>

KeepFacts(s) ==
    /\ scan[s].pc = "keep"
    /\ \E fails \in BOOLEAN :
         kept' = IF fails THEN kept ELSE [kept EXCEPT ![scan[s].code] = scan[s].facts]
    /\ Tells(s)
    /\ UNCHANGED <<ticks, recentTurns, sent, heard, crossed>>

\* Redis lets an answer go: a week after it was kept, or a day if there was none.
Lapse(c) ==
    /\ kept' = [kept EXCEPT ![c] = "NOTHING"]
    /\ UNCHANGED <<ticks, recentTurns, sent, heard, scan, crossed>>

Tick ==
    /\ ticks < MaxTicks /\ ticks' = ticks + 1
    /\ UNCHANGED <<recentTurns, sent, kept, heard, scan, crossed>>

ScanStep(s) ==
    \/ ReadKept(s) \/ SourceFails(s) \/ KeepFacts(s)
    \/ \E facts \in ProductFactsAnswer : SourceAnswers(s, facts)

FactsNext ==
    \/ \E s \in Scans : ScanStep(s) \/ \E c \in Scanned : LookUpBarcode(s, c)
    \/ \E c \in Scanned : Lapse(c)
    \/ Tick

FactsSpec == FactsInit /\ [][FactsNext]_factsVars

-----------------------------------------------------------------------------
(***************************************************************************)
(* Properties.                                                             *)
(***************************************************************************)
\* Never more than the limit in any minute: of requests as many places apart as
\* the limit, the later was sent more than a minute after the earlier.
RateIsKept ==
    \A i, j \in 1 .. Len(sent) : j >= i + MaxPerMinute => sent[j] - sent[i] > Minute

\* What is kept of a code is the last thing the source said of it, unless two
\* asked at once or Redis failed to say what it kept.
LastAnswerIsKept ==
    \A c \in Scanned \ crossed : kept[c] \in {"NOTHING", heard[c]}
=============================================================================
