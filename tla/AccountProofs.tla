---------------------------- MODULE AccountProofs ----------------------------
(***************************************************************************)
(* Proofs about accounts and what is kept beside the shared catalog:       *)
(* accounts, their sessions and reset codes (Accounts), the settings of a  *)
(* shopper (Settings), the tree of categories (CategoryTree), the facts of *)
(* a barcode (ProductFacts) and the reading of a supermarket's feed        *)
(* (SourceFeed).  The modules share no state.                              *)
(***************************************************************************)
EXTENDS Accounts, Settings, CategoryTree, ProductFacts, SourceFeed,
        CommonProofs, SequenceTheorems

-----------------------------------------------------------------------------
(***************************************************************************)
(* Accounts: what an errand holds fits the account it is about, unless     *)
(* another is about to end its sessions or it is late.                     *)
(***************************************************************************)
Carrying == {"holder", "rotate", "issue", "used", "end"}
AboutPcs == Carrying \cup {"leave", "breach", "send", "wrong", "change", "erase"}
AboutRow == [pc : AboutPcs, of : People, password : Nat, ticket : Tickets \cup {NoTicket},
             code : Nat, late : BOOLEAN]
ErrandRow == {Waiting} \cup [pc : {"create"}, email : Emails] \cup AboutRow

AccountsTyped ==
    /\ user \in [People -> User] /\ session \in [Tickets -> RefreshToken] /\ code \in [People -> ResetCode]
    /\ errand \in [Errands -> ErrandRow]
    /\ expected \in 0 .. MaxErrands /\ shared \subseteq Tickets /\ rushed \subseteq People

\* An errand is about an account and a token that are there; one that carries
\* a session of an account that is erased is late.
RowHolds(r) ==
    r.pc \in AboutPcs =>
        /\ user[r.of].state # "NONE"
        /\ r.ticket # NoTicket => session[r.ticket].state # "NONE" /\ session[r.ticket].of = r.of
        /\ r.pc \in Carrying /\ user[r.of].state = "ERASED" => r.late
        /\ r.pc \in Changing => r.ticket = NoTicket
        /\ r.pc \in Exchanging \cup {"leave"} => r.ticket # NoTicket
        /\ r.pc \in {"wrong", "used"} => r.code # 0
        /\ r.code <= code[r.of].number

TokenHolds(s) ==
    /\ session[s].state = "NONE" => session[s].from = NoTicket
    /\ session[s].from # NoTicket => session[session[s].from].state # "NONE"
    /\ session[s].state \in {"LIVE", "REVOKED"} => user[session[s].of].state # "NONE"
    /\ session[s].state = "LIVE" /\ user[session[s].of].state = "ERASED" => session[s].late

RecordsHold == (\A v \in Errands : RowHolds(errand[v])) /\ (\A s \in Tickets : TokenHolds(s))

\* w is about to end the sessions of u.
Closes(w, u) == errand[w].pc \in {"used", "end"} /\ errand[w].of = u

\* What an errand carries, and a session that works, rest on the password, or
\* will be ended, or were to be.
RowFits(v, r) ==
    r.pc \in Carrying =>
        r.late \/ r.password = user[r.of].password \/ \E w \in Errands \ {v} : Closes(w, r.of)
TokenFits(s) ==
    session[s].state = "LIVE" =>
        \/ session[s].late \/ session[s].password = user[session[s].of].password
        \/ \E w \in Errands : Closes(w, session[s].of)
SessionsFit == (\A v \in Errands : RowFits(v, errand[v])) /\ (\A s \in Tickets : TokenFits(s))

\* A token that no two exchanged at once.
TokenIsOnce(t) ==
    /\ \A v, w \in Errands : Holding(v, t) /\ Holding(w, t) => v = w
    /\ \A s, o \in Tickets : session[s].from = t /\ session[o].from = t => s = o
    /\ \A s \in Tickets : session[s].from = t =>
         session[t].state # "LIVE" /\ \A v \in Errands : ~Holding(v, t)
    /\ \A v \in Errands : errand[v].pc = "issue" /\ errand[v].ticket = t => session[t].state # "LIVE"
TokensAreOnce == \A t \in Tickets \ shared : TokenIsOnce(t)

\* An account whose codes no two errands used at once.
Sending(v, u) == errand[v].pc = "send" /\ errand[v].of = u
Uses(v, u) ==
    /\ errand[v].pc \in {"wrong", "change", "used"} /\ errand[v].of = u
    /\ errand[v].code = code[u].number /\ errand[v].code # 0
CodeIsLimited(u) ==
    /\ code[u].number <= CodeLimit /\ code[u].guesses <= MaxGuesses /\ code[u].spent <= 1
    /\ \A v, w \in Errands : Sending(v, u) /\ Sending(w, u) => v = w
    /\ \A v, w \in Errands : Uses(v, u) /\ Uses(w, u) => v = w
    /\ \A v \in Errands :
         /\ Sending(v, u) => code[u].number < CodeLimit
         /\ Uses(v, u) /\ errand[v].pc = "wrong" => code[u].guesses < MaxGuesses
         /\ Uses(v, u) /\ errand[v].pc = "change" => code[u].spent = 0
    /\ code[u].state = "OPEN" /\ code[u].spent # 0 => \E v \in Errands : Uses(v, u) /\ errand[v].pc = "used"
CodesHold ==
    /\ \A u \in People \ rushed : CodeIsLimited(u)
    /\ \A u \in People : code[u].state = "OPEN" => code[u].number # 0

AccountsHold == AccountsTyped /\ RecordsHold /\ SessionsFit /\ TokensAreOnce /\ CodesHold

LEMMA ErrandRowsApart ==
  /\ Waiting \in ErrandRow /\ Waiting.pc = "new" /\ "new" \notin AboutPcs
  /\ \A r \in ErrandRow : /\ r.pc \in AboutPcs \cup {"new", "create"}
                          /\ r.pc \in AboutPcs <=> r \in AboutRow
                          /\ r.pc = "create" => r.email \in Emails
  BY DEF ErrandRow, AboutRow, Waiting, AboutPcs, Carrying

LEMMA AccountsStart == AccountsInit => AccountsHold
  <1> SUFFICES ASSUME AccountsInit PROVE AccountsHold
    OBVIOUS
  <1>1. PICK emails \in [Members -> Emails] :
          user = [u \in People |-> IF u \in Members
                                   THEN [state |-> "ACTIVE", email |-> emails[u], password |-> 0]
                                   ELSE NoUser]
    BY DEF AccountsInit
  <1>2. PICK anyone \in People :
          session = [s \in Tickets |-> [state |-> "NONE", of |-> anyone, password |-> 0,
                                        from |-> NoTicket, late |-> FALSE]]
    BY DEF AccountsInit
  <1>3. /\ code = [u \in People |-> NoCode] /\ errand = [v \in Errands |-> Waiting]
        /\ expected = MaxErrands /\ shared = {} /\ rushed = {}
    BY DEF AccountsInit
  <1>4. AccountsTyped
    <2>1. user \in [People -> User]
      BY <1>1 DEF User, NoUser
    <2>2. session \in [Tickets -> RefreshToken]
      BY <1>2 DEF RefreshToken
    <2>3. code \in [People -> ResetCode] /\ errand \in [Errands -> ErrandRow]
      BY <1>3, ErrandRowsApart DEF ResetCode, NoCode
    <2>4. QED
      BY <1>3, <2>1, <2>2, <2>3, AccountsAssumption DEF AccountsAssumption, AccountsTyped
  <1>5. \A v \in Errands : errand[v].pc = "new"
    BY <1>3, ErrandRowsApart
  <1>6. \A s \in Tickets : session[s].state = "NONE" /\ session[s].from = NoTicket
    BY <1>2
  <1>7. \A u \in People : code[u].number = 0 /\ code[u].guesses = 0 /\ code[u].spent = 0 /\ code[u].state = "NONE"
    BY <1>3 DEF NoCode
  <1>8. RecordsHold /\ SessionsFit
    BY <1>5, <1>6, ErrandRowsApart DEF RecordsHold, RowHolds, TokenHolds, SessionsFit, RowFits, TokenFits, Carrying
  <1>9. TokensAreOnce
    <2>1. NoTicket \notin Tickets
      BY AccountsAssumption DEF AccountsAssumption
    <2>2. QED
      BY <1>5, <1>6, <2>1 DEF TokensAreOnce, TokenIsOnce, Holding, Exchanging
  <1>10. CodesHold
    BY <1>5, <1>7, AccountsAssumption DEF AccountsAssumption, CodesHold, CodeIsLimited, Sending, Uses
  <1>11. QED
    BY <1>4, <1>8, <1>9, <1>10 DEF AccountsHold

-----------------------------------------------------------------------------
(***************************************************************************)
(* What a step of one errand leaves of the others.                         *)
(***************************************************************************)
Alike(w) ==
    /\ errand'[w].pc = errand[w].pc
    /\ errand[w].pc \in AboutPcs =>
         /\ errand'[w].of = errand[w].of /\ errand'[w].password = errand[w].password
         /\ errand'[w].ticket = errand[w].ticket /\ errand'[w].code = errand[w].code
         /\ errand[w].late => errand'[w].late
OthersAlike(v) == \A w \in Errands \ {v} : Alike(w)

\* No token comes, and none that does not work does again.
SessionsWear ==
    \A s \in Tickets :
        /\ session'[s].of = session[s].of /\ session'[s].password = session[s].password
        /\ session'[s].from = session[s].from /\ session'[s].late = session[s].late
        /\ session'[s].state \in {session[s].state, "REVOKED", "ENDED"}
        /\ session'[s].state = "NONE" <=> session[s].state = "NONE"
        /\ session'[s].state = "REVOKED" => session[s].state \in {"LIVE", "REVOKED"}

\* No account goes, and none that is not there is erased.
UsersLast ==
    \A u \in People : /\ user[u].state # "NONE" => user'[u].state # "NONE"
                      /\ user'[u].state = "ERASED" => user[u].state = "ERASED"

CodesGrow == \A u \in People : code[u].number <= code'[u].number

LEMMA ErrandMoves ==
  ASSUME AccountsTyped, NEW v \in Errands, NEW e \in ErrandRow, errand' = [errand EXCEPT ![v] = e]
  PROVE  errand'[v] = e /\ OthersAlike(v) /\ errand' \in [Errands -> ErrandRow]
  BY DEF AccountsTyped, OthersAlike, Alike

\* The next step of what an errand is about.
LEMMA RowMoves ==
  ASSUME NEW r \in AboutRow, NEW pc \in AboutPcs, NEW e, e = [r EXCEPT !.pc = pc]
  PROVE  /\ e \in AboutRow /\ e \in ErrandRow /\ e.pc = pc /\ e.of = r.of /\ e.password = r.password
         /\ e.ticket = r.ticket /\ e.code = r.code /\ e.late = r.late
  BY DEF AboutRow, ErrandRow

LEMMA RecordsStay ==
  ASSUME AccountsTyped, AccountsTyped', RecordsHold, NEW v \in Errands, OthersAlike(v),
         RowHolds(errand[v])', SessionsWear, UsersLast, CodesGrow
  PROVE  RecordsHold'
  <1>1. ASSUME NEW w \in Errands, w # v, errand[w].pc \in AboutPcs PROVE RowHolds(errand[w])'
    <2>1. errand[w] \in AboutRow /\ Alike(w) /\ errand[w].of \in People
      BY <1>1, ErrandRowsApart DEF AccountsTyped, OthersAlike, AboutRow
    <2>2. RowHolds(errand[w]) /\ errand[w].ticket \in Tickets \cup {NoTicket} /\ errand[w].code \in Nat
      BY <2>1 DEF RecordsHold, AboutRow
    <2>3. code[errand[w].of].number \in Nat /\ code'[errand[w].of].number \in Nat
      BY <2>1 DEF AccountsTyped, ResetCode
    <2>4. errand[w].code <= code'[errand[w].of].number
      BY <1>1, <2>1, <2>2, <2>3 DEF CodesGrow, RowHolds
    <2>5. QED
      BY <1>1, <2>1, <2>2, <2>4 DEF RowHolds, Alike, SessionsWear, UsersLast
  <1>2. ASSUME NEW w \in Errands, w # v, errand[w].pc \notin AboutPcs PROVE RowHolds(errand[w])'
    BY <1>2 DEF RowHolds, OthersAlike, Alike
  <1>3. ASSUME NEW s \in Tickets PROVE TokenHolds(s)'
    <2>1. TokenHolds(s) /\ session[s].of \in People /\ session[s].from \in Tickets \cup {NoTicket}
      BY DEF RecordsHold, AccountsTyped, RefreshToken
    <2>2. QED
      BY <2>1 DEF TokenHolds, SessionsWear, UsersLast
  <1>4. QED
    BY <1>1, <1>2, <1>3 DEF RecordsHold

LEMMA FitsStay ==
  ASSUME AccountsTyped, SessionsFit, NEW v \in Errands, OthersAlike(v), SessionsWear,
         \A u \in People : user'[u].password = user[u].password,
         RowFits(v, errand[v])', \A u \in People : Closes(v, u) => Closes(v, u)'
  PROVE  SessionsFit'
  <1>1. \A w \in Errands, u \in People : Closes(w, u) => Closes(w, u)'
    BY DEF Closes, OthersAlike, Alike, AboutPcs, Carrying
  <1>2. ASSUME NEW w \in Errands, w # v, errand[w].pc \in Carrying PROVE RowFits(w, errand[w])'
    <2>1. errand[w].pc \in AboutPcs /\ errand[w] \in AboutRow /\ Alike(w) /\ errand[w].of \in People
      BY <1>2, ErrandRowsApart DEF AccountsTyped, OthersAlike, AboutRow, AboutPcs
    <2>2. \/ errand[w].late \/ errand[w].password = user[errand[w].of].password
          \/ \E x1 \in Errands \ {w} : Closes(x1, errand[w].of)
      BY <1>2 DEF SessionsFit, RowFits
    <2>3. \/ errand'[w].late \/ errand'[w].password = user'[errand'[w].of].password
          \/ \E x1 \in Errands \ {w} : Closes(x1, errand[w].of)'
      BY <1>1, <2>1, <2>2 DEF Alike
    <2>4. QED
      BY <2>1, <2>3 DEF RowFits, Alike, Closes
  <1>3. ASSUME NEW w \in Errands, w # v, errand[w].pc \notin Carrying PROVE RowFits(w, errand[w])'
    BY <1>3 DEF RowFits, OthersAlike, Alike
  <1>4. ASSUME NEW s \in Tickets PROVE TokenFits(s)'
    <2>1. TokenFits(s) /\ session[s].of \in People
      BY DEF SessionsFit, AccountsTyped, RefreshToken
    <2>2. QED
      BY <1>1, <2>1 DEF TokenFits, SessionsWear, Closes
  <1>5. QED
    BY <1>2, <1>3, <1>4 DEF SessionsFit

LEMMA OnceStays ==
  ASSUME AccountsTyped, TokensAreOnce, NEW v \in Errands, OthersAlike(v), SessionsWear,
         shared \subseteq shared',
         \A t \in Tickets : Holding(v, t)' =>
             /\ Holding(v, t)
             /\ errand'[v].pc = "issue" => errand[v].pc = "issue" \/ session'[t].state # "LIVE"
  PROVE  TokensAreOnce'
  <1> SUFFICES ASSUME NEW t \in Tickets, t \notin shared' PROVE TokenIsOnce(t)'
    BY DEF TokensAreOnce
  <1>1. TokenIsOnce(t)
    BY DEF TokensAreOnce
  <1>2. \A w \in Errands : Holding(w, t)' => Holding(w, t)
    BY DEF OthersAlike, Alike, Holding, AboutPcs, Carrying, Exchanging
  <1>3. \A s \in Tickets : session'[s].from = session[s].from
    BY DEF SessionsWear
  <1>4. session[t].state # "LIVE" => session'[t].state # "LIVE"
    BY DEF SessionsWear
  <1>5. ASSUME NEW w \in Errands, errand'[w].pc = "issue", errand'[w].ticket = t
        PROVE  session'[t].state # "LIVE"
    <2>1. Holding(w, t)'
      BY <1>5 DEF Holding
    <2>2. CASE w = v
      <3>1. Holding(v, t) /\ (errand[v].pc = "issue" \/ session'[t].state # "LIVE")
        BY <1>5, <2>1, <2>2
      <3>2. QED
        BY <1>1, <1>4, <3>1 DEF TokenIsOnce, Holding
    <2>3. CASE w # v
      <3>1. errand[w].pc = "issue" /\ errand[w].ticket = t
        BY <1>5, <2>3 DEF OthersAlike, Alike, AboutPcs, Carrying
      <3>2. QED
        BY <1>1, <1>4, <3>1 DEF TokenIsOnce
    <2>4. QED
      BY <2>2, <2>3
  <1>6. QED
    BY <1>1, <1>2, <1>3, <1>4, <1>5 DEF TokenIsOnce

LEMMA CodesRest ==
  ASSUME AccountsTyped, CodesHold, NEW v \in Errands, OthersAlike(v), UNCHANGED code,
         rushed \subseteq rushed', errand[v].pc # "used",
         errand'[v].pc \notin {"send", "wrong", "used"},
         errand'[v].pc = "change" => errand'[v].code = 0
  PROVE  CodesHold'
  <1> SUFFICES ASSUME NEW u \in People, u \notin rushed' PROVE CodeIsLimited(u)'
    BY DEF CodesHold
  <1>1. CodeIsLimited(u)
    BY DEF CodesHold
  <1>2. \A w \in Errands : Sending(w, u)' => Sending(w, u)
    BY DEF Sending, OthersAlike, Alike, AboutPcs, Carrying
  <1>3. ~Uses(v, u)'
    BY DEF Uses
  <1>4. \A w \in Errands \ {v} : Uses(w, u)' <=> Uses(w, u)
    BY DEF Uses, OthersAlike, Alike, AboutPcs, Carrying
  <1>5. \A w \in Errands \ {v} : errand'[w].pc = errand[w].pc
    BY DEF OthersAlike, Alike
  <1>6. QED
    BY <1>1, <1>2, <1>3, <1>4, <1>5 DEF CodeIsLimited

LEMMA NoSessionGoes == session' = session => SessionsWear
  BY DEF SessionsWear

\* A step that is not about a code and sets no password.
LEMMA QuietStep ==
  ASSUME AccountsHold, AccountsTyped', NEW v \in Errands, OthersAlike(v), SessionsWear,
         UNCHANGED <<user, code, marks>>,
         RowHolds(errand[v])', RowFits(v, errand[v])',
         \A t \in Tickets : Holding(v, t)' =>
             /\ Holding(v, t)
             /\ errand'[v].pc = "issue" => errand[v].pc = "issue" \/ session'[t].state # "LIVE",
         errand[v].pc \notin {"used", "end"},
         errand'[v].pc \notin {"send", "wrong", "used"},
         errand'[v].pc = "change" => errand'[v].code = 0
  PROVE  AccountsHold'
  <1>1. UsersLast /\ CodesGrow
    BY DEF UsersLast, CodesGrow, AccountsHold, AccountsTyped, ResetCode
  <1>2. RecordsHold'
    BY <1>1, RecordsStay DEF AccountsHold
  <1>3. SessionsFit'
    <2>1. \A u \in People : user'[u].password = user[u].password /\ ~Closes(v, u)
      BY DEF Closes
    <2>2. QED
      BY <2>1, FitsStay DEF AccountsHold
  <1>4. TokensAreOnce' /\ CodesHold'
    <2>1. UNCHANGED <<shared, rushed, code>>
      BY DEF marks
    <2>2. QED
      BY <2>1, OnceStays, CodesRest DEF AccountsHold
  <1>5. QED
    BY <1>2, <1>3, <1>4 DEF AccountsHold

-----------------------------------------------------------------------------
(***************************************************************************)
(* The steps that keep every account, password and code as they are.       *)
(***************************************************************************)
LEMMA RowIsTyped ==
  ASSUME AccountsTyped, NEW v \in Errands, errand[v].pc \in AboutPcs
  PROVE  /\ errand[v] \in AboutRow /\ errand[v].of \in People /\ errand[v].ticket \in Tickets \cup {NoTicket}
         /\ errand[v].password \in Nat /\ errand[v].code \in Nat /\ errand[v].late \in BOOLEAN
  <1>1. errand[v] \in AboutRow
    BY ErrandRowsApart DEF AccountsTyped
  <1>2. QED
    BY <1>1 DEF AboutRow

LEMMA AboutIsARow ==
  ASSUME AccountsTyped, NEW u \in People, NEW pc \in AboutPcs
  PROVE  /\ About(u, pc) \in AboutRow /\ About(u, pc) \in ErrandRow
         /\ About(u, pc).pc = pc /\ About(u, pc).of = u /\ About(u, pc).password = user[u].password
         /\ About(u, pc).ticket = NoTicket /\ About(u, pc).code = 0 /\ About(u, pc).late = FALSE
  <1>1. user[u].password \in Nat
    BY DEF AccountsTyped, User
  <1>2. QED
    BY <1>1 DEF About, AboutRow, ErrandRow

\* An errand that takes a step, and one that begins.
LEMMA ErrandStepIsTyped ==
  ASSUME AccountsTyped, NEW v \in Errands, NEW e \in ErrandRow, errand' = [errand EXCEPT ![v] = e],
         expected' \in {expected} \/ (expected > 0 /\ expected' = expected - 1),
         user' \in [People -> User], session' \in [Tickets -> RefreshToken], code' \in [People -> ResetCode],
         shared' \subseteq Tickets, rushed' \subseteq People
  PROVE  errand'[v] = e /\ OthersAlike(v) /\ AccountsTyped'
  <1>1. errand'[v] = e /\ OthersAlike(v) /\ errand' \in [Errands -> ErrandRow]
    BY ErrandMoves
  <1>2. expected' \in 0 .. MaxErrands
    BY AccountsAssumption DEF AccountsTyped, AccountsAssumption
  <1>3. QED
    BY <1>1, <1>2 DEF AccountsTyped

LEMMA QuietMove ==
  ASSUME AccountsHold, NEW v \in Errands, NEW e \in ErrandRow, errand' = [errand EXCEPT ![v] = e],
         expected' \in {expected} \/ (expected > 0 /\ expected' = expected - 1),
         session' \in [Tickets -> RefreshToken], SessionsWear, UNCHANGED <<user, code, marks>>,
         RowHolds(e)', RowFits(v, e)',
         \A t \in Tickets : e.pc \in Exchanging \cup {"issue"} /\ e.ticket = t =>
             /\ Holding(v, t)
             /\ e.pc = "issue" => errand[v].pc = "issue" \/ session'[t].state # "LIVE",
         errand[v].pc \notin {"used", "end"},
         e.pc \notin {"send", "wrong", "used"},
         e.pc = "change" => e.code = 0
  PROVE  AccountsHold'
  <1>1. user' \in [People -> User] /\ code' \in [People -> ResetCode] /\ shared' \subseteq Tickets /\ rushed' \subseteq People
    BY DEF marks, AccountsHold, AccountsTyped
  <1>2. errand'[v] = e /\ OthersAlike(v) /\ AccountsTyped'
    BY <1>1, ErrandStepIsTyped DEF AccountsHold
  <1>3. RowHolds(errand[v])' /\ RowFits(v, errand[v])'
    BY <1>2
  <1>4. \A t \in Tickets : Holding(v, t)' =>
             /\ Holding(v, t)
             /\ errand'[v].pc = "issue" => errand[v].pc = "issue" \/ session'[t].state # "LIVE"
    BY <1>2 DEF Holding
  <1>5. QED
    BY <1>2, <1>3, <1>4, QuietStep

\* An errand that goes no further.
LEMMA QuietEnd ==
  ASSUME AccountsHold, NEW v \in Errands, Gone(v), errand[v].pc \notin {"used", "end"},
         session' \in [Tickets -> RefreshToken], SessionsWear, UNCHANGED <<user, code, marks>>
  PROVE  AccountsHold'
  <1>1. PICK e : e = Waiting
    OBVIOUS
  <1>2. e \in ErrandRow /\ e.pc = "new" /\ errand' = [errand EXCEPT ![v] = e] /\ expected' = expected
    BY <1>1, ErrandRowsApart DEF Gone
  <1>3. RowHolds(e)' /\ RowFits(v, e)'
    BY <1>2 DEF RowHolds, RowFits, AboutPcs, Carrying
  <1>4. QED
    BY <1>2, <1>3, QuietMove DEF Exchanging

\* An errand that begins about an account that is there.
LEMMA QuietStart ==
  ASSUME AccountsHold, NEW v \in Errands, NEW u \in People, Active(u),
         NEW pc \in {"issue", "change", "erase"}, Begins(v, About(u, pc)),
         UNCHANGED <<user, session, code, marks>>
  PROVE  AccountsHold'
  <1>1. PICK e : e = About(u, pc)
    OBVIOUS
  <1>2. pc \in AboutPcs /\ user[u].state = "ACTIVE" /\ AccountsTyped
    BY DEF AboutPcs, Carrying, Active, AccountsHold
  <1>3. /\ e \in ErrandRow /\ e.pc = pc /\ e.of = u /\ e.password = user[u].password
        /\ e.ticket = NoTicket /\ e.code = 0 /\ e.late = FALSE
    BY <1>1, <1>2, AboutIsARow
  <1>4. errand' = [errand EXCEPT ![v] = e] /\ errand[v].pc = "new" /\ expected > 0 /\ expected' = expected - 1
    BY <1>1 DEF Begins
  <1>5. RowHolds(e)'
    <2>1. code'[u].number \in Nat
      BY <1>2 DEF AccountsTyped, ResetCode
    <2>2. e.code <= code'[e.of].number
      BY <1>3, <2>1
    <2>3. user'[e.of].state = "ACTIVE"
      BY <1>2, <1>3
    <2>4. QED
      BY <1>3, <2>2, <2>3 DEF RowHolds, Changing, Exchanging
  <1>6. RowFits(v, e)'
    BY <1>3 DEF RowFits
  <1>7. NoTicket \notin Tickets
    BY AccountsAssumption DEF AccountsAssumption
  <1>8. session' \in [Tickets -> RefreshToken] /\ SessionsWear
    BY <1>2, NoSessionGoes DEF AccountsTyped
  <1>9. QED
    BY <1>3, <1>4, <1>5, <1>6, <1>7, <1>8, QuietMove

LEMMA KeepsRegister ==
  ASSUME AccountsHold, NEW v \in Errands, NEW email \in Emails, Register(v, email)
  PROVE  AccountsHold'
  <1>1. PICK e : e = [pc |-> "create", email |-> email]
    OBVIOUS
  <1>2. e \in ErrandRow /\ e.pc = "create"
    BY <1>1 DEF ErrandRow
  <1>3. /\ errand' = [errand EXCEPT ![v] = e] /\ errand[v].pc = "new" /\ expected > 0 /\ expected' = expected - 1
        /\ UNCHANGED <<user, session, code, marks>>
    BY <1>1 DEF Register, Begins
  <1>4. RowHolds(e)' /\ RowFits(v, e)'
    BY <1>2 DEF RowHolds, RowFits, AboutPcs, Carrying
  <1>5. session' \in [Tickets -> RefreshToken] /\ SessionsWear
    BY <1>3, NoSessionGoes DEF AccountsTyped, AccountsHold
  <1>6. QED
    BY <1>2, <1>3, <1>4, <1>5, QuietMove DEF Exchanging

LEMMA KeepsFindHolder ==
  ASSUME AccountsHold, NEW v \in Errands, FindHolder(v)
  PROVE  AccountsHold'
  <1>1. errand[v].pc = "holder" /\ errand[v].pc \in AboutPcs /\ AccountsTyped /\ UNCHANGED <<user, session, code, marks>>
    BY DEF FindHolder, AboutPcs, Carrying, AccountsHold
  <1>2. session' \in [Tickets -> RefreshToken] /\ SessionsWear
    BY <1>1, NoSessionGoes DEF AccountsTyped
  <1>3. CASE Active(errand[v].of)
    <2>1. PICK e : e = [errand[v] EXCEPT !.pc = "rotate"]
      OBVIOUS
    <2>2. errand' = [errand EXCEPT ![v] = e] /\ expected' = expected
      BY <1>3, <2>1 DEF FindHolder, On
    <2>3. /\ e \in ErrandRow /\ e.pc = "rotate" /\ e.of = errand[v].of /\ e.password = errand[v].password
          /\ e.ticket = errand[v].ticket /\ e.code = errand[v].code /\ e.late = errand[v].late
      BY <1>1, <2>1, RowIsTyped, RowMoves DEF AboutPcs, Carrying
    <2>4. RowHolds(errand[v]) /\ RowFits(v, errand[v])
      BY DEF AccountsHold, RecordsHold, SessionsFit
    <2>5. RowHolds(e)'
      BY <1>1, <2>3, <2>4 DEF RowHolds, Changing, Carrying, Exchanging
    <2>6. RowFits(v, e)'
      <3>1. \A w \in Errands \ {v} : Closes(w, e.of)' <=> Closes(w, e.of)
        BY <2>2 DEF Closes
      <3>2. QED
        BY <1>1, <2>3, <2>4, <3>1 DEF RowFits, Carrying
    <2>7. QED
      BY <1>1, <1>2, <2>2, <2>3, <2>5, <2>6, QuietMove DEF Holding, Exchanging
  <1>4. CASE ~Active(errand[v].of)
    BY <1>1, <1>2, <1>4, QuietEnd DEF FindHolder
  <1>5. QED
    BY <1>3, <1>4

-----------------------------------------------------------------------------
(***************************************************************************)
(* The steps that end a session.                                           *)
(***************************************************************************)
LEMMA OneWears ==
  ASSUME AccountsHold, NEW t \in Tickets, session[t].state # "NONE", Revoked(t)
  PROVE  session' \in [Tickets -> RefreshToken] /\ SessionsWear /\ session'[t].state # "LIVE"
  <1>1. session[t] \in RefreshToken /\ session[t].state \in {"LIVE", "REVOKED", "ENDED"}
    BY DEF AccountsHold, AccountsTyped, RefreshToken
  <1>2. PICK st : st = IF session[t].state = "ENDED" THEN "ENDED" ELSE "REVOKED"
    OBVIOUS
  <1>3. session' = [session EXCEPT ![t].state = st]
    BY <1>2 DEF Revoked
  <1>4. session'[t] = [session[t] EXCEPT !.state = st] /\ \A s \in Tickets \ {t} : session'[s] = session[s]
    BY <1>3 DEF AccountsHold, AccountsTyped
  <1>5. /\ session'[t] \in RefreshToken /\ session'[t].state = st /\ session'[t].of = session[t].of
        /\ session'[t].password = session[t].password /\ session'[t].from = session[t].from
        /\ session'[t].late = session[t].late
    <2>1. PICK it : it = [session[t] EXCEPT !.state = st]
      OBVIOUS
    <2>2. /\ it \in RefreshToken /\ it.state = st /\ it.of = session[t].of /\ it.password = session[t].password
          /\ it.from = session[t].from /\ it.late = session[t].late
      BY <1>1, <1>2, <2>1 DEF RefreshToken
    <2>3. QED
      BY <1>4, <2>1, <2>2
  <1>6. session' \in [Tickets -> RefreshToken]
    BY <1>3, <1>5 DEF AccountsHold, AccountsTyped
  <1>7. SessionsWear
    BY <1>1, <1>2, <1>4, <1>5 DEF SessionsWear
  <1>8. QED
    BY <1>2, <1>5, <1>6, <1>7

\* st is the state that the sessions which F holds of end up in.
LEMMA ManyWear ==
  ASSUME AccountsHold, NEW F \in SUBSET Tickets, NEW st \in {"REVOKED", "ENDED"},
         st = "REVOKED" => \A s \in F : session[s].state = "LIVE",
         \A s \in F : session[s].state # "NONE",
         session' = [s \in Tickets |-> IF s \in F THEN [session[s] EXCEPT !.state = st] ELSE session[s]]
  PROVE  session' \in [Tickets -> RefreshToken] /\ SessionsWear /\ \A s \in F : session'[s].state = st
  <1>1. ASSUME NEW s \in F
        PROVE  /\ session'[s] \in RefreshToken /\ session'[s].state = st /\ session'[s].of = session[s].of
               /\ session'[s].password = session[s].password /\ session'[s].from = session[s].from
               /\ session'[s].late = session[s].late
    <2>1. PICK it : it = [session[s] EXCEPT !.state = st]
      OBVIOUS
    <2>2. session[s] \in RefreshToken
      BY DEF AccountsHold, AccountsTyped
    <2>3. /\ it \in RefreshToken /\ it.state = st /\ it.of = session[s].of /\ it.password = session[s].password
          /\ it.from = session[s].from /\ it.late = session[s].late
      BY <2>1, <2>2 DEF RefreshToken
    <2>4. QED
      BY <2>1, <2>3
  <1>2. \A s \in Tickets \ F : session'[s] = session[s]
    OBVIOUS
  <1>3. \A s \in Tickets : session'[s] \in RefreshToken
    BY <1>1, <1>2 DEF AccountsHold, AccountsTyped
  <1>4. session' \in [Tickets -> RefreshToken]
    BY <1>3
  <1>5. SessionsWear
    BY <1>1, <1>2 DEF SessionsWear
  <1>6. QED
    BY <1>1, <1>4, <1>5

LEMMA KeepsRotate ==
  ASSUME AccountsHold, NEW v \in Errands, Rotate(v)
  PROVE  AccountsHold'
  <1>1. /\ errand[v].pc = "rotate" /\ errand[v].pc \in AboutPcs /\ AccountsTyped /\ UNCHANGED <<user, code, marks>>
        /\ Revoked(errand[v].ticket)
    BY DEF Rotate, AboutPcs, Carrying, AccountsHold
  <1>2. PICK t : t = errand[v].ticket
    OBVIOUS
  <1>3. RowHolds(errand[v]) /\ RowFits(v, errand[v]) /\ errand[v] \in AboutRow /\ t \in Tickets \cup {NoTicket}
    BY <1>1, <1>2, RowIsTyped DEF AccountsHold, RecordsHold, SessionsFit
  <1>4. t \in Tickets
    BY <1>1, <1>2, <1>3 DEF RowHolds, Exchanging
  <1>5. session[t].state # "NONE" /\ session[t].of = errand[v].of
    BY <1>1, <1>2, <1>3, <1>4, AccountsAssumption DEF AccountsAssumption, RowHolds
  <1>6. session' \in [Tickets -> RefreshToken] /\ SessionsWear /\ session'[t].state # "LIVE"
    BY <1>1, <1>2, <1>4, <1>5, OneWears
  <1>7. CASE session[t].state = "ENDED"
    <2>1. Gone(v)
      BY <1>2, <1>7 DEF Rotate
    <2>2. QED
      BY <1>1, <1>6, <2>1, QuietEnd
  <1>8. CASE session[t].state # "ENDED"
    <2>1. PICK e : e = [errand[v] EXCEPT !.pc = "issue"]
      OBVIOUS
    <2>2. errand' = [errand EXCEPT ![v] = e] /\ expected' = expected
      BY <1>2, <1>8, <2>1 DEF Rotate, On
    <2>3. /\ e \in ErrandRow /\ e.pc = "issue" /\ e.of = errand[v].of /\ e.password = errand[v].password
          /\ e.ticket = t /\ e.code = errand[v].code /\ e.late = errand[v].late
      BY <1>2, <1>3, <2>1, RowMoves DEF AboutPcs, Carrying
    <2>4. RowHolds(e)'
      BY <1>1, <1>2, <1>3, <1>4, <1>5, <1>6, <2>3 DEF RowHolds, Changing, Carrying, Exchanging, SessionsWear
    <2>5. RowFits(v, e)'
      <3>1. \A w \in Errands \ {v} : Closes(w, e.of)' <=> Closes(w, e.of)
        BY <2>2 DEF Closes
      <3>2. QED
        BY <1>1, <1>3, <2>3, <3>1 DEF RowFits, Carrying
    <2>6. \A s \in Tickets : e.ticket = s => Holding(v, s) /\ session'[s].state # "LIVE"
      BY <1>1, <1>2, <1>6, <2>3 DEF Holding, Exchanging
    <2>7. QED
      BY <1>1, <1>6, <2>2, <2>3, <2>4, <2>5, <2>6, QuietMove
  <1>9. QED
    BY <1>7, <1>8

LEMMA KeepsRevokeAll ==
  ASSUME AccountsHold, NEW v \in Errands, RevokeAll(v)
  PROVE  AccountsHold'
  <1>1. PICK F \in SUBSET Tickets : F = {s \in Tickets : session[s].of = errand[v].of /\ session[s].state = "LIVE"}
    OBVIOUS
  <1>2. session' = [s \in Tickets |-> IF s \in F THEN [session[s] EXCEPT !.state = "REVOKED"] ELSE session[s]]
    BY <1>1 DEF RevokeAll
  <1>3. \A s \in F : session[s].state = "LIVE" /\ session[s].state # "NONE"
    BY <1>1
  <1>4. session' \in [Tickets -> RefreshToken] /\ SessionsWear
    BY <1>2, <1>3, ManyWear
  <1>5. Gone(v) /\ errand[v].pc \notin {"used", "end"} /\ UNCHANGED <<user, code, marks>>
    BY DEF RevokeAll
  <1>6. QED
    BY <1>4, <1>5, QuietEnd

LEMMA KeepsLeave ==
  ASSUME AccountsHold, NEW v \in Errands, Leave(v)
  PROVE  AccountsHold'
  <1>1. /\ errand[v].pc = "leave" /\ errand[v].pc \in AboutPcs /\ AccountsTyped /\ UNCHANGED <<user, code, marks>>
        /\ Revoked(errand[v].ticket) /\ Gone(v)
    BY DEF Leave, AboutPcs, Carrying, AccountsHold
  <1>2. PICK t : t = errand[v].ticket
    OBVIOUS
  <1>3. RowHolds(errand[v]) /\ t \in Tickets \cup {NoTicket}
    BY <1>1, <1>2, RowIsTyped DEF AccountsHold, RecordsHold
  <1>4. t \in Tickets
    BY <1>1, <1>2, <1>3 DEF RowHolds
  <1>5. session[t].state # "NONE"
    BY <1>1, <1>2, <1>3, <1>4, AccountsAssumption DEF AccountsAssumption, RowHolds
  <1>6. session' \in [Tickets -> RefreshToken] /\ SessionsWear
    BY <1>1, <1>2, <1>4, <1>5, OneWears
  <1>7. QED
    BY <1>1, <1>6, QuietEnd

\* What an errand that begins on a session carries of it.
LEMMA OnASession ==
  ASSUME AccountsHold, NEW v \in Errands, NEW s \in Tickets, NEW pc \in {"holder", "breach", "leave"},
         session[s].state \in {"LIVE", "REVOKED"}, pc = "holder" => session[s].state = "LIVE",
         NEW late \in BOOLEAN, pc = "holder" => late = session[s].late,
         NEW e, e = [pc |-> pc, of |-> session[s].of, password |-> session[s].password, ticket |-> s,
                     code |-> 0, late |-> late],
         UNCHANGED <<user, session, code>>, \A w \in Errands \ {v} : errand'[w] = errand[w],
         errand[v].pc = "new"
  PROVE  /\ e \in ErrandRow /\ e.pc = pc /\ e.ticket = s /\ e.code = 0
         /\ RowHolds(e)' /\ RowFits(v, e)'
  <1>1. session[s] \in RefreshToken /\ TokenHolds(s) /\ TokenFits(s) /\ s # NoTicket
    BY AccountsAssumption DEF AccountsAssumption, AccountsHold, AccountsTyped, RecordsHold, SessionsFit
  <1>2. session[s].of \in People /\ session[s].password \in Nat /\ session[s].late \in BOOLEAN
    BY <1>1 DEF RefreshToken
  <1>3. /\ e \in AboutRow /\ e.pc = pc /\ e.of = session[s].of /\ e.password = session[s].password
        /\ e.ticket = s /\ e.code = 0 /\ e.late = late
    BY <1>2 DEF AboutRow, AboutPcs, Carrying
  <1>4. code'[e.of].number \in Nat
    BY <1>2, <1>3 DEF AccountsHold, AccountsTyped, ResetCode
  <1>5. RowHolds(e)'
    <2>1. e.code <= code'[e.of].number
      BY <1>3, <1>4
    <2>2. user'[e.of].state # "NONE" /\ session'[s].state # "NONE"
      BY <1>1, <1>3 DEF TokenHolds
    <2>3. pc = "holder" /\ user'[e.of].state = "ERASED" => e.late
      BY <1>1, <1>3 DEF TokenHolds
    <2>4. QED
      BY <1>1, <1>3, <2>1, <2>2, <2>3 DEF RowHolds, Carrying, Changing
  <1>6. RowFits(v, e)'
    <2>1. ~Closes(v, e.of)
      BY DEF Closes
    <2>2. \A w \in Errands \ {v} : Closes(w, e.of) => Closes(w, e.of)'
      BY DEF Closes
    <2>3. pc = "holder" =>
            \/ e.late \/ e.password = user'[e.of].password \/ \E w \in Errands \ {v} : Closes(w, e.of)'
      BY <1>1, <1>3, <2>1, <2>2 DEF TokenFits
    <2>4. QED
      BY <1>3, <2>3 DEF RowFits, Carrying
  <1>7. QED
    BY <1>3, <1>5, <1>6 DEF ErrandRow

LEMMA KeepsLogout ==
  ASSUME AccountsHold, NEW v \in Errands, NEW s \in Tickets, Logout(v, s)
  PROVE  AccountsHold'
  <1>1. PICK e : e = [pc |-> "leave", of |-> session[s].of, password |-> session[s].password,
                      ticket |-> s, code |-> 0, late |-> FALSE]
    OBVIOUS
  <1>2. /\ errand' = [errand EXCEPT ![v] = e] /\ expected > 0 /\ expected' = expected - 1
        /\ errand[v].pc = "new" /\ session[s].state = "LIVE" /\ UNCHANGED <<user, session, code, marks>>
    BY <1>1 DEF Logout, Begins
  <1>3. \A w \in Errands \ {v} : errand'[w] = errand[w]
    BY <1>2 DEF AccountsHold, AccountsTyped
  <1>4. e \in ErrandRow /\ e.pc = "leave" /\ RowHolds(e)' /\ RowFits(v, e)'
    BY <1>1, <1>2, <1>3, OnASession, ZenonT(60)
  <1>5. session' \in [Tickets -> RefreshToken] /\ SessionsWear
    BY <1>2, NoSessionGoes DEF AccountsTyped, AccountsHold
  <1>6. QED
    BY <1>2, <1>4, <1>5, QuietMove DEF Exchanging

LEMMA KeepsRefresh ==
  ASSUME AccountsHold, NEW v \in Errands, NEW s \in Tickets, Refresh(v, s)
  PROVE  AccountsHold'
  <1>1. PICK pc : pc = IF session[s].state = "LIVE" THEN "holder" ELSE "breach"
    OBVIOUS
  <1>2. PICK e : e = [pc |-> pc, of |-> session[s].of, password |-> session[s].password,
                      ticket |-> s, code |-> 0, late |-> session[s].late]
    OBVIOUS
  <1>3. /\ errand' = [errand EXCEPT ![v] = e] /\ expected > 0 /\ expected' = expected - 1
        /\ errand[v].pc = "new" /\ session[s].state \in {"LIVE", "REVOKED"}
        /\ UNCHANGED <<user, session, code, rushed>>
    BY <1>1, <1>2 DEF Refresh, Begins
  <1>4. \A w \in Errands \ {v} : errand'[w] = errand[w]
    BY <1>3 DEF AccountsHold, AccountsTyped
  <1>5. session[s].late \in BOOLEAN
    BY DEF AccountsHold, AccountsTyped, RefreshToken
  <1>6. e \in ErrandRow /\ e.pc = pc /\ e.ticket = s /\ e.code = 0 /\ RowHolds(e)' /\ RowFits(v, e)'
    BY <1>1, <1>2, <1>3, <1>4, <1>5, OnASession
  <1>7. session' \in [Tickets -> RefreshToken] /\ SessionsWear
    BY <1>3, NoSessionGoes DEF AccountsTyped, AccountsHold
  <1>8. shared' \subseteq Tickets /\ rushed' \subseteq People /\ shared \subseteq shared'
    BY <1>3 DEF Refresh, AccountsHold, AccountsTyped
  <1>9. errand'[v] = e /\ OthersAlike(v) /\ AccountsTyped'
    BY <1>3, <1>6, <1>7, <1>8, ErrandStepIsTyped DEF AccountsHold, AccountsTyped
  <1>10. RecordsHold'
    <2>1. UsersLast /\ CodesGrow
      BY <1>3 DEF UsersLast, CodesGrow, AccountsHold, AccountsTyped, ResetCode
    <2>2. QED
      BY <1>6, <1>7, <1>9, <2>1, RecordsStay DEF AccountsHold
  <1>11. SessionsFit'
    <2>1. \A u \in People : user'[u].password = user[u].password /\ ~Closes(v, u)
      BY <1>3 DEF Closes
    <2>2. QED
      BY <1>6, <1>7, <1>9, <2>1, FitsStay DEF AccountsHold
  <1>12. CodesHold'
    BY <1>1, <1>3, <1>6, <1>9, CodesRest DEF AccountsHold
  <1>13. TokensAreOnce'
    <2>1. CASE pc = "breach"
      BY <1>6, <1>7, <1>8, <1>9, <2>1, OnceStays DEF Holding, Exchanging, AccountsHold
    <2>2. CASE pc = "holder"
      <3>1. session[s].state = "LIVE"
        BY <1>1, <2>2
      <3> SUFFICES ASSUME NEW t \in Tickets, t \notin shared' PROVE TokenIsOnce(t)'
        BY DEF TokensAreOnce
      <3>2. TokenIsOnce(t)
        BY <1>8 DEF AccountsHold, TokensAreOnce
      <3>3. \A w \in Errands \ {v} : Holding(w, t)' <=> Holding(w, t)
        BY <1>4 DEF Holding
      <3>4. Holding(v, t)' <=> t = s
        BY <1>6, <1>9, <2>2 DEF Holding, Exchanging
      <3>5. t = s => \A w \in Errands : ~Holding(w, t)
        BY <1>3, <3>1 DEF Refresh
      <3>6. t = s => \A o \in Tickets : session[o].from # t
        BY <3>1, <3>2 DEF TokenIsOnce
      <3>7. errand'[v].pc # "issue"
        BY <1>6, <1>9, <2>2
      <3>8. \A w \in Errands \ {v} : errand'[w].pc = errand[w].pc /\ errand'[w].ticket = errand[w].ticket
        BY <1>4
      <3>9. QED
        BY <1>3, <3>2, <3>3, <3>4, <3>5, <3>6, <3>7, <3>8 DEF TokenIsOnce
    <2>3. QED
      BY <1>1, <2>1, <2>2
  <1>14. QED
    BY <1>9, <1>10, <1>11, <1>12, <1>13 DEF AccountsHold

LEMMA KeepsSignOutEverywhere ==
  ASSUME AccountsHold, NEW u \in People, SignOutEverywhere(u)
  PROVE  AccountsHold'
  <1>1. PICK F \in SUBSET Tickets : F = {s \in Tickets : session[s].of = u /\ session[s].state # "NONE"}
    OBVIOUS
  <1>2. session' = [s \in Tickets |-> IF s \in F THEN [session[s] EXCEPT !.state = "ENDED"] ELSE session[s]]
    BY <1>1 DEF SignOutEverywhere, Ended
  <1>3. \A s \in F : session[s].state # "NONE"
    BY <1>1
  <1>4. session' \in [Tickets -> RefreshToken] /\ SessionsWear
    BY <1>2, <1>3, ManyWear
  <1>5. /\ user' = user /\ code' = code /\ errand' = errand /\ expected' = expected
        /\ shared' = shared /\ rushed' = rushed
    BY DEF SignOutEverywhere, marks
  <1>6. AccountsTyped'
    BY <1>4, <1>5 DEF AccountsHold, AccountsTyped
  <1>7. RecordsHold'
    <2>1. ASSUME NEW w \in Errands PROVE RowHolds(errand[w])'
      <3>1. CASE errand[w].pc \in AboutPcs
        <4>1. RowHolds(errand[w]) /\ errand[w].ticket \in Tickets \cup {NoTicket}
          BY <3>1, RowIsTyped DEF AccountsHold, RecordsHold
        <4>2. QED
          BY <1>4, <1>5, <3>1, <4>1 DEF RowHolds, SessionsWear
      <3>2. CASE errand[w].pc \notin AboutPcs
        BY <1>5, <3>2 DEF RowHolds
      <3>3. QED
        BY <3>1, <3>2
    <2>2. ASSUME NEW s \in Tickets PROVE TokenHolds(s)'
      <3>1. TokenHolds(s) /\ session[s].from \in Tickets \cup {NoTicket}
        BY DEF AccountsHold, RecordsHold, AccountsTyped, RefreshToken
      <3>2. QED
        BY <1>4, <1>5, <3>1 DEF TokenHolds, SessionsWear
    <2>3. QED
      BY <2>1, <2>2 DEF RecordsHold
  <1>8. SessionsFit'
    BY <1>4, <1>5 DEF AccountsHold, SessionsFit, RowFits, TokenFits, Closes, SessionsWear
  <1>9. TokensAreOnce'
    BY <1>4, <1>5 DEF AccountsHold, TokensAreOnce, TokenIsOnce, Holding, SessionsWear
  <1>10. CodesHold'
    BY <1>5 DEF AccountsHold, CodesHold, CodeIsLimited, Sending, Uses
  <1>11. QED
    BY <1>6, <1>7, <1>8, <1>9, <1>10 DEF AccountsHold

-----------------------------------------------------------------------------
(***************************************************************************)
(* The steps that open an account and a session.                           *)
(***************************************************************************)
LEMMA KeepsIssue ==
  ASSUME AccountsHold, NEW v \in Errands, Issue(v)
  PROVE  AccountsHold'
  <1>1. PICK n \in Tickets :
          /\ session[n].state = "NONE"
          /\ session' = [session EXCEPT ![n] =
               [state |-> "LIVE", of |-> errand[v].of, password |-> errand[v].password,
                from |-> errand[v].ticket, late |-> errand[v].late]]
    BY DEF Issue
  <1>2. PICK t : t = errand[v].ticket
    OBVIOUS
  <1>3. /\ errand[v].pc = "issue" /\ errand[v].pc \in AboutPcs /\ AccountsTyped
        /\ UNCHANGED <<user, code, marks>> /\ errand' = [errand EXCEPT ![v] = Waiting] /\ expected' = expected
    BY DEF Issue, Gone, AboutPcs, Carrying, AccountsHold
  <1>4. RowHolds(errand[v]) /\ RowFits(v, errand[v]) /\ errand[v] \in AboutRow /\ t \in Tickets \cup {NoTicket}
    BY <1>2, <1>3, RowIsTyped DEF AccountsHold, RecordsHold, SessionsFit
  <1>5. /\ session'[n].state = "LIVE" /\ session'[n].of = errand[v].of /\ session'[n].password = errand[v].password
        /\ session'[n].from = t /\ session'[n].late = errand[v].late /\ session'[n] \in RefreshToken
    BY <1>1, <1>2, <1>3, <1>4, RowIsTyped DEF AccountsTyped, RefreshToken
  <1>6. \A s \in Tickets \ {n} : session'[s] = session[s]
    BY <1>1, <1>3 DEF AccountsTyped
  <1>7. session' \in [Tickets -> RefreshToken] /\ shared' = shared /\ rushed' = rushed
    BY <1>1, <1>3, <1>5 DEF AccountsTyped, marks
  <1>8. errand'[v].pc = "new" /\ \A w \in Errands \ {v} : errand'[w] = errand[w]
    BY <1>3, ErrandRowsApart DEF AccountsTyped
  <1>9. OthersAlike(v) /\ AccountsTyped'
    <2>1. PICK e \in ErrandRow : e = Waiting
      BY ErrandRowsApart
    <2>2. QED
      BY <1>3, <1>7, <2>1, ErrandStepIsTyped DEF AccountsTyped
  <1>10. n # NoTicket
    BY AccountsAssumption DEF AccountsAssumption
  <1>11. t # NoTicket => t # n
    BY <1>1, <1>2, <1>4, <1>3 DEF RowHolds
  <1>12. ASSUME NEW s \in Tickets PROVE session[s].from # n
    <2>1. TokenHolds(s)
      BY DEF AccountsHold, RecordsHold
    <2>2. QED
      BY <1>1, <1>10, <2>1 DEF TokenHolds
  <1>13. RecordsHold'
    <2>1. ASSUME NEW w \in Errands PROVE RowHolds(errand[w])'
      <3>1. CASE w # v /\ errand[w].pc \in AboutPcs
        <4>1. /\ RowHolds(errand[w]) /\ errand[w].ticket \in Tickets \cup {NoTicket} /\ errand'[w] = errand[w]
          BY <1>8, <3>1, RowIsTyped DEF AccountsHold, RecordsHold
        <4>2. errand[w].ticket # NoTicket => errand[w].ticket # n
          BY <1>1, <3>1, <4>1 DEF RowHolds
        <4>3. QED
          BY <1>3, <1>6, <3>1, <4>1, <4>2 DEF RowHolds
      <3>2. CASE w = v \/ errand[w].pc \notin AboutPcs
        BY <1>8, <3>2, ErrandRowsApart DEF RowHolds
      <3>3. QED
        BY <3>1, <3>2
    <2>2. ASSUME NEW s \in Tickets PROVE TokenHolds(s)'
      <3>1. CASE s = n
        <4>1. t # NoTicket => t \in Tickets /\ session'[t].state # "NONE"
          BY <1>3, <1>2, <1>4, <1>6, <1>11 DEF RowHolds
        <4>2. user'[errand[v].of].state # "NONE" /\ (user'[errand[v].of].state = "ERASED" => errand[v].late)
          BY <1>3, <1>4 DEF RowHolds, Carrying
        <4>3. QED
          BY <1>5, <3>1, <4>1, <4>2 DEF TokenHolds
      <3>2. CASE s # n
        <4>1. TokenHolds(s) /\ session[s].from \in Tickets \cup {NoTicket}
          BY DEF AccountsHold, RecordsHold, AccountsTyped, RefreshToken
        <4>2. QED
          BY <1>3, <1>6, <1>12, <3>2, <4>1 DEF TokenHolds
      <3>3. QED
        BY <3>1, <3>2
    <2>3. QED
      BY <2>1, <2>2 DEF RecordsHold
  <1>14. SessionsFit'
    <2>1. \A w \in Errands, u \in People : Closes(w, u)' <=> Closes(w, u)
      BY <1>3, <1>8 DEF Closes
    <2>2. ASSUME NEW w \in Errands PROVE RowFits(w, errand[w])'
      <3>1. CASE w = v
        BY <1>8, <3>1 DEF RowFits, Carrying
      <3>2. CASE w # v
        <4>1. RowFits(w, errand[w]) /\ errand'[w] = errand[w]
          BY <1>8, <3>2 DEF AccountsHold, SessionsFit
        <4>2. PICK u : u = errand[w].of
          OBVIOUS
        <4>3. \A o \in Errands : Closes(o, u)' <=> Closes(o, u)
          BY <1>3, <1>8 DEF Closes
        <4>4. QED
          BY <1>3, <4>1, <4>2, <4>3 DEF RowFits, Closes
      <3>3. QED
        BY <3>1, <3>2
    <2>3. ASSUME NEW s \in Tickets PROVE TokenFits(s)'
      <3>1. CASE s = n
        <4>1. PICK u : u = errand[v].of
          OBVIOUS
        <4>2. /\ \/ errand[v].late \/ errand[v].password = user'[u].password
                 \/ \E w \in Errands : Closes(w, u)
              /\ \A w \in Errands : Closes(w, u)' <=> Closes(w, u)
          BY <1>3, <1>4, <1>8, <4>1 DEF RowFits, Carrying, Closes
        <4>3. \/ session'[n].late \/ session'[n].password = user'[session'[n].of].password
              \/ \E w \in Errands : errand'[w].pc \in {"used", "end"} /\ errand'[w].of = session'[n].of
          BY <1>5, <4>1, <4>2 DEF Closes
        <4>4. QED
          BY <3>1, <4>3 DEF TokenFits, Closes
      <3>2. CASE s # n
        <4>1. TokenFits(s) /\ session'[s] = session[s] /\ session[s].of \in People
          BY <1>6, <3>2 DEF AccountsHold, SessionsFit, AccountsTyped, RefreshToken
        <4>2. QED
          BY <1>3, <2>1, <4>1 DEF TokenFits, Closes
      <3>3. QED
        BY <3>1, <3>2
    <2>4. QED
      BY <2>2, <2>3 DEF SessionsFit
  <1>15. TokensAreOnce'
    <2> SUFFICES ASSUME NEW z \in Tickets, z \notin shared' PROVE TokenIsOnce(z)'
      BY DEF TokensAreOnce
    <2>1. TokenIsOnce(z) /\ z # NoTicket
      BY <1>7, AccountsAssumption DEF AccountsAssumption, AccountsHold, TokensAreOnce
    <2>2. \A w \in Errands : Holding(w, z)' => w # v /\ Holding(w, z)
      BY <1>8 DEF Holding, Exchanging
    <2>3. t = z => Holding(v, z) /\ session[z].state # "LIVE" /\ \A s \in Tickets : session[s].from # z
      BY <1>2, <1>3, <2>1 DEF TokenIsOnce, Holding
    <2>4. t = z => z # n /\ \A w \in Errands : ~Holding(w, z)'
      BY <1>11, <2>1, <2>2, <2>3 DEF TokenIsOnce
    <2>5. z = n => \A s \in Tickets : session'[s].from # z
      BY <1>5, <1>6, <1>11, <1>12, <2>1
    <2>6. ASSUME NEW w \in Errands, errand'[w].pc = "issue", errand'[w].ticket = z PROVE session'[z].state # "LIVE"
      <3>1. w # v /\ errand'[w] = errand[w]
        BY <1>8, <2>6
      <3>2. session[z].state # "LIVE" /\ RowHolds(errand[w])
        BY <2>1, <2>6, <3>1 DEF TokenIsOnce, AccountsHold, RecordsHold
      <3>3. z # n
        BY <1>1, <2>1, <2>6, <3>1, <3>2 DEF RowHolds, AboutPcs, Carrying
      <3>4. QED
        BY <1>6, <3>2, <3>3
    <2>7. \A s, o \in Tickets : session'[s].from = z /\ session'[o].from = z => s = o
      BY <1>5, <1>6, <2>1, <2>3 DEF TokenIsOnce
    <2>8. ASSUME NEW s \in Tickets, session'[s].from = z
          PROVE  session'[z].state # "LIVE" /\ \A w \in Errands : ~Holding(w, z)'
      <3>1. CASE s = n
        BY <1>5, <1>6, <2>3, <2>4, <2>8, <3>1
      <3>2. CASE s # n
        BY <1>6, <2>1, <2>2, <2>5, <2>8, <3>2 DEF TokenIsOnce
      <3>3. QED
        BY <3>1, <3>2
    <2>9. \A w, o \in Errands : Holding(w, z)' /\ Holding(o, z)' => w = o
      BY <2>1, <2>2 DEF TokenIsOnce
    <2>10. QED
      BY <2>6, <2>7, <2>8, <2>9 DEF TokenIsOnce
  <1>16. CodesHold'
    BY <1>3, <1>7, <1>8, <1>9, CodesRest DEF AccountsHold
  <1>17. QED
    BY <1>9, <1>13, <1>14, <1>15, <1>16 DEF AccountsHold

LEMMA KeepsCreateUser ==
  ASSUME AccountsHold, NEW v \in Errands, CreateUser(v)
  PROVE  AccountsHold'
  <1>1. /\ errand[v].pc = "create" /\ UNCHANGED <<session, code, marks>> /\ AccountsTyped
        /\ errand[v] \in ErrandRow /\ errand[v].email \in Emails
    BY ErrandRowsApart DEF CreateUser, AccountsHold, AccountsTyped
  <1>2. session' \in [Tickets -> RefreshToken] /\ SessionsWear
    BY <1>1, NoSessionGoes DEF AccountsTyped
  <1>3. CASE \E u \in People : user[u].email = errand[v].email
    <2>1. Gone(v) /\ UNCHANGED user
      BY <1>3 DEF CreateUser
    <2>2. QED
      BY <1>1, <1>2, <2>1, QuietEnd
  <1>4. CASE ~ \E u \in People : user[u].email = errand[v].email
    <2>1. PICK u \in People :
            /\ user[u].state = "NONE"
            /\ user' = [user EXCEPT ![u] = [state |-> "ACTIVE", email |-> errand[v].email, password |-> 0]]
            /\ errand' = [errand EXCEPT ![v] = [pc |-> "issue", of |-> u, password |-> 0,
                              ticket |-> NoTicket, code |-> 0, late |-> FALSE]]
            /\ UNCHANGED expected
      BY <1>4 DEF CreateUser
    <2>2. PICK e : e = [pc |-> "issue", of |-> u, password |-> 0, ticket |-> NoTicket, code |-> 0, late |-> FALSE]
      OBVIOUS
    <2>3. /\ e \in AboutRow /\ e \in ErrandRow /\ e.pc = "issue" /\ e.of = u /\ e.password = 0
          /\ e.ticket = NoTicket /\ e.code = 0 /\ e.late = FALSE
      BY <2>2 DEF AboutRow, ErrandRow, AboutPcs, Carrying
    <2>4. /\ user'[u].state = "ACTIVE" /\ user'[u].password = 0 /\ user'[u] \in User
          /\ \A w \in People \ {u} : user'[w] = user[w]
      BY <1>1, <2>1 DEF AccountsTyped, User
    <2>5. user' \in [People -> User] /\ shared' = shared /\ rushed' = rushed
      BY <1>1, <2>1, <2>4 DEF AccountsTyped, marks
    <2>6. errand'[v] = e /\ OthersAlike(v) /\ AccountsTyped'
      BY <1>1, <1>2, <2>1, <2>2, <2>3, <2>5, ErrandStepIsTyped DEF AccountsTyped
    <2>7. UsersLast /\ CodesGrow
      BY <1>1, <2>1, <2>4 DEF UsersLast, CodesGrow, AccountsTyped, ResetCode
    <2>8. RecordsHold'
      <3>1. code'[u].number \in Nat
        BY <1>1 DEF AccountsTyped, ResetCode
      <3>2. e.code <= code'[e.of].number
        BY <2>3, <3>1
      <3>3. RowHolds(errand[v])'
        BY <2>3, <2>4, <2>6, <3>2 DEF RowHolds, Exchanging, Changing
      <3>4. QED
        BY <1>1, <1>2, <2>6, <2>7, <3>3, RecordsStay DEF AccountsHold
    <2>9. \A w \in Errands \ {v} : errand'[w] = errand[w]
      BY <1>1, <2>1 DEF AccountsTyped
    <2>10. SessionsFit'
      <3>1. \A w \in Errands, o \in People : Closes(w, o) => Closes(w, o)'
        BY <1>1, <2>9 DEF Closes
      <3>2. ASSUME NEW w \in Errands PROVE RowFits(w, errand[w])'
        <4>1. CASE w = v
          BY <2>3, <2>4, <2>6, <4>1 DEF RowFits
        <4>2. CASE w # v /\ errand[w].pc \in Carrying
          <5>1. RowFits(w, errand[w]) /\ RowHolds(errand[w]) /\ errand[w].pc \in AboutPcs /\ errand'[w] = errand[w]
            BY <2>9, <4>2 DEF AccountsHold, SessionsFit, RecordsHold, AboutPcs
          <5>2. PICK o : o = errand[w].of
            OBVIOUS
          <5>3. o \in People /\ o # u
            BY <1>1, <2>1, <5>1, <5>2, RowIsTyped DEF RowHolds
          <5>4. \/ errand[w].late \/ errand[w].password = user'[o].password
                \/ \E z \in Errands \ {w} : Closes(z, o)'
            BY <2>4, <3>1, <4>2, <5>1, <5>2, <5>3 DEF RowFits
          <5>5. QED
            BY <5>1, <5>2, <5>4 DEF RowFits, Closes
        <4>3. CASE w # v /\ errand[w].pc \notin Carrying
          BY <2>9, <4>3 DEF RowFits
        <4>4. QED
          BY <4>1, <4>2, <4>3
      <3>3. ASSUME NEW s \in Tickets PROVE TokenFits(s)'
        <4>1. /\ TokenFits(s) /\ TokenHolds(s) /\ session'[s] = session[s] /\ session[s].of \in People
          BY <1>1 DEF AccountsHold, SessionsFit, RecordsHold, AccountsTyped, RefreshToken
        <4>2. session[s].state = "LIVE" => session[s].of # u
          BY <2>1, <4>1 DEF TokenHolds
        <4>3. QED
          BY <2>4, <3>1, <4>1, <4>2 DEF TokenFits, Closes
      <3>4. QED
        BY <3>2, <3>3 DEF SessionsFit
    <2>11. NoTicket \notin Tickets
      BY AccountsAssumption DEF AccountsAssumption
    <2>12. TokensAreOnce'
      BY <1>2, <2>3, <2>5, <2>6, <2>11, OnceStays DEF AccountsHold, Holding
    <2>13. CodesHold'
      BY <1>1, <2>3, <2>5, <2>6, CodesRest DEF AccountsHold
    <2>14. QED
      BY <2>6, <2>8, <2>10, <2>12, <2>13 DEF AccountsHold
  <1>5. QED
    BY <1>3, <1>4

-----------------------------------------------------------------------------
(***************************************************************************)
(* The steps that send a code and use one.                                 *)
(***************************************************************************)
\* All but the codes, in a step that keeps every account and session.
LEMMA AllButCodes ==
  ASSUME AccountsHold, AccountsTyped', NEW v \in Errands, OthersAlike(v),
         UNCHANGED <<user, session, shared>>, CodesGrow, RowHolds(errand[v])', RowFits(v, errand[v])',
         errand'[v].pc \notin {"holder", "rotate"},
         errand'[v].pc = "issue" => errand'[v].ticket = NoTicket,
         \A u \in People : Closes(v, u) => Closes(v, u)',
         CodesHold'
  PROVE  AccountsHold'
  <1>1. UsersLast /\ SessionsWear
    BY NoSessionGoes DEF UsersLast
  <1>2. RecordsHold'
    BY <1>1, RecordsStay DEF AccountsHold
  <1>3. SessionsFit'
    BY <1>1, FitsStay DEF AccountsHold
  <1>4. TokensAreOnce'
    <2>1. NoTicket \notin Tickets
      BY AccountsAssumption DEF AccountsAssumption
    <2>2. \A t \in Tickets : ~Holding(v, t)'
      BY <2>1 DEF Holding, Exchanging
    <2>3. QED
      BY <1>1, <2>2, OnceStays DEF AccountsHold
  <1>5. QED
    BY <1>2, <1>3, <1>4 DEF AccountsHold

\* What holds of the codes of an account that a step is not about.
LEMMA OtherCodes ==
  ASSUME AccountsHold, NEW v \in Errands, OthersAlike(v), rushed \subseteq rushed', NEW u \in People,
         \A o \in People \ {u} : code'[o] = code[o],
         errand[v].pc \in AboutPcs => errand[v].of = u,
         errand'[v].pc \in {"new", "create"} \/ errand'[v].of = u
  PROVE  \A o \in People \ {u} : (o \notin rushed' => CodeIsLimited(o)')
                                 /\ (code'[o].state = "OPEN" => code'[o].number # 0)
  <1> SUFFICES ASSUME NEW o \in People, o # u PROVE (o \notin rushed' => CodeIsLimited(o)')
                                 /\ (code'[o].state = "OPEN" => code'[o].number # 0)
    OBVIOUS
  <1>1. code'[o] = code[o] /\ (code[o].state = "OPEN" => code[o].number # 0)
        /\ (o \notin rushed' => CodeIsLimited(o))
    BY DEF AccountsHold, CodesHold
  <1>2. \A w \in Errands \ {v} : (Sending(w, o)' <=> Sending(w, o)) /\ (Uses(w, o)' <=> Uses(w, o))
    BY <1>1 DEF Sending, Uses, OthersAlike, Alike, AboutPcs, Carrying
  <1>3. ~Sending(v, o) /\ ~Uses(v, o) /\ ~Sending(v, o)' /\ ~Uses(v, o)'
    BY DEF Sending, Uses, AboutPcs, Carrying
  <1>4. \A w \in Errands \ {v} : errand'[w].pc = errand[w].pc
    BY DEF OthersAlike, Alike
  <1>5. QED
    BY <1>1, <1>2, <1>3, <1>4 DEF CodeIsLimited

LEMMA KeepsAskForResetCode ==
  ASSUME AccountsHold, NEW v \in Errands, NEW u \in People, AskForResetCode(v, u)
  PROVE  AccountsHold'
  <1>1. PICK e : e = About(u, "send")
    OBVIOUS
  <1>2. "send" \in AboutPcs /\ user[u].state = "ACTIVE" /\ AccountsTyped
    BY DEF AskForResetCode, AboutPcs, Active, AccountsHold
  <1>3. e \in ErrandRow /\ e.pc = "send" /\ e.of = u /\ e.ticket = NoTicket /\ e.code = 0
    BY <1>1, <1>2, AboutIsARow
  <1>4. /\ errand' = [errand EXCEPT ![v] = e] /\ errand[v].pc = "new" /\ expected > 0 /\ expected' = expected - 1
        /\ UNCHANGED <<user, session, code, shared>> /\ code[u].number < CodeLimit
        /\ rushed' = IF {w \in For(u) : errand[w].pc = "send"} # {} THEN rushed \cup {u} ELSE rushed
    BY <1>1 DEF AskForResetCode, Begins, Rushing
  <1>5. errand'[v] = e /\ OthersAlike(v) /\ AccountsTyped'
    BY <1>2, <1>3, <1>4, ErrandStepIsTyped DEF AccountsTyped
  <1>6. code[u].number \in Nat /\ CodesGrow
    BY <1>2, <1>4 DEF AccountsTyped, ResetCode, CodesGrow
  <1>7. RowHolds(errand[v])'
    <2>1. e.code <= code'[e.of].number
      BY <1>3, <1>4, <1>6
    <2>2. QED
      BY <1>2, <1>3, <1>4, <1>5, <2>1 DEF RowHolds, Carrying, Changing, Exchanging
  <1>8. RowFits(v, errand[v])'
    BY <1>3, <1>5 DEF RowFits, Carrying
  <1>9. CodesHold'
    <2>1. \A o \in People \ {u} : (o \notin rushed' => CodeIsLimited(o)')
                                  /\ (code'[o].state = "OPEN" => code'[o].number # 0)
      BY <1>3, <1>4, <1>5, ErrandRowsApart, OtherCodes
    <2>2. code'[u].state = "OPEN" => code'[u].number # 0
      BY <1>4 DEF AccountsHold, CodesHold
    <2>3. ASSUME u \notin rushed' PROVE CodeIsLimited(u)'
      <3>1. CodeIsLimited(u) /\ \A w \in Errands : ~Sending(w, u)
        BY <1>4, <2>3 DEF AccountsHold, CodesHold, For, Sending
      <3>2. \A w \in Errands \ {v} : ~Sending(w, u)' /\ (Uses(w, u)' <=> Uses(w, u)) /\ errand'[w].pc = errand[w].pc
        BY <1>4, <1>5, <3>1 DEF Sending, Uses, OthersAlike, Alike, AboutPcs, Carrying
      <3>3. ~Uses(v, u) /\ ~Uses(v, u)'
        BY <1>3, <1>4, <1>5 DEF Uses
      <3>4. QED
        BY <1>4, <3>1, <3>2, <3>3 DEF CodeIsLimited
    <2>4. QED
      BY <2>1, <2>2, <2>3 DEF CodesHold
  <1>10. QED
    BY <1>3, <1>4, <1>5, <1>6, <1>7, <1>8, <1>9, AllButCodes DEF Closes

LEMMA KeepsReset ==
  ASSUME AccountsHold, NEW v \in Errands, NEW u \in People, NEW pc \in {"wrong", "change"}, Reset(v, u, pc)
  PROVE  AccountsHold'
  <1>1. PICK d : d = About(u, pc)
    OBVIOUS
  <1>2. PICK n : n = code[u].number
    OBVIOUS
  <1>3. PICK e : e = [d EXCEPT !.code = n]
    OBVIOUS
  <1>4. pc \in AboutPcs /\ user[u].state = "ACTIVE" /\ AccountsTyped /\ code[u].state = "OPEN" /\ code[u].guesses < MaxGuesses
    BY DEF Reset, AboutPcs, Active, AccountsHold, CodeHolds
  <1>5. n \in Nat /\ n # 0
    BY <1>2, <1>4 DEF AccountsHold, CodesHold, AccountsTyped, ResetCode
  <1>6. d \in AboutRow /\ d.pc = pc /\ d.of = u /\ d.ticket = NoTicket
    BY <1>1, <1>4, AboutIsARow
  <1>7. e \in ErrandRow /\ e.pc = pc /\ e.of = u /\ e.ticket = NoTicket /\ e.code = n
    BY <1>3, <1>5, <1>6 DEF AboutRow, ErrandRow
  <1>8. /\ errand' = [errand EXCEPT ![v] = e] /\ errand[v].pc = "new" /\ expected > 0 /\ expected' = expected - 1
        /\ UNCHANGED <<user, session, code, shared>>
        /\ rushed' = IF Using(u) # {} THEN rushed \cup {u} ELSE rushed
    BY <1>1, <1>2, <1>3 DEF Reset, Begins, Rushing
  <1>9. errand'[v] = e /\ OthersAlike(v) /\ AccountsTyped'
    BY <1>4, <1>7, <1>8, ErrandStepIsTyped DEF AccountsTyped
  <1>10. CodesGrow
    BY <1>4, <1>8 DEF AccountsTyped, ResetCode, CodesGrow
  <1>11. RowHolds(errand[v])'
    <2>1. e.code <= code'[e.of].number
      BY <1>2, <1>5, <1>7, <1>8
    <2>2. QED
      BY <1>4, <1>5, <1>7, <1>8, <1>9, <2>1 DEF RowHolds, Carrying, Changing, Exchanging
  <1>12. RowFits(v, errand[v])'
    BY <1>7, <1>9 DEF RowFits, Carrying
  <1>13. CodesHold'
    <2>1. \A o \in People \ {u} : (o \notin rushed' => CodeIsLimited(o)')
                                  /\ (code'[o].state = "OPEN" => code'[o].number # 0)
      BY <1>7, <1>8, <1>9, ErrandRowsApart, OtherCodes
    <2>2. code'[u].state = "OPEN" => code'[u].number # 0
      BY <1>8 DEF AccountsHold, CodesHold
    <2>3. ASSUME u \notin rushed' PROVE CodeIsLimited(u)'
      <3>1. CodeIsLimited(u) /\ \A w \in Errands : ~Uses(w, u)
        BY <1>8, <2>3 DEF AccountsHold, CodesHold, For, Uses, Using
      <3>2. \A w \in Errands \ {v} : ~Uses(w, u)' /\ (Sending(w, u)' <=> Sending(w, u)) /\ errand'[w].pc = errand[w].pc
        BY <1>8, <1>9, <3>1 DEF Sending, Uses, OthersAlike, Alike, AboutPcs, Carrying
      <3>3. ~Sending(v, u) /\ ~Sending(v, u)'
        BY <1>7, <1>8, <1>9 DEF Sending
      <3>4. code[u].spent = 0
        BY <1>4, <3>1 DEF CodeIsLimited
      <3>5. QED
        BY <1>4, <1>8, <3>1, <3>2, <3>3, <3>4 DEF CodeIsLimited
    <2>4. QED
      BY <2>1, <2>2, <2>3 DEF CodesHold
  <1>14. QED
    BY <1>7, <1>8, <1>9, <1>10, <1>11, <1>12, <1>13, AllButCodes DEF Closes

\* An errand about a code that goes no further.
LEMMA CodeStepEnds ==
  ASSUME AccountsHold, NEW v \in Errands, NEW u \in People, NEW c \in ResetCode, Gone(v),
         errand[v].pc \in {"send", "wrong"}, errand[v].of = u, code' = [code EXCEPT ![u] = c],
         UNCHANGED <<user, session, marks>>, code[u].number <= c.number,
         c.state = "OPEN" => c.number # 0,
         errand'[v].pc = "new" => (u \notin rushed' => CodeIsLimited(u)')
  PROVE  AccountsHold'
  <1>1. PICK e \in ErrandRow : e = Waiting
    BY ErrandRowsApart
  <1>2. /\ errand' = [errand EXCEPT ![v] = e] /\ e.pc = "new" /\ expected' = expected
        /\ shared' = shared /\ rushed' = rushed /\ AccountsTyped
    BY <1>1, ErrandRowsApart DEF Gone, marks, AccountsHold
  <1>3. code' \in [People -> ResetCode] /\ code'[u] = c /\ \A o \in People \ {u} : code'[o] = code[o]
    BY <1>2 DEF AccountsTyped
  <1>4. errand'[v] = e /\ OthersAlike(v) /\ AccountsTyped'
    BY <1>2, <1>3, ErrandStepIsTyped DEF AccountsTyped
  <1>5. CodesGrow
    <2>1. \A o \in People : code[o].number \in Nat
      BY <1>2 DEF AccountsTyped, ResetCode
    <2>2. QED
      BY <1>3, <2>1 DEF CodesGrow
  <1>6. RowHolds(errand[v])' /\ RowFits(v, errand[v])'
    BY <1>2, <1>4 DEF RowHolds, RowFits, AboutPcs, Carrying
  <1>7. CodesHold'
    <2>1. \A o \in People \ {u} : (o \notin rushed' => CodeIsLimited(o)')
                                  /\ (code'[o].state = "OPEN" => code'[o].number # 0)
      BY <1>2, <1>3, <1>4, OtherCodes
    <2>2. u \notin rushed' => CodeIsLimited(u)'
      BY <1>2, <1>4
    <2>3. code'[u].state = "OPEN" => code'[u].number # 0
      BY <1>3
    <2>4. QED
      BY <2>1, <2>2, <2>3 DEF CodesHold
  <1>8. QED
    BY <1>2, <1>4, <1>5, <1>6, <1>7, AllButCodes DEF Closes

LEMMA KeepsSendCode ==
  ASSUME AccountsHold, NEW v \in Errands, SendCode(v)
  PROVE  AccountsHold'
  <1>1. errand[v].pc = "send" /\ errand[v].pc \in AboutPcs /\ Gone(v) /\ UNCHANGED <<user, session, marks>> /\ AccountsTyped
    BY DEF SendCode, AboutPcs, AccountsHold
  <1>2. PICK u : u = errand[v].of
    OBVIOUS
  <1>3. u \in People
    BY <1>1, <1>2, RowIsTyped
  <1>4. code[u].number \in Nat
    BY <1>1, <1>3 DEF AccountsTyped, ResetCode
  <1>5. PICK c : c = [number |-> code[u].number + 1, state |-> "OPEN", guesses |-> 0, spent |-> 0]
    OBVIOUS
  <1>6. c \in ResetCode /\ c.number = code[u].number + 1 /\ c.state = "OPEN" /\ c.guesses = 0 /\ c.spent = 0
    BY <1>4, <1>5 DEF ResetCode
  <1>7. code' = [code EXCEPT ![u] = c]
    BY <1>1, <1>2, <1>5 DEF SendCode
  <1>8. code'[u] = c /\ rushed' = rushed /\ \A w \in Errands \ {v} : errand'[w] = errand[w]
    BY <1>1, <1>3, <1>7 DEF AccountsTyped, marks, Gone
  <1>9. ASSUME errand'[v].pc = "new", u \notin rushed' PROVE CodeIsLimited(u)'
    <2>1. CodeIsLimited(u) /\ Sending(v, u)
      BY <1>1, <1>2, <1>3, <1>8, <1>9 DEF AccountsHold, CodesHold, Sending
    <2>2. code[u].number < CodeLimit /\ \A w \in Errands : Sending(w, u) => w = v
      BY <2>1 DEF CodeIsLimited
    <2>3. \A w \in Errands : ~Sending(w, u)'
      BY <1>8, <1>9, <2>2 DEF Sending
    <2>4. ASSUME NEW w \in Errands, Uses(w, u)' PROVE FALSE
      <3>1. w # v /\ errand'[w] = errand[w] /\ errand[w].pc \in AboutPcs /\ errand[w].of = u /\ errand[w].code = c.number
        BY <1>8, <1>9, <2>4 DEF Uses, AboutPcs, Carrying
      <3>2. RowHolds(errand[w])
        BY DEF AccountsHold, RecordsHold
      <3>3. errand[w].code <= code[u].number
        BY <3>1, <3>2 DEF RowHolds
      <3>4. QED
        BY <1>4, <1>6, <3>1, <3>3
    <2>5. CodeLimit \in Nat /\ MaxGuesses \in Nat
      BY AccountsAssumption DEF AccountsAssumption
    <2>6. code'[u].number <= CodeLimit /\ code'[u].guesses <= MaxGuesses /\ code'[u].spent <= 1 /\ code'[u].spent = 0
      BY <1>4, <1>6, <1>8, <2>2, <2>5
    <2>7. QED
      BY <2>3, <2>4, <2>6 DEF CodeIsLimited
  <1>10. code[u].number <= c.number /\ c.number # 0
    BY <1>4, <1>6
  <1>11. QED
    BY <1>1, <1>2, <1>3, <1>6, <1>7, <1>9, <1>10, CodeStepEnds

LEMMA KeepsRecordFailedAttempt ==
  ASSUME AccountsHold, NEW v \in Errands, RecordFailedAttempt(v)
  PROVE  AccountsHold'
  <1>1. errand[v].pc = "wrong" /\ errand[v].pc \in AboutPcs /\ Gone(v) /\ UNCHANGED <<user, session, marks>> /\ AccountsTyped
    BY DEF RecordFailedAttempt, AboutPcs, AccountsHold
  <1>2. PICK u : u = errand[v].of
    OBVIOUS
  <1>3. u \in People
    BY <1>1, <1>2, RowIsTyped
  <1>4. /\ code[u] \in ResetCode /\ code[u].number \in Nat /\ code[u].guesses \in Nat /\ code[u].spent \in Nat
        /\ (code[u].state = "OPEN" => code[u].number # 0)
    BY <1>1, <1>3 DEF AccountsHold, CodesHold, AccountsTyped, ResetCode
  <1>5. PICK g : g = code[u].guesses + 1
    OBVIOUS
  <1>6. PICK c : c = IF Held(v) THEN [code[u] EXCEPT !.guesses = g] ELSE code[u]
    OBVIOUS
  <1>7. /\ c \in ResetCode /\ c.number = code[u].number /\ c.state = code[u].state /\ c.spent = code[u].spent
        /\ c.guesses = IF Held(v) THEN g ELSE code[u].guesses
    <2>1. g \in Nat
      BY <1>4, <1>5
    <2>2. CASE Held(v)
      BY <1>4, <1>6, <2>1, <2>2 DEF ResetCode
    <2>3. CASE ~Held(v)
      BY <1>4, <1>6, <2>3
    <2>4. QED
      BY <2>2, <2>3
  <1>8. code' = [code EXCEPT ![u] = c]
    <2>1. CASE Held(v)
      BY <1>1, <1>2, <1>3, <1>5, <1>6, <2>1 DEF RecordFailedAttempt, AccountsTyped
    <2>2. CASE ~Held(v)
      BY <1>1, <1>3, <1>6, <2>2 DEF RecordFailedAttempt, AccountsTyped
    <2>3. QED
      BY <2>1, <2>2
  <1>9. code'[u] = c /\ rushed' = rushed /\ \A w \in Errands \ {v} : errand'[w] = errand[w]
    BY <1>1, <1>3, <1>8 DEF AccountsTyped, marks, Gone
  <1>10. ASSUME errand'[v].pc = "new", u \notin rushed' PROVE CodeIsLimited(u)'
    <2>1. CodeIsLimited(u) /\ errand[v].code # 0
      <3>1. RowHolds(errand[v])
        BY DEF AccountsHold, RecordsHold
      <3>2. QED
        BY <1>1, <1>3, <1>9, <1>10, <3>1 DEF AccountsHold, CodesHold, RowHolds
    <2>2. Held(v) => Uses(v, u) /\ code[u].guesses < MaxGuesses /\ \A w \in Errands : Uses(w, u) => w = v
      BY <1>1, <1>2, <2>1 DEF CodeIsLimited, Uses, Held
    <2>3. code'[u].guesses <= MaxGuesses
      BY <1>4, <1>5, <1>7, <1>9, <2>1, <2>2, AccountsAssumption DEF CodeIsLimited, AccountsAssumption
    <2>4. \A w \in Errands : (Sending(w, u)' => Sending(w, u)) /\ (Uses(w, u)' <=> w # v /\ Uses(w, u))
      BY <1>7, <1>9, <1>10 DEF Sending, Uses
    <2>5. \A w \in Errands : Uses(w, u)' => ~Held(v)
      BY <2>2, <2>4
    <2>6. \A w \in Errands : Uses(w, u)' => errand'[w] = errand[w] /\ code'[u].guesses = code[u].guesses
      BY <1>7, <1>9, <2>4, <2>5
    <2>7. code'[u].state = "OPEN" /\ code'[u].spent # 0 => \E w \in Errands : Uses(w, u)' /\ errand'[w].pc = "used"
      BY <1>1, <1>7, <1>9, <2>1, <2>4 DEF CodeIsLimited
    <2>8. \A w \in Errands : Uses(w, u)' /\ errand'[w].pc = "change" => code'[u].spent = 0
      BY <1>7, <1>9, <2>1, <2>4 DEF CodeIsLimited
    <2>9. \A w \in Errands : Uses(w, u)' /\ errand'[w].pc = "wrong" => code'[u].guesses < MaxGuesses
      BY <2>1, <2>4, <2>6 DEF CodeIsLimited
    <2>10. code'[u].number <= CodeLimit /\ code'[u].spent <= 1
      BY <1>7, <1>9, <2>1 DEF CodeIsLimited
    <2>11. \A w \in Errands : Sending(w, u)' => code'[u].number < CodeLimit
      BY <1>7, <1>9, <2>1, <2>4 DEF CodeIsLimited
    <2>12. QED
      BY <2>1, <2>3, <2>4, <2>7, <2>8, <2>9, <2>10, <2>11 DEF CodeIsLimited
  <1>11. code[u].number <= c.number /\ (c.state = "OPEN" => c.number # 0)
    BY <1>4, <1>7
  <1>12. QED
    BY <1>1, <1>2, <1>3, <1>7, <1>8, <1>10, <1>11, CodeStepEnds

LEMMA KeepsUpdatePasswordHash ==
  ASSUME AccountsHold, NEW v \in Errands, UpdatePasswordHash(v)
  PROVE  AccountsHold'
  <1>1. /\ errand[v].pc = "change" /\ errand[v].pc \in AboutPcs /\ AccountsTyped
        /\ session' = session /\ expected' = expected /\ shared' = shared /\ rushed' = rushed
    BY DEF UpdatePasswordHash, AboutPcs, AccountsHold, marks
  <1>2. PICK u : u = errand[v].of
    OBVIOUS
  <1>3. u \in People /\ errand[v] \in AboutRow /\ errand[v].code \in Nat /\ RowHolds(errand[v])
    BY <1>1, <1>2, RowIsTyped DEF AccountsHold, RecordsHold
  <1>4. /\ user[u] \in User /\ user[u].password \in Nat /\ code[u] \in ResetCode /\ code[u].number \in Nat
        /\ code[u].spent \in Nat /\ (code[u].state = "OPEN" => code[u].number # 0)
    BY <1>1, <1>3 DEF AccountsHold, CodesHold, AccountsTyped, User, ResetCode
  <1>5. PICK h : h = user[u].password + 1
    OBVIOUS
  <1>6. PICK late : late = ~Active(u)
    OBVIOUS
  <1>7. PICK e : e = [errand[v] EXCEPT !.pc = IF errand[v].code # 0 THEN "used" ELSE "end",
                                       !.password = h, !.late = late]
    OBVIOUS
  <1>8. /\ e \in AboutRow /\ e \in ErrandRow /\ e.pc = IF errand[v].code # 0 THEN "used" ELSE "end"
        /\ e.of = u /\ e.password = h /\ e.ticket = errand[v].ticket /\ e.code = errand[v].code /\ e.late = late
    <2>1. late \in BOOLEAN
      BY <1>6
    <2>2. PICK pc : pc = IF errand[v].code # 0 THEN "used" ELSE "end"
      OBVIOUS
    <2>3. pc \in AboutPcs /\ h \in Nat
      BY <1>4, <1>5, <2>2 DEF AboutPcs, Carrying
    <2>4. e = [errand[v] EXCEPT !.pc = pc, !.password = h, !.late = late]
      BY <1>7, <2>2
    <2>5. /\ e \in AboutRow /\ e.pc = pc /\ e.of = errand[v].of /\ e.password = h
          /\ e.ticket = errand[v].ticket /\ e.code = errand[v].code /\ e.late = late
      BY <1>3, <2>1, <2>3, <2>4 DEF AboutRow
    <2>6. QED
      BY <1>2, <2>2, <2>5 DEF ErrandRow
  <1>9. errand' = [errand EXCEPT ![v] = e]
    BY <1>1, <1>2, <1>5, <1>6, <1>7 DEF UpdatePasswordHash, AccountsTyped
  <1>10. /\ user' \in [People -> User] /\ user'[u].password = h /\ user'[u].state = user[u].state
         /\ \A o \in People \ {u} : user'[o] = user[o]
    <2>1. user' = [user EXCEPT ![u].password = h]
      BY <1>2, <1>5 DEF UpdatePasswordHash
    <2>2. PICK r : r = [user[u] EXCEPT !.password = h]
      OBVIOUS
    <2>3. r \in User /\ r.password = h /\ r.state = user[u].state
      BY <1>4, <1>5, <2>2 DEF User
    <2>4. user' = [user EXCEPT ![u] = r]
      BY <2>1, <2>2
    <2>5. QED
      BY <1>1, <1>3, <2>3, <2>4 DEF AccountsTyped
  <1>11. PICK c : c = IF errand[v].code # 0 /\ Held(v) THEN [code[u] EXCEPT !.spent = @ + 1] ELSE code[u]
    OBVIOUS
  <1>12. /\ c \in ResetCode /\ c.number = code[u].number /\ c.state = code[u].state /\ c.guesses = code[u].guesses
         /\ c.spent = IF errand[v].code # 0 /\ Held(v) THEN code[u].spent + 1 ELSE code[u].spent
    <2>1. PICK n : n = code[u].spent + 1
      OBVIOUS
    <2>2. PICK d : d = [code[u] EXCEPT !.spent = n]
      OBVIOUS
    <2>3. d \in ResetCode /\ d.number = code[u].number /\ d.state = code[u].state /\ d.guesses = code[u].guesses /\ d.spent = n
      BY <1>4, <2>1, <2>2 DEF ResetCode
    <2>4. c = IF errand[v].code # 0 /\ Held(v) THEN d ELSE code[u]
      BY <1>11, <2>1, <2>2
    <2>5. QED
      BY <1>4, <2>1, <2>3, <2>4
  <1>13. code' \in [People -> ResetCode] /\ code'[u] = c /\ \A o \in People \ {u} : code'[o] = code[o]
    <2>1. CASE errand[v].code # 0 /\ Held(v)
      <3>1. code' = [code EXCEPT ![u] = c]
        BY <1>1, <1>2, <1>3, <1>11, <2>1 DEF UpdatePasswordHash, AccountsTyped
      <3>2. QED
        BY <1>1, <1>3, <1>12, <3>1 DEF AccountsTyped
    <2>2. CASE ~(errand[v].code # 0 /\ Held(v))
      BY <1>1, <1>3, <1>11, <2>2 DEF UpdatePasswordHash, AccountsTyped
    <2>3. QED
      BY <2>1, <2>2
  <1>14. errand'[v] = e /\ OthersAlike(v) /\ AccountsTyped' /\ \A w \in Errands \ {v} : errand'[w] = errand[w]
    <2>1. session' \in [Tickets -> RefreshToken] /\ shared' \subseteq Tickets /\ rushed' \subseteq People
      BY <1>1 DEF AccountsTyped
    <2>2. errand'[v] = e /\ OthersAlike(v) /\ AccountsTyped'
      BY <1>1, <1>8, <1>9, <1>10, <1>13, <2>1, ErrandStepIsTyped
    <2>3. QED
      BY <1>1, <1>9, <2>2 DEF AccountsTyped
  <1>15. UsersLast /\ CodesGrow /\ SessionsWear
    <2>1. \A o \in People : code[o].number \in Nat
      BY <1>1 DEF AccountsTyped, ResetCode
    <2>2. QED
      BY <1>1, <1>10, <1>12, <1>13, <2>1, NoSessionGoes DEF UsersLast, CodesGrow
  <1>16. RecordsHold'
    <2>1. user[u].state # "NONE" /\ errand[v].code <= code'[u].number /\ errand[v].ticket = NoTicket
      BY <1>1, <1>2, <1>3, <1>12, <1>13 DEF RowHolds, Changing
    <2>2. user'[u].state = "ERASED" => late
      BY <1>6, <1>10 DEF Active
    <2>3. RowHolds(errand[v])'
      BY <1>8, <1>10, <1>14, <2>1, <2>2 DEF RowHolds, Exchanging
    <2>4. QED
      BY <1>14, <1>15, <2>3, RecordsStay DEF AccountsHold
  <1>17. SessionsFit'
    <2>1. Closes(v, u)'
      BY <1>8, <1>14 DEF Closes
    <2>2. \A o \in People, w \in Errands : Closes(w, o) => Closes(w, o)'
      BY <1>1, <1>14 DEF Closes
    <2>3. ASSUME NEW w \in Errands PROVE RowFits(w, errand[w])'
      <3>1. CASE w = v
        BY <1>8, <1>10, <1>14, <3>1 DEF RowFits
      <3>2. CASE w # v /\ errand[w].pc \in Carrying
        <4>1. RowFits(w, errand[w]) /\ errand[w].pc \in AboutPcs /\ errand'[w] = errand[w]
          BY <1>14, <3>2 DEF AccountsHold, SessionsFit, AboutPcs
        <4>2. PICK o : o = errand[w].of
          OBVIOUS
        <4>3. o \in People
          BY <1>1, <4>1, <4>2, RowIsTyped
        <4>4. \/ errand[w].late \/ errand[w].password = user'[o].password
              \/ \E z \in Errands \ {w} : Closes(z, o)'
          <5>1. CASE o = u
            BY <2>1, <3>2, <5>1
          <5>2. CASE o # u
            BY <1>10, <2>2, <3>2, <4>1, <4>2, <4>3, <5>2 DEF RowFits
          <5>3. QED
            BY <5>1, <5>2
        <4>5. QED
          BY <4>1, <4>2, <4>4 DEF RowFits, Closes
      <3>3. CASE w # v /\ errand[w].pc \notin Carrying
        BY <1>14, <3>3 DEF RowFits
      <3>4. QED
        BY <3>1, <3>2, <3>3
    <2>4. ASSUME NEW s \in Tickets PROVE TokenFits(s)'
      <3>1. TokenFits(s) /\ session'[s] = session[s] /\ session[s].of \in People
        BY <1>1 DEF AccountsHold, SessionsFit, AccountsTyped, RefreshToken
      <3>2. CASE session[s].of = u
        BY <2>1, <3>1, <3>2 DEF TokenFits, Closes
      <3>3. CASE session[s].of # u
        BY <1>10, <2>2, <3>1, <3>3 DEF TokenFits, Closes
      <3>4. QED
        BY <3>2, <3>3
    <2>5. QED
      BY <2>3, <2>4 DEF SessionsFit
  <1>18. TokensAreOnce'
    <2>1. \A t \in Tickets : ~Holding(v, t)'
      BY <1>8, <1>14 DEF Holding, Exchanging
    <2>2. QED
      BY <1>1, <1>14, <1>15, <2>1, OnceStays DEF AccountsHold
  <1>19. CodesHold'
    <2>1. errand'[v].of = u /\ rushed \subseteq rushed' /\ (errand[v].pc \in AboutPcs => errand[v].of = u)
      BY <1>1, <1>2, <1>8, <1>14
    <2>2. \A o \in People \ {u} : (o \notin rushed' => CodeIsLimited(o)')
                                  /\ (code'[o].state = "OPEN" => code'[o].number # 0)
      BY <1>3, <1>13, <1>14, <2>1, OtherCodes
    <2>3. code'[u].state = "OPEN" => code'[u].number # 0
      BY <1>4, <1>12, <1>13
    <2>4. ASSUME u \notin rushed' PROVE CodeIsLimited(u)'
      <3>1. CodeIsLimited(u)
        BY <1>1, <1>3, <2>4 DEF AccountsHold, CodesHold
      <3>2. \A w \in Errands \ {v} : /\ Sending(w, u)' <=> Sending(w, u)
                                     /\ Uses(w, u)' <=> Uses(w, u)
                                     /\ errand'[w].pc = errand[w].pc
        BY <1>12, <1>13, <1>14 DEF Sending, Uses
      <3>3. ~Sending(v, u) /\ ~Sending(v, u)' /\ (Uses(v, u)' <=> Uses(v, u))
        BY <1>1, <1>2, <1>8, <1>12, <1>13, <1>14 DEF Sending, Uses
      <3>4. /\ errand'[v].pc \in {"used", "end"} /\ (Uses(v, u)' => errand'[v].pc = "used")
            /\ (errand[v].code # 0 /\ Held(v) => Uses(v, u))
        BY <1>1, <1>2, <1>8, <1>14 DEF Uses, Held
      <3>5. Uses(v, u) => code[u].spent = 0 /\ \A w \in Errands : Uses(w, u) => w = v
        BY <1>1, <3>1 DEF CodeIsLimited
      <3>6. /\ code'[u].number = code[u].number /\ code'[u].guesses = code[u].guesses
            /\ code'[u].state = code[u].state
            /\ code'[u].spent = IF errand[v].code # 0 /\ Held(v) THEN code[u].spent + 1 ELSE code[u].spent
        BY <1>12, <1>13
      <3>7. code'[u].spent <= 1
        BY <1>4, <3>1, <3>4, <3>5, <3>6 DEF CodeIsLimited
      <3>8. code'[u].spent # 0 /\ code'[u].state = "OPEN" => \E w \in Errands : Uses(w, u)' /\ errand'[w].pc = "used"
        <4>1. CASE Uses(v, u)
          BY <3>3, <3>4, <4>1
        <4>2. CASE ~Uses(v, u)
          <5>1. code'[u].spent = code[u].spent
            BY <3>4, <3>6, <4>2
          <5>2. code[u].spent # 0 /\ code[u].state = "OPEN" => \E w \in Errands \ {v} : Uses(w, u) /\ errand[w].pc = "used"
            BY <3>1, <4>2 DEF CodeIsLimited
          <5>3. QED
            BY <3>2, <3>6, <5>1, <5>2
        <4>3. QED
          BY <4>1, <4>2
      <3>9. \A w \in Errands : Uses(w, u)' /\ errand'[w].pc = "change" => code'[u].spent = 0
        <4> SUFFICES ASSUME NEW w \in Errands, Uses(w, u)', errand'[w].pc = "change" PROVE code'[u].spent = 0
          OBVIOUS
        <4>1. w # v /\ Uses(w, u) /\ errand[w].pc = "change"
          BY <3>2, <3>4
        <4>2. code[u].spent = 0 /\ ~Uses(v, u)
          BY <3>1, <4>1 DEF CodeIsLimited
        <4>3. QED
          BY <3>4, <3>6, <4>2
      <3>10. \A w \in Errands : Uses(w, u)' /\ errand'[w].pc = "wrong" => code'[u].guesses < MaxGuesses
        BY <3>1, <3>2, <3>4, <3>6 DEF CodeIsLimited
      <3>11. QED
        BY <3>1, <3>2, <3>3, <3>6, <3>7, <3>8, <3>9, <3>10 DEF CodeIsLimited
    <2>5. QED
      BY <2>2, <2>3, <2>4 DEF CodesHold
  <1>20. QED
    BY <1>14, <1>16, <1>17, <1>18, <1>19 DEF AccountsHold

LEMMA KeepsMarkUsed ==
  ASSUME AccountsHold, NEW v \in Errands, MarkUsed(v)
  PROVE  AccountsHold'
  <1>1. /\ errand[v].pc = "used" /\ errand[v].pc \in AboutPcs /\ AccountsTyped
        /\ user' = user /\ session' = session /\ shared' = shared /\ rushed' = rushed
    BY DEF MarkUsed, AboutPcs, Carrying, AccountsHold, marks
  <1>2. PICK u : u = errand[v].of
    OBVIOUS
  <1>3. u \in People /\ errand[v] \in AboutRow /\ RowHolds(errand[v]) /\ RowFits(v, errand[v])
    BY <1>1, <1>2, RowIsTyped DEF AccountsHold, RecordsHold, SessionsFit
  <1>4. code[u] \in ResetCode /\ code[u].number \in Nat /\ (code[u].state = "OPEN" => code[u].number # 0)
    BY <1>1, <1>3 DEF AccountsHold, CodesHold, AccountsTyped, ResetCode
  <1>5. PICK e : e = IF Active(u) THEN [errand[v] EXCEPT !.pc = "end"] ELSE Waiting
    OBVIOUS
  <1>6. /\ e \in ErrandRow /\ e.pc = IF Active(u) THEN "end" ELSE "new"
        /\ Active(u) => /\ e \in AboutRow /\ e.of = u /\ e.password = errand[v].password
                        /\ e.ticket = errand[v].ticket /\ e.code = errand[v].code /\ e.late = errand[v].late
    <2>1. CASE Active(u)
      <3>1. e = [errand[v] EXCEPT !.pc = "end"]
        BY <1>5, <2>1
      <3>2. QED
        BY <1>2, <1>3, <2>1, <3>1, RowMoves DEF AboutPcs, Carrying
    <2>2. CASE ~Active(u)
      BY <1>5, <2>2, ErrandRowsApart
    <2>3. QED
      BY <2>1, <2>2
  <1>7. errand' = [errand EXCEPT ![v] = e] /\ expected' = expected
    <2>1. CASE Active(u)
      BY <1>1, <1>2, <1>5, <2>1 DEF MarkUsed, On
    <2>2. CASE ~Active(u)
      BY <1>1, <1>2, <1>5, <2>2 DEF MarkUsed, Gone
    <2>3. QED
      BY <2>1, <2>2
  <1>8. PICK c : c = IF Held(v) THEN [code[u] EXCEPT !.state = "USED"] ELSE code[u]
    OBVIOUS
  <1>9. /\ c \in ResetCode /\ c.number = code[u].number /\ c.guesses = code[u].guesses /\ c.spent = code[u].spent
        /\ c.state = IF Held(v) THEN "USED" ELSE code[u].state
    <2>1. CASE Held(v)
      BY <1>4, <1>8, <2>1 DEF ResetCode
    <2>2. CASE ~Held(v)
      BY <1>4, <1>8, <2>2
    <2>3. QED
      BY <2>1, <2>2
  <1>10. code' \in [People -> ResetCode] /\ code'[u] = c /\ \A o \in People \ {u} : code'[o] = code[o]
    <2>1. CASE Held(v)
      <3>1. code' = [code EXCEPT ![u] = c]
        BY <1>1, <1>2, <1>3, <1>8, <2>1 DEF MarkUsed, AccountsTyped
      <3>2. QED
        BY <1>1, <1>3, <1>9, <3>1 DEF AccountsTyped
    <2>2. CASE ~Held(v)
      BY <1>1, <1>3, <1>8, <2>2 DEF MarkUsed, AccountsTyped
    <2>3. QED
      BY <2>1, <2>2
  <1>11. errand'[v] = e /\ OthersAlike(v) /\ AccountsTyped' /\ \A w \in Errands \ {v} : errand'[w] = errand[w]
    <2>1. /\ session' \in [Tickets -> RefreshToken] /\ shared' \subseteq Tickets /\ rushed' \subseteq People
          /\ user' \in [People -> User]
      BY <1>1 DEF AccountsTyped
    <2>2. errand'[v] = e /\ OthersAlike(v) /\ AccountsTyped'
      BY <1>1, <1>6, <1>7, <1>10, <2>1, ErrandStepIsTyped
    <2>3. QED
      BY <1>1, <1>7, <2>2 DEF AccountsTyped
  <1>12. UsersLast /\ CodesGrow /\ SessionsWear
    <2>1. \A o \in People : code[o].number \in Nat
      BY <1>1 DEF AccountsTyped, ResetCode
    <2>2. QED
      BY <1>1, <1>9, <1>10, <2>1, NoSessionGoes DEF UsersLast, CodesGrow
  <1>13. RecordsHold'
    <2>1. /\ user[u].state # "NONE" /\ errand[v].code <= code'[u].number /\ errand[v].ticket = NoTicket
          /\ (user[u].state = "ERASED" => errand[v].late)
      BY <1>1, <1>2, <1>3, <1>9, <1>10 DEF RowHolds, Changing, Carrying
    <2>2. RowHolds(errand[v])'
      BY <1>1, <1>6, <1>11, <2>1 DEF RowHolds, Exchanging, AboutPcs, Carrying
    <2>3. QED
      BY <1>11, <1>12, <2>2, RecordsStay DEF AccountsHold
  <1>14. SessionsFit'
    <2>1. \A o \in People, w \in Errands : Closes(w, o) => Closes(w, o)' \/ (o = u /\ ~Active(u))
      BY <1>1, <1>2, <1>6, <1>11 DEF Closes
    <2>2. ~Active(u) => user[u].state = "ERASED"
      BY <1>1, <1>2, <1>3, <1>4 DEF Active, RowHolds, AccountsTyped, User
    <2>3. ASSUME NEW w \in Errands PROVE RowFits(w, errand[w])'
      <3>1. CASE w = v
        <4>1. CASE Active(u)
          <5>1. \/ e.late \/ e.password = user'[u].password \/ \E z \in Errands \ {v} : Closes(z, u)
            BY <1>1, <1>2, <1>3, <1>6, <4>1 DEF RowFits, Carrying
          <5>2. \/ e.late \/ e.password = user'[u].password \/ \E z \in Errands \ {v} : Closes(z, u)'
            BY <1>3, <2>1, <4>1, <5>1
          <5>3. QED
            BY <1>6, <1>11, <3>1, <4>1, <5>2 DEF RowFits, Closes
        <4>2. CASE ~Active(u)
          BY <1>6, <1>11, <3>1, <4>2 DEF RowFits, Carrying
        <4>3. QED
          BY <4>1, <4>2
      <3>2. CASE w # v /\ errand[w].pc \in Carrying
        <4>1. RowFits(w, errand[w]) /\ RowHolds(errand[w]) /\ errand[w].pc \in AboutPcs /\ errand'[w] = errand[w]
          BY <1>11, <3>2 DEF AccountsHold, SessionsFit, RecordsHold, AboutPcs
        <4>2. PICK o : o = errand[w].of
          OBVIOUS
        <4>3. o \in People
          BY <1>1, <4>1, <4>2, RowIsTyped
        <4>4. user[o].state = "ERASED" => errand[w].late
          BY <3>2, <4>1, <4>2 DEF RowHolds
        <4>5. \/ errand[w].late \/ errand[w].password = user'[o].password
              \/ \E z \in Errands \ {w} : Closes(z, o)'
          BY <1>1, <2>1, <2>2, <3>2, <4>1, <4>2, <4>3, <4>4 DEF RowFits
        <4>6. QED
          BY <4>1, <4>2, <4>5 DEF RowFits, Closes
      <3>3. CASE w # v /\ errand[w].pc \notin Carrying
        BY <1>11, <3>3 DEF RowFits
      <3>4. QED
        BY <3>1, <3>2, <3>3
    <2>4. ASSUME NEW s \in Tickets PROVE TokenFits(s)'
      <3>1. TokenFits(s) /\ TokenHolds(s) /\ session'[s] = session[s] /\ session[s].of \in People
        BY <1>1 DEF AccountsHold, SessionsFit, RecordsHold, AccountsTyped, RefreshToken
      <3>2. PICK o : o = session[s].of
        OBVIOUS
      <3>3. session[s].state = "LIVE" =>
              \/ session[s].late \/ session[s].password = user'[o].password \/ \E z \in Errands : Closes(z, o)'
        BY <1>1, <2>1, <2>2, <3>1, <3>2 DEF TokenFits, TokenHolds
      <3>4. QED
        BY <3>1, <3>2, <3>3 DEF TokenFits, Closes
    <2>5. QED
      BY <2>3, <2>4 DEF SessionsFit
  <1>15. TokensAreOnce'
    <2>1. \A t \in Tickets : ~Holding(v, t)'
      BY <1>6, <1>11 DEF Holding, Exchanging
    <2>2. QED
      BY <1>1, <1>11, <1>12, <2>1, OnceStays DEF AccountsHold
  <1>16. CodesHold'
    <2>1. /\ errand'[v].pc \in {"new", "create"} \/ errand'[v].of = u
          /\ rushed \subseteq rushed' /\ (errand[v].pc \in AboutPcs => errand[v].of = u)
      BY <1>1, <1>2, <1>6, <1>11
    <2>2. \A o \in People \ {u} : (o \notin rushed' => CodeIsLimited(o)')
                                  /\ (code'[o].state = "OPEN" => code'[o].number # 0)
      BY <1>3, <1>10, <1>11, <2>1, OtherCodes
    <2>3. code'[u].state = "OPEN" => code'[u].number # 0
      BY <1>4, <1>9, <1>10
    <2>4. ASSUME u \notin rushed' PROVE CodeIsLimited(u)'
      <3>1. CodeIsLimited(u)
        BY <1>1, <1>3, <2>4 DEF AccountsHold, CodesHold
      <3>2. \A w \in Errands \ {v} : /\ Sending(w, u)' <=> Sending(w, u)
                                     /\ Uses(w, u)' <=> Uses(w, u)
                                     /\ errand'[w].pc = errand[w].pc
        BY <1>9, <1>10, <1>11 DEF Sending, Uses
      <3>3. ~Sending(v, u)' /\ ~Uses(v, u)'
        BY <1>6, <1>11 DEF Sending, Uses
      <3>4. /\ code'[u].number = code[u].number /\ code'[u].guesses = code[u].guesses /\ code'[u].spent = code[u].spent
            /\ (code'[u].state = "OPEN" => code[u].state = "OPEN" /\ ~Held(v))
        BY <1>9, <1>10
      <3>5. code[u].state = "OPEN" /\ ~Held(v) => ~Uses(v, u)
        BY <1>2 DEF Uses, Held
      <3>6. code'[u].spent # 0 /\ code'[u].state = "OPEN" => \E w \in Errands : Uses(w, u)' /\ errand'[w].pc = "used"
        <4> SUFFICES ASSUME code'[u].spent # 0, code'[u].state = "OPEN"
                     PROVE  \E w \in Errands : Uses(w, u)' /\ errand'[w].pc = "used"
          OBVIOUS
        <4>1. PICK w \in Errands : Uses(w, u) /\ errand[w].pc = "used"
          BY <3>1, <3>4 DEF CodeIsLimited
        <4>2. w # v
          BY <3>4, <3>5, <4>1
        <4>3. QED
          BY <3>2, <4>1, <4>2
      <3>7. QED
        BY <3>1, <3>2, <3>3, <3>4, <3>6 DEF CodeIsLimited
    <2>5. QED
      BY <2>2, <2>3, <2>4 DEF CodesHold
  <1>17. QED
    BY <1>11, <1>13, <1>14, <1>15, <1>16 DEF AccountsHold

-----------------------------------------------------------------------------
(***************************************************************************)
(* The steps that end every session of an account.                         *)
(***************************************************************************)
LEMMA AllEnd ==
  ASSUME AccountsHold, NEW u \in People, session' = Ended(u)
  PROVE  /\ session' \in [Tickets -> RefreshToken] /\ SessionsWear
         /\ \A s \in Tickets : session[s].of = u => session'[s].state # "LIVE"
  <1>1. PICK F \in SUBSET Tickets : F = {s \in Tickets : session[s].of = u /\ session[s].state # "NONE"}
    OBVIOUS
  <1>2. session' = [s \in Tickets |-> IF s \in F THEN [session[s] EXCEPT !.state = "ENDED"] ELSE session[s]]
    BY <1>1 DEF Ended
  <1>3. \A s \in F : session[s].state # "NONE"
    BY <1>1
  <1>4. session' \in [Tickets -> RefreshToken] /\ SessionsWear /\ \A s \in F : session'[s].state = "ENDED"
    BY <1>2, <1>3, ManyWear
  <1>5. QED
    BY <1>1, <1>2, <1>4

\* An errand that is late from now on.
LEMMA Late ==
  ASSUME NEW r \in AboutRow, NEW d, d = [r EXCEPT !.late = TRUE]
  PROVE  /\ d \in AboutRow /\ d \in ErrandRow /\ d.pc = r.pc /\ d.of = r.of /\ d.password = r.password
         /\ d.ticket = r.ticket /\ d.code = r.code /\ d.late = TRUE
  BY DEF AboutRow, ErrandRow

LEMMA KeepsEndAll ==
  ASSUME AccountsHold, NEW v \in Errands, EndAll(v)
  PROVE  AccountsHold'
  <1>1. /\ errand[v].pc = "end" /\ errand[v].pc \in AboutPcs /\ AccountsTyped
        /\ user' = user /\ code' = code /\ expected' = expected /\ shared' = shared /\ rushed' = rushed
    BY DEF EndAll, AboutPcs, Carrying, AccountsHold, marks
  <1>2. PICK u : u = errand[v].of
    OBVIOUS
  <1>3. u \in People /\ errand[v] \in AboutRow /\ RowHolds(errand[v]) /\ RowFits(v, errand[v])
    BY <1>1, <1>2, RowIsTyped DEF AccountsHold, RecordsHold, SessionsFit
  <1>4. PICK e : e = IF errand[v].code # 0 THEN Waiting ELSE [errand[v] EXCEPT !.pc = "issue"]
    OBVIOUS
  <1>5. /\ e \in ErrandRow /\ e.pc \in {"new", "issue"}
        /\ e.pc = "issue" => /\ e \in AboutRow /\ e.of = u /\ e.password = errand[v].password
                             /\ e.ticket = errand[v].ticket /\ e.code = errand[v].code /\ e.late = errand[v].late
    <2>1. CASE errand[v].code # 0
      BY <1>4, <2>1, ErrandRowsApart
    <2>2. CASE errand[v].code = 0
      <3>1. e = [errand[v] EXCEPT !.pc = "issue"]
        BY <1>4, <2>2
      <3>2. QED
        BY <1>2, <1>3, <3>1, RowMoves DEF AboutPcs, Carrying
    <2>3. QED
      BY <2>1, <2>2
  <1>6. errand' = Overtaken(u, v, e) /\ session' = Ended(u)
    BY <1>2, <1>4 DEF EndAll
  <1>7. /\ session' \in [Tickets -> RefreshToken] /\ SessionsWear
        /\ \A s \in Tickets : session[s].of = u => session'[s].state # "LIVE"
    BY <1>3, <1>6, AllEnd
  <1>8. errand'[v] = e
    BY <1>6 DEF Overtaken
  <1>9. ASSUME NEW w \in Errands, w # v
        PROVE  /\ errand'[w] \in ErrandRow /\ Alike(w)
               /\ errand[w].pc \in AboutPcs /\ errand[w].of = u /\ errand[w].password # user[u].password
                  => errand'[w].late
    <2>1. CASE w \in For(u) /\ errand[w].password # user[u].password
      <3>1. errand[w].pc \in AboutPcs /\ errand[w].of = u
        BY <1>1, <2>1, ErrandRowsApart DEF For, AccountsTyped
      <3>2. errand'[w] = [errand[w] EXCEPT !.late = TRUE] /\ errand[w] \in AboutRow
        BY <1>1, <1>6, <1>9, <2>1, <3>1, RowIsTyped DEF Overtaken
      <3>3. QED
        BY <3>1, <3>2, Late DEF Alike
    <2>2. CASE ~(w \in For(u) /\ errand[w].password # user[u].password)
      <3>1. errand'[w] = errand[w]
        BY <1>6, <1>9, <2>2 DEF Overtaken
      <3>2. QED
        BY <1>1, <2>2, <3>1 DEF Alike, For, AboutPcs, Carrying, AccountsTyped
    <2>3. QED
      BY <2>1, <2>2
  <1>10. errand' \in [Errands -> ErrandRow]
    <2>1. \A w \in Errands : errand'[w] \in ErrandRow
      BY <1>5, <1>8, <1>9
    <2>2. QED
      BY <1>6, <2>1 DEF Overtaken
  <1>11. AccountsTyped' /\ OthersAlike(v)
    BY <1>1, <1>7, <1>9, <1>10 DEF AccountsTyped, OthersAlike
  <1>12. UsersLast /\ CodesGrow
    BY <1>1 DEF UsersLast, CodesGrow, AccountsTyped, ResetCode
  <1>13. errand[v].ticket = NoTicket /\ NoTicket \notin Tickets
    BY <1>1, <1>3, AccountsAssumption DEF AccountsAssumption, RowHolds, Changing
  <1>14. RecordsHold'
    <2>1. RowHolds(errand[v])'
      BY <1>1, <1>2, <1>3, <1>5, <1>8, <1>13 DEF RowHolds, Carrying, Changing, Exchanging, AboutPcs
    <2>2. QED
      BY <1>7, <1>11, <1>12, <2>1, RecordsStay DEF AccountsHold
  <1>15. SessionsFit'
    <2>1. \A w \in Errands \ {v}, o \in People : Closes(w, o) => Closes(w, o)'
      BY <1>9 DEF Closes, Alike, AboutPcs, Carrying
    <2>2. \A o \in People : Closes(v, o) => o = u
      BY <1>2 DEF Closes
    <2>3. ASSUME NEW w \in Errands PROVE RowFits(w, errand[w])'
      <3>1. CASE w = v
        <4>1. CASE e.pc = "issue"
          <5>1. \/ e.late \/ e.password = user'[u].password \/ \E z \in Errands \ {v} : Closes(z, u)
            BY <1>1, <1>2, <1>3, <1>5, <4>1 DEF RowFits, Carrying
          <5>2. \/ e.late \/ e.password = user'[u].password \/ \E z \in Errands \ {v} : Closes(z, u)'
            BY <1>3, <2>1, <5>1
          <5>3. QED
            BY <1>5, <1>8, <3>1, <4>1, <5>2 DEF RowFits, Closes
        <4>2. CASE e.pc = "new"
          BY <1>8, <3>1, <4>2 DEF RowFits, Carrying
        <4>3. QED
          BY <1>5, <4>1, <4>2
      <3>2. CASE w # v /\ errand[w].pc \in Carrying
        <4>1. RowFits(w, errand[w]) /\ errand[w].pc \in AboutPcs /\ Alike(w)
          BY <1>9, <3>2 DEF AccountsHold, SessionsFit, AboutPcs
        <4>2. PICK o : o = errand[w].of
          OBVIOUS
        <4>3. o \in People
          BY <1>1, <4>1, <4>2, RowIsTyped
        <4>4. \/ errand'[w].late \/ errand'[w].password = user'[o].password
              \/ \E z \in Errands \ {w} : Closes(z, o)'
          <5>1. CASE o = u
            BY <1>1, <1>9, <3>2, <4>1, <4>2, <5>1 DEF Alike
          <5>2. CASE o # u
            <6>1. \/ errand[w].late \/ errand[w].password = user[o].password
                  \/ \E z \in Errands \ {w} : Closes(z, o)
              BY <3>2, <4>1, <4>2 DEF RowFits
            <6>2. \A z \in Errands : Closes(z, o) => Closes(z, o)'
              BY <2>1, <2>2, <4>3, <5>2
            <6>3. QED
              BY <1>1, <4>1, <6>1, <6>2 DEF Alike
          <5>3. QED
            BY <5>1, <5>2
        <4>5. QED
          BY <4>1, <4>2, <4>4 DEF RowFits, Closes, Alike
      <3>3. CASE w # v /\ errand[w].pc \notin Carrying
        BY <1>9, <3>3 DEF RowFits, Alike
      <3>4. QED
        BY <3>1, <3>2, <3>3
    <2>4. ASSUME NEW s \in Tickets PROVE TokenFits(s)'
      <3>1. TokenFits(s) /\ session[s].of \in People
        BY <1>1 DEF AccountsHold, SessionsFit, AccountsTyped, RefreshToken
      <3>2. PICK o : o = session[s].of
        OBVIOUS
      <3>3. /\ session'[s].of = o /\ session'[s].password = session[s].password /\ session'[s].late = session[s].late
            /\ session'[s].state = "LIVE" => session[s].state = "LIVE" /\ o # u
        BY <1>7, <3>2 DEF SessionsWear
      <3>4. o # u => \A z \in Errands : Closes(z, o) => Closes(z, o)'
        BY <2>1, <2>2, <3>1, <3>2
      <3>5. session'[s].state = "LIVE" =>
              \/ session[s].late \/ session[s].password = user'[o].password \/ \E z \in Errands : Closes(z, o)'
        BY <1>1, <3>1, <3>2, <3>3, <3>4 DEF TokenFits
      <3>6. QED
        BY <3>3, <3>5 DEF TokenFits, Closes
    <2>5. QED
      BY <2>3, <2>4 DEF SessionsFit
  <1>16. TokensAreOnce'
    <2>1. \A t \in Tickets : ~Holding(v, t)'
      BY <1>5, <1>8, <1>13 DEF Holding, Exchanging
    <2>2. QED
      BY <1>1, <1>7, <1>11, <2>1, OnceStays DEF AccountsHold
  <1>17. CodesHold'
    BY <1>1, <1>5, <1>8, <1>11, CodesRest DEF AccountsHold
  <1>18. QED
    BY <1>11, <1>14, <1>15, <1>16, <1>17 DEF AccountsHold

LEMMA KeepsErase ==
  ASSUME AccountsHold, NEW v \in Errands, Erase(v)
  PROVE  AccountsHold'
  <1>1. /\ errand[v].pc = "erase" /\ errand[v].pc \in AboutPcs /\ AccountsTyped
        /\ expected' = expected /\ shared' = shared /\ rushed' = rushed
    BY DEF Erase, AboutPcs, AccountsHold, marks
  <1>2. PICK u : u = errand[v].of
    OBVIOUS
  <1>3. u \in People
    BY <1>1, <1>2, RowIsTyped
  <1>4. /\ user' = [user EXCEPT ![u] = [@ EXCEPT !.state = "ERASED", !.email = NoEmail]]
        /\ session' = Ended(u) /\ code' = [code EXCEPT ![u].state = "NONE"]
        /\ errand' = [w \in Errands |-> IF w = v THEN Waiting
                                        ELSE IF w \in For(u) THEN [errand[w] EXCEPT !.late = TRUE]
                                        ELSE errand[w]]
    BY <1>2 DEF Erase
  <1>5. /\ user' \in [People -> User] /\ user'[u].state = "ERASED" /\ user'[u].password = user[u].password
        /\ \A o \in People \ {u} : user'[o] = user[o]
    <2>1. PICK r : r = [user[u] EXCEPT !.state = "ERASED", !.email = NoEmail]
      OBVIOUS
    <2>2. user[u] \in User
      BY <1>1, <1>3 DEF AccountsTyped
    <2>3. r \in User /\ r.state = "ERASED" /\ r.password = user[u].password
      BY <2>1, <2>2 DEF User
    <2>4. user' = [user EXCEPT ![u] = r]
      BY <1>4, <2>1
    <2>5. QED
      BY <1>1, <1>3, <2>3, <2>4 DEF AccountsTyped
  <1>6. /\ code' \in [People -> ResetCode] /\ code'[u].state = "NONE" /\ code'[u].number = code[u].number
        /\ code'[u].guesses = code[u].guesses /\ code'[u].spent = code[u].spent
        /\ \A o \in People \ {u} : code'[o] = code[o]
    <2>1. PICK c : c = [code[u] EXCEPT !.state = "NONE"]
      OBVIOUS
    <2>2. code[u] \in ResetCode
      BY <1>1, <1>3 DEF AccountsTyped
    <2>3. /\ c \in ResetCode /\ c.state = "NONE" /\ c.number = code[u].number /\ c.guesses = code[u].guesses
          /\ c.spent = code[u].spent
      BY <2>1, <2>2 DEF ResetCode
    <2>4. code' = [code EXCEPT ![u] = c]
      BY <1>4, <2>1
    <2>5. QED
      BY <1>1, <1>3, <2>3, <2>4 DEF AccountsTyped
  <1>7. /\ session' \in [Tickets -> RefreshToken] /\ SessionsWear
        /\ \A s \in Tickets : session[s].of = u => session'[s].state # "LIVE"
    BY <1>3, <1>4, AllEnd
  <1>8. errand'[v] = Waiting /\ errand'[v].pc = "new" /\ errand'[v] \in ErrandRow
    BY <1>4, ErrandRowsApart
  <1>9. ASSUME NEW w \in Errands, w # v
        PROVE  /\ errand'[w] \in ErrandRow /\ Alike(w)
               /\ errand[w].pc \in AboutPcs /\ errand[w].of = u => errand'[w].late
    <2>1. CASE w \in For(u)
      <3>1. errand[w].pc \in AboutPcs /\ errand[w].of = u
        BY <1>1, <2>1, ErrandRowsApart DEF For, AccountsTyped
      <3>2. errand'[w] = [errand[w] EXCEPT !.late = TRUE] /\ errand[w] \in AboutRow
        BY <1>1, <1>4, <1>9, <2>1, <3>1, RowIsTyped
      <3>3. QED
        BY <3>1, <3>2, Late DEF Alike
    <2>2. CASE w \notin For(u)
      <3>1. errand'[w] = errand[w]
        BY <1>4, <1>9, <2>2
      <3>2. QED
        BY <1>1, <2>2, <3>1 DEF Alike, For, AboutPcs, Carrying, AccountsTyped
    <2>3. QED
      BY <2>1, <2>2
  <1>10. errand' \in [Errands -> ErrandRow]
    <2>1. \A w \in Errands : errand'[w] \in ErrandRow
      BY <1>8, <1>9
    <2>2. QED
      BY <1>4, <2>1
  <1>11. AccountsTyped' /\ OthersAlike(v)
    BY <1>1, <1>5, <1>6, <1>7, <1>9, <1>10 DEF AccountsTyped, OthersAlike
  <1>12. \A o \in People : code'[o].number = code[o].number /\ (user[o].state # "NONE" => user'[o].state # "NONE")
    BY <1>5, <1>6
  <1>13. RecordsHold'
    <2>1. ASSUME NEW w \in Errands PROVE RowHolds(errand[w])'
      <3>1. CASE w # v /\ errand[w].pc \in AboutPcs
        <4>1. RowHolds(errand[w]) /\ errand[w].of \in People /\ errand[w].ticket \in Tickets \cup {NoTicket} /\ Alike(w)
          BY <1>1, <1>9, <3>1, RowIsTyped DEF AccountsHold, RecordsHold
        <4>2. user'[errand[w].of].state = "ERASED" /\ errand[w].pc \in Carrying => errand'[w].late
          BY <1>5, <1>9, <3>1, <4>1 DEF RowHolds, Alike
        <4>3. QED
          BY <1>7, <1>12, <3>1, <4>1, <4>2 DEF RowHolds, Alike, SessionsWear
      <3>2. CASE w = v \/ errand[w].pc \notin AboutPcs
        BY <1>8, <1>9, <3>2, ErrandRowsApart DEF RowHolds, Alike
      <3>3. QED
        BY <3>1, <3>2
    <2>2. ASSUME NEW s \in Tickets PROVE TokenHolds(s)'
      <3>1. TokenHolds(s) /\ session[s].of \in People /\ session[s].from \in Tickets \cup {NoTicket}
        BY DEF AccountsHold, RecordsHold, AccountsTyped, RefreshToken
      <3>2. session'[s].state = "LIVE" => session[s].of # u
        BY <1>7
      <3>3. QED
        BY <1>5, <1>7, <1>12, <3>1, <3>2 DEF TokenHolds, SessionsWear
    <2>3. QED
      BY <2>1, <2>2 DEF RecordsHold
  <1>14. SessionsFit'
    <2>1. \A w \in Errands, o \in People : Closes(w, o) => Closes(w, o)'
      BY <1>1, <1>9 DEF Closes, Alike, AboutPcs, Carrying
    <2>2. \A o \in People : user'[o].password = user[o].password
      BY <1>5
    <2>3. RowFits(v, errand[v])' /\ \A o \in People : Closes(v, o) => Closes(v, o)'
      BY <1>8, <2>1 DEF RowFits, Carrying
    <2>4. QED
      BY <1>1, <1>7, <1>11, <2>2, <2>3, FitsStay DEF AccountsHold
  <1>15. TokensAreOnce'
    <2>1. \A t \in Tickets : ~Holding(v, t)'
      BY <1>8 DEF Holding, Exchanging
    <2>2. QED
      BY <1>1, <1>7, <1>11, <2>1, OnceStays DEF AccountsHold
  <1>16. CodesHold'
    <2>1. \A o \in People \ {u} : (o \notin rushed' => CodeIsLimited(o)')
                                  /\ (code'[o].state = "OPEN" => code'[o].number # 0)
      BY <1>1, <1>2, <1>3, <1>6, <1>8, <1>11, OtherCodes
    <2>2. ASSUME u \notin rushed' PROVE CodeIsLimited(u)'
      <3>1. CodeIsLimited(u)
        BY <1>1, <1>3, <2>2 DEF AccountsHold, CodesHold
      <3>2. \A w \in Errands \ {v} : /\ Sending(w, u)' <=> Sending(w, u)
                                     /\ Uses(w, u)' <=> Uses(w, u)
                                     /\ errand'[w].pc = errand[w].pc
        BY <1>6, <1>9 DEF Sending, Uses, Alike, AboutPcs, Carrying
      <3>3. ~Sending(v, u)' /\ ~Uses(v, u)'
        BY <1>8 DEF Sending, Uses
      <3>4. QED
        BY <1>6, <3>1, <3>2, <3>3 DEF CodeIsLimited
    <2>3. QED
      BY <1>6, <2>1, <2>2 DEF CodesHold
  <1>17. QED
    BY <1>11, <1>13, <1>14, <1>15, <1>16 DEF AccountsHold

-----------------------------------------------------------------------------
(***************************************************************************)
(* Every step, and what the invariant says.                                *)
(***************************************************************************)
LEMMA AccountsKeep == AccountsHold /\ [AccountsNext]_accountVars => AccountsHold'
  <1> SUFFICES ASSUME AccountsHold, [AccountsNext]_accountVars PROVE AccountsHold'
    OBVIOUS
  <1>1. ASSUME NEW v \in Errands, ErrandStep(v) PROVE AccountsHold'
    BY <1>1, KeepsCreateUser, KeepsIssue, KeepsFindHolder, KeepsRotate, KeepsRevokeAll, KeepsLeave, KeepsSendCode,
       KeepsRecordFailedAttempt, KeepsUpdatePasswordHash, KeepsMarkUsed, KeepsEndAll, KeepsErase DEF ErrandStep
  <1>2. ASSUME NEW v \in Errands, Asks(v) PROVE AccountsHold'
    <2>1. ASSUME NEW u \in People, Login(v, u) \/ ChangePassword(v, u) \/ Delete(v, u) PROVE AccountsHold'
      BY <2>1, QuietStart DEF Login, ChangePassword, Delete
    <2>2. QED
      BY <1>2, <2>1, KeepsRegister, KeepsRefresh, KeepsLogout, KeepsAskForResetCode, KeepsReset DEF Asks
  <1>3. CASE UNCHANGED accountVars
    BY <1>3 DEF accountVars, AccountsHold, AccountsTyped, RecordsHold, RowHolds, TokenHolds, SessionsFit, RowFits,
       TokenFits, Closes, TokensAreOnce, TokenIsOnce, Holding, CodesHold, CodeIsLimited, Sending, Uses
  <1>4. QED
    BY <1>1, <1>2, <1>3, KeepsSignOutEverywhere DEF AccountsNext

LEMMA AccountsAreRight ==
  AccountsHold => /\ AccountsTypeOK /\ SessionsRestOnThePassword /\ TokensAreExchangedOnce /\ CodesAreLimited
  <1> SUFFICES ASSUME AccountsHold
               PROVE  /\ AccountsTypeOK /\ SessionsRestOnThePassword /\ TokensAreExchangedOnce /\ CodesAreLimited
    OBVIOUS
  <1>1. AccountsTypeOK
    <2>1. \A v \in Errands : errand[v].pc \in Exchanging \cup Changing
                               \cup {"new", "create", "issue", "leave", "breach", "send", "wrong", "erase"}
      BY ErrandRowsApart DEF AccountsHold, AccountsTyped, AboutPcs, Carrying, Exchanging, Changing
    <2>2. QED
      BY <2>1 DEF AccountsHold, AccountsTyped, AccountsTypeOK
  <1>2. ASSUME NEW s \in Tickets, session[s].state = "LIVE", ~session[s].late
        PROVE  \/ Active(session[s].of) /\ session[s].password = user[session[s].of].password
               \/ Closing(session[s].of) # {}
    <2>1. TokenFits(s) /\ TokenHolds(s) /\ session[s].of \in People
      BY DEF AccountsHold, SessionsFit, RecordsHold, AccountsTyped, RefreshToken
    <2>2. user[session[s].of].state \in {"NONE", "ACTIVE", "ERASED"}
      BY <2>1 DEF AccountsHold, AccountsTyped, User
    <2>3. Active(session[s].of)
      BY <1>2, <2>1, <2>2 DEF TokenHolds, Active
    <2>4. CASE session[s].password = user[session[s].of].password
      BY <2>3, <2>4
    <2>5. CASE \E w \in Errands : Closes(w, session[s].of)
      BY <2>5 DEF Closes, Closing, For
    <2>6. QED
      BY <1>2, <2>1, <2>4, <2>5 DEF TokenFits
  <1>3. SessionsRestOnThePassword
    BY <1>2 DEF SessionsRestOnThePassword
  <1>4. TokensAreExchangedOnce
    <2> SUFFICES ASSUME NEW s \in Tickets, NEW o \in Tickets, s # o, session[s].from = session[o].from,
                        session[s].from # NoTicket, session[s].from \notin shared
                 PROVE  FALSE
      BY DEF TokensAreExchangedOnce
    <2>1. session[s].from \in Tickets
      BY DEF AccountsHold, AccountsTyped, RefreshToken
    <2>2. TokenIsOnce(session[s].from)
      BY <2>1 DEF AccountsHold, TokensAreOnce
    <2>3. QED
      BY <2>2 DEF TokenIsOnce
  <1>5. CodesAreLimited
    BY DEF AccountsHold, CodesHold, CodeIsLimited, CodesAreLimited
  <1>6. QED
    BY <1>1, <1>3, <1>4, <1>5

\* A session that works rests on the password that the account has now, a
\* refresh token is exchanged once, and a reset code is sent, guessed and spent
\* no more often than it may be (Issue, Rotate, EndAll, Erase, SendCode), unless
\* two requests used the token or the code at the same moment.
THEOREM AccountsAreGuarded ==
  AccountsSpec => [](SessionsRestOnThePassword /\ TokensAreExchangedOnce /\ CodesAreLimited)
  <1>1. AccountsInit => AccountsHold
    BY AccountsStart
  <1>2. AccountsHold /\ [AccountsNext]_accountVars => AccountsHold'
    BY AccountsKeep
  <1>3. AccountsHold => SessionsRestOnThePassword /\ TokensAreExchangedOnce /\ CodesAreLimited
    BY AccountsAreRight
  <1>4. QED
    BY <1>1, <1>2, <1>3, PTL DEF AccountsSpec

-----------------------------------------------------------------------------
(***************************************************************************)
(* Settings: where no two changes of a table met, one at most is on its    *)
(* way, and it holds what the row still says.                              *)
(***************************************************************************)
PlaceEdit == [pc : {"place", "move"}, input : UpdateUserPreferencesInput]
AskedEdit == [pc : {"row"}, wanted : BOOLEAN, link : BOOLEAN, now : Nat]
StampEdit == [pc : {"stamp"}, save : NotificationPreferences, now : Nat]
EditRow == {Unhurried} \cup PlaceEdit \cup AskedEdit \cup StampEdit

SettingsTyped ==
    /\ location \in UserPreferences /\ consent \in NotificationPreferences
    /\ edit \in [Changes -> EditRow]
    /\ moment \in 0 .. MaxMoment /\ mixed \subseteq {"place", "consent"}

\* Nothing is stamped with a moment to come.
StampsArePast ==
    /\ consent.optedIn <= moment /\ consent.optedOut <= moment
    /\ \A c \in Changes :
         /\ edit[c].pc \in {"row", "stamp"} => edit[c].now <= moment
         /\ edit[c].pc = "stamp" => edit[c].save.optedIn <= moment /\ edit[c].save.optedOut <= moment

OfPlace(c) == edit[c].pc \in {"place", "move"}
OfConsent(c) == edit[c].pc \in {"row", "stamp"}

PlaceAlone ==
    "place" \notin mixed =>
        /\ HasCompleteLocation(location)
        /\ \A c, d \in Changes : OfPlace(c) /\ OfPlace(d) => c = d
        /\ \A c \in Changes : edit[c].pc = "move" => HasCompleteLocation(Saved(location, edit[c].input))

ConsentAlone ==
    "consent" \notin mixed =>
        /\ StampsTellConsent
        /\ \A c, d \in Changes : OfConsent(c) /\ OfConsent(d) => c = d
        /\ \A c \in Changes : OfConsent(c) =>
             /\ edit[c].now > consent.optedIn /\ edit[c].now > consent.optedOut
             /\ edit[c].pc = "stamp" =>
                  edit[c].save = ConsentChange(consent, edit[c].save.emailEnabled, edit[c].now)

SettingsHold == SettingsTyped /\ StampsArePast /\ PlaceAlone /\ ConsentAlone

LEMMA SettingsStart == SettingsInit => SettingsHold
  <1> SUFFICES ASSUME SettingsInit PROVE SettingsHold
    OBVIOUS
  <1> USE SettingsAssumption DEF SettingsInit
  <1>1. SettingsTyped
    BY DEF SettingsTyped, UserPreferences, DefaultPreferences, NotificationPreferences,
           DefaultNotificationPreferences, EditRow
  <1>2. \A c \in Changes : edit[c].pc = "new"
    BY DEF Unhurried
  <1>3. StampsArePast /\ PlaceAlone /\ ConsentAlone
    BY <1>2 DEF StampsArePast, PlaceAlone, ConsentAlone, OfPlace, OfConsent, StampsTellConsent,
           HasCompleteLocation, DefaultPreferences, DefaultNotificationPreferences, Halves
  <1>4. QED
    BY <1>1, <1>3 DEF SettingsHold

LEMMA EditRowsApart ==
  ASSUME NEW e \in EditRow
  PROVE  /\ e.pc \in {"new", "place", "move", "row", "stamp"}
         /\ e.pc \in {"place", "move"} => e \in PlaceEdit
         /\ e.pc = "row" => e \in AskedEdit
         /\ e.pc = "stamp" => e \in StampEdit
  BY DEF EditRow, PlaceEdit, AskedEdit, StampEdit, Unhurried

LEMMA ConsentChanges ==
  ASSUME NEW row \in NotificationPreferences, NEW wanted \in BOOLEAN, NEW m \in Nat
  PROVE  ConsentChange(row, wanted, m) \in NotificationPreferences
  BY DEF ConsentChange, NotificationPreferences

\* A change of one table leaves what is known of the other.
LEMMA PlaceStays ==
  ASSUME SettingsHold, NEW c \in Changes, NEW e, edit' = [edit EXCEPT ![c] = e],
         e.pc \notin {"place", "move"}, ~OfPlace(c), UNCHANGED location,
         "place" \in mixed => "place" \in mixed'
  PROVE  PlaceAlone'
  <1>1. \A d \in Changes : OfPlace(d)' => OfPlace(d) /\ edit'[d] = edit[d]
    BY DEF OfPlace, SettingsHold, SettingsTyped
  <1>2. QED
    BY <1>1 DEF PlaceAlone, SettingsHold, OfPlace

LEMMA ConsentStays ==
  ASSUME SettingsHold, NEW c \in Changes, NEW e, edit' = [edit EXCEPT ![c] = e],
         e.pc \notin {"row", "stamp"}, ~OfConsent(c), UNCHANGED consent,
         "consent" \in mixed => "consent" \in mixed'
  PROVE  ConsentAlone'
  <1>1. \A d \in Changes : OfConsent(d)' => OfConsent(d) /\ edit'[d] = edit[d]
    BY DEF OfConsent, SettingsHold, SettingsTyped
  <1>2. StampsTellConsent => StampsTellConsent'
    BY DEF StampsTellConsent
  <1>3. QED
    BY <1>1, <1>2 DEF ConsentAlone, SettingsHold, OfConsent

LEMMA SettingsMove ==
  ASSUME SettingsHold, NEW c \in Changes, NEW input \in UpdateUserPreferencesInput,
         AskToMove(c, input)
  PROVE  SettingsHold'
  <1> DEFINE e == [pc |-> "place", input |-> input]
  <1>0. /\ edit' = [edit EXCEPT ![c] = e] /\ edit[c].pc = "new" /\ e.pc = "place"
        /\ moment < MaxMoment /\ moment' = moment + 1 /\ UNCHANGED <<location, consent>>
        /\ mixed' = IF \E d \in Changes : OfPlace(d) THEN mixed \cup {"place"} ELSE mixed
    BY DEF AskToMove, Sends, Mixes, OfPlace
  <1>1. e \in EditRow
    BY DEF EditRow, PlaceEdit
  <1>2. SettingsTyped'
    BY <1>0, <1>1, SettingsAssumption DEF SettingsHold, SettingsTyped
  <1>3. StampsArePast'
    <2>1. \A d \in Changes :
            /\ edit'[d].pc \in {"row", "stamp"} => edit'[d] = edit[d] /\ edit[d].now \in Nat
            /\ edit'[d].pc = "stamp" => edit[d].save.optedIn \in Nat /\ edit[d].save.optedOut \in Nat
      BY <1>0, EditRowsApart DEF SettingsHold, SettingsTyped, AskedEdit, StampEdit, NotificationPreferences
    <2>2. moment \in Nat /\ consent.optedIn \in Nat /\ consent.optedOut \in Nat
      BY SettingsAssumption DEF SettingsHold, SettingsTyped, NotificationPreferences
    <2>3. QED
      BY <1>0, <2>1, <2>2 DEF StampsArePast, SettingsHold
  <1>4. PlaceAlone'
    <2>1. CASE \E d \in Changes : OfPlace(d)
      BY <1>0, <2>1 DEF PlaceAlone
    <2>2. CASE ~ \E d \in Changes : OfPlace(d)
      <3>1. \A d \in Changes : OfPlace(d)' => d = c
        BY <1>0, <2>2 DEF OfPlace, SettingsHold, SettingsTyped
      <3>2. \A d \in Changes : edit'[d].pc # "move"
        BY <1>0, <2>2 DEF OfPlace, SettingsHold, SettingsTyped
      <3>3. QED
        BY <1>0, <2>2, <3>1, <3>2 DEF PlaceAlone, SettingsHold
    <2>3. QED
      BY <2>1, <2>2
  <1>5. ConsentAlone'
    BY <1>0, ConsentStays DEF OfConsent
  <1>6. QED
    BY <1>2, <1>3, <1>4, <1>5 DEF SettingsHold

LEMMA SettingsPlace ==
  ASSUME SettingsHold, NEW c \in Changes, CheckPlace(c) \/ SavePlace(c)
  PROVE  SettingsHold'
  <1>0. /\ OfPlace(c) /\ edit[c] \in PlaceEdit /\ ~OfConsent(c)
        /\ UNCHANGED <<consent, moment, mixed>>
    BY EditRowsApart DEF CheckPlace, SavePlace, OfPlace, OfConsent, SettingsHold, SettingsTyped
  <1>1. PICK e \in EditRow : /\ edit' = [edit EXCEPT ![c] = e]
                             /\ e.pc = "new" \/ (e.pc = "move" /\ e.input = edit[c].input)
    <2>1. Unhurried \in EditRow /\ Unhurried.pc = "new"
      BY DEF EditRow, Unhurried
    <2>2. [edit[c] EXCEPT !.pc = "move"] \in EditRow
      BY <1>0 DEF PlaceEdit, EditRow
    <2>3. edit' = [edit EXCEPT ![c] = Unhurried] \/ edit' = [edit EXCEPT ![c] = [edit[c] EXCEPT !.pc = "move"]]
      BY DEF CheckPlace, SavePlace, Replied
    <2>4. [edit[c] EXCEPT !.pc = "move"].pc = "move" /\ [edit[c] EXCEPT !.pc = "move"].input = edit[c].input
      BY <1>0 DEF PlaceEdit
    <2>5. QED
      BY <2>1, <2>2, <2>3, <2>4
  <1>2. location' \in UserPreferences
    <2>1. location \in UserPreferences
      BY DEF SettingsHold, SettingsTyped
    <2>2. Saved(location, edit[c].input) \in UserPreferences
      <3>1. edit[c].input \in UpdateUserPreferencesInput
        BY <1>0 DEF PlaceEdit
      <3>2. \A h \in Halves : (IF edit[c].input[h] = "keep" THEN location[h] ELSE edit[c].input[h] = "give") \in BOOLEAN
        BY <2>1, <3>1 DEF UserPreferences
      <3>3. QED
        BY <3>2 DEF Saved, UserPreferences
    <2>3. location' = location \/ location' = Saved(location, edit[c].input)
      BY DEF CheckPlace, SavePlace
    <2>4. QED
      BY <2>1, <2>2, <2>3
  <1>3. SettingsTyped'
    BY <1>0, <1>1, <1>2 DEF SettingsHold, SettingsTyped
  <1>4. StampsArePast'
    <2>1. \A d \in Changes : edit'[d].pc \in {"row", "stamp"} => edit'[d] = edit[d]
      BY <1>1 DEF SettingsHold, SettingsTyped
    <2>2. QED
      BY <1>0, <2>1 DEF StampsArePast, SettingsHold
  <1>5. PlaceAlone'
    <2> SUFFICES ASSUME "place" \notin mixed' PROVE PlaceAlone'
      BY DEF PlaceAlone
    <2>1. "place" \notin mixed /\ PlaceAlone
      BY <1>0 DEF SettingsHold
    <2>2. \A d \in Changes : OfPlace(d)' => d = c
      BY <1>0, <1>1, <2>1 DEF OfPlace, PlaceAlone, SettingsHold, SettingsTyped
    <2>3. CASE SavePlace(c)
      <3>1. edit[c].pc = "move" /\ location' = Saved(location, edit[c].input) /\ edit' = [edit EXCEPT ![c] = Unhurried]
        BY <2>3 DEF SavePlace, Replied
      <3>2. \A d \in Changes : ~OfPlace(d)'
        BY <2>2, <3>1 DEF OfPlace, Unhurried, SettingsHold, SettingsTyped
      <3>3. HasCompleteLocation(location')
        BY <2>1, <3>1 DEF PlaceAlone
      <3>4. QED
        BY <2>2, <3>2, <3>3 DEF PlaceAlone, HasCompleteLocation, OfPlace
    <2>4. CASE CheckPlace(c)
      <3>1. UNCHANGED location
        BY <2>4 DEF CheckPlace
      <3>2. ASSUME NEW d \in Changes, edit'[d].pc = "move"
            PROVE  HasCompleteLocation(Saved(location, edit'[d].input))
        <4>1. d = c
          BY <2>2, <3>2 DEF OfPlace
        <4>2. HasCompleteLocation(Saved(location, edit[c].input)) /\ edit'[c].input = edit[c].input
          BY <1>0, <1>1, <2>4, <3>2, <4>1 DEF CheckPlace, Replied, Unhurried, SettingsHold, SettingsTyped
        <4>3. QED
          BY <4>1, <4>2
      <3>3. QED
        BY <2>1, <2>2, <3>1, <3>2 DEF PlaceAlone
    <2>5. QED
      BY <2>3, <2>4
  <1>6. ConsentAlone'
    BY <1>0, <1>1, ConsentStays
  <1>7. QED
    BY <1>3, <1>4, <1>5, <1>6 DEF SettingsHold

LEMMA SettingsAsk ==
  ASSUME SettingsHold, NEW c \in Changes, NEW wanted \in BOOLEAN,
         UpdateConsent(c, wanted) \/ Unsubscribe(c)
  PROVE  SettingsHold'
  <1>1. PICK e \in AskedEdit : edit' = [edit EXCEPT ![c] = e] /\ e.now = moment + 1
    <2>1. moment + 1 \in Nat
      BY SettingsAssumption DEF SettingsHold, SettingsTyped
    <2>2. \E w, link \in BOOLEAN :
            edit' = [edit EXCEPT ![c] = [pc |-> "row", wanted |-> w, link |-> link, now |-> moment + 1]]
      BY DEF UpdateConsent, Unsubscribe, Sends
    <2>3. PICK w, link \in BOOLEAN :
            edit' = [edit EXCEPT ![c] = [pc |-> "row", wanted |-> w, link |-> link, now |-> moment + 1]]
      BY <2>2
    <2>4. [pc |-> "row", wanted |-> w, link |-> link, now |-> moment + 1] \in AskedEdit
      BY <2>1 DEF AskedEdit
    <2>5. QED
      BY <2>3, <2>4
  <1>0. /\ edit[c].pc = "new" /\ e.pc = "row" /\ e \in EditRow
        /\ moment < MaxMoment /\ moment' = moment + 1 /\ UNCHANGED <<location, consent>>
        /\ mixed' = IF \E d \in Changes : OfConsent(d) THEN mixed \cup {"consent"} ELSE mixed
    BY DEF UpdateConsent, Unsubscribe, Sends, Mixes, OfConsent, AskedEdit, EditRow
  <1>2. SettingsTyped'
    BY <1>0, <1>1, SettingsAssumption DEF SettingsHold, SettingsTyped
  <1>3. moment \in Nat /\ consent.optedIn \in Nat /\ consent.optedOut \in Nat
        /\ consent.optedIn <= moment /\ consent.optedOut <= moment
    BY SettingsAssumption DEF SettingsHold, SettingsTyped, NotificationPreferences, StampsArePast
  <1>4. \A d \in Changes : d # c => edit'[d] = edit[d]
    BY <1>1 DEF SettingsHold, SettingsTyped
  <1>5. edit'[c] = e
    BY <1>1 DEF SettingsHold, SettingsTyped
  <1>6. StampsArePast'
    <2>1. \A d \in Changes :
            /\ edit[d].pc \in {"row", "stamp"} => edit[d].now \in Nat
            /\ edit[d].pc = "stamp" => edit[d].save.optedIn \in Nat /\ edit[d].save.optedOut \in Nat
      BY EditRowsApart DEF SettingsHold, SettingsTyped, AskedEdit, StampEdit, NotificationPreferences
    <2>2. ASSUME NEW d \in Changes, edit'[d].pc \in {"row", "stamp"}
          PROVE  /\ edit'[d].now <= moment'
                 /\ edit'[d].pc = "stamp" =>
                      edit'[d].save.optedIn <= moment' /\ edit'[d].save.optedOut <= moment'
      BY <1>0, <1>1, <1>3, <1>4, <1>5, <2>1, <2>2 DEF StampsArePast, SettingsHold
    <2>3. QED
      BY <1>0, <1>3, <2>2 DEF StampsArePast
  <1>7. PlaceAlone'
    BY <1>0, <1>1, PlaceStays DEF OfPlace
  <1>8. ConsentAlone'
    <2> SUFFICES ASSUME "consent" \notin mixed' PROVE ConsentAlone'
      BY DEF ConsentAlone
    <2>1. "consent" \notin mixed /\ \A d \in Changes : ~OfConsent(d)
      BY <1>0
    <2>2. StampsTellConsent'
      BY <1>0, <2>1 DEF ConsentAlone, SettingsHold, StampsTellConsent
    <2>3. \A d \in Changes : OfConsent(d)' => d = c
      BY <1>4, <2>1 DEF OfConsent
    <2>4. edit'[c].now > consent'.optedIn /\ edit'[c].now > consent'.optedOut /\ edit'[c].pc # "stamp"
      BY <1>0, <1>1, <1>3, <1>5
    <2>5. QED
      BY <2>2, <2>3, <2>4 DEF ConsentAlone
  <1>9. QED
    BY <1>2, <1>6, <1>7, <1>8 DEF SettingsHold

LEMMA SettingsRead ==
  ASSUME SettingsHold, NEW c \in Changes, ReadConsent(c)
  PROVE  SettingsHold'
  <1>0. /\ edit[c].pc = "row" /\ edit[c] \in AskedEdit /\ OfConsent(c) /\ ~OfPlace(c)
        /\ UNCHANGED <<location, consent, moment, mixed>>
    BY EditRowsApart DEF ReadConsent, OfPlace, OfConsent, SettingsHold, SettingsTyped
  <1> DEFINE save == ConsentChange(consent, edit[c].wanted, edit[c].now)
             stamp == [pc |-> "stamp", save |-> save, now |-> edit[c].now]
  <1>a. edit' = [edit EXCEPT ![c] = Unhurried] \/ edit' = [edit EXCEPT ![c] = stamp]
    BY DEF ReadConsent, Replied
  <1>b. save \in NotificationPreferences /\ save.emailEnabled = edit[c].wanted
    BY <1>0, ConsentChanges DEF AskedEdit, ConsentChange, SettingsHold, SettingsTyped
  <1>c. stamp \in StampEdit
    BY <1>0, <1>b DEF StampEdit, AskedEdit
  <1>1. PICK e \in EditRow : edit' = [edit EXCEPT ![c] = e] /\ (e = Unhurried \/ e = stamp)
    BY <1>a, <1>c DEF EditRow
  <1>2. SettingsTyped'
    BY <1>0, <1>1 DEF SettingsHold, SettingsTyped
  <1>3. \A d \in Changes : d # c => edit'[d] = edit[d]
    BY <1>1 DEF SettingsHold, SettingsTyped
  <1>4. edit'[c] = e /\ e.pc \in {"new", "stamp"}
    BY <1>1 DEF SettingsHold, SettingsTyped, Unhurried
  <1>5. e.pc = "stamp" => e = stamp /\ e.now = edit[c].now /\ e.save = save
    BY <1>1 DEF Unhurried
  <1>6. StampsArePast'
    <2>1. edit[c].now <= moment /\ edit[c].now \in Nat /\ moment \in Nat
      BY <1>0, SettingsAssumption DEF StampsArePast, SettingsHold, SettingsTyped, AskedEdit
    <2>2. save.optedIn \in {edit[c].now, 0} /\ save.optedOut \in {edit[c].now, 0}
      BY DEF ConsentChange
    <2>3. save.optedIn <= moment /\ save.optedOut <= moment
      BY <2>1, <2>2
    <2>4. QED
      BY <1>0, <1>3, <1>4, <1>5, <2>1, <2>3 DEF StampsArePast, SettingsHold
  <1>7. PlaceAlone'
    BY <1>0, <1>1, <1>4, PlaceStays
  <1>8. ConsentAlone'
    <2> SUFFICES ASSUME "consent" \notin mixed' PROVE ConsentAlone'
      BY DEF ConsentAlone
    <2>1. "consent" \notin mixed /\ ConsentAlone
      BY <1>0 DEF SettingsHold
    <2>2. StampsTellConsent'
      BY <1>0, <2>1 DEF ConsentAlone, StampsTellConsent
    <2>3. \A d \in Changes : OfConsent(d)' => d = c
      BY <1>0, <1>3, <2>1 DEF ConsentAlone, OfConsent
    <2>4. edit[c].now > consent.optedIn /\ edit[c].now > consent.optedOut
      BY <1>0, <2>1 DEF ConsentAlone
    <2>5. edit'[c].pc = "stamp" =>
            edit'[c].save = ConsentChange(consent', edit'[c].save.emailEnabled, edit'[c].now)
      BY <1>0, <1>b, <1>4, <1>5
    <2>6. OfConsent(c)' => edit'[c].pc = "stamp"
      BY <1>4 DEF OfConsent
    <2>7. QED
      BY <1>0, <1>4, <1>5, <2>2, <2>3, <2>4, <2>5, <2>6 DEF ConsentAlone
  <1>9. QED
    BY <1>2, <1>6, <1>7, <1>8 DEF SettingsHold

LEMMA SettingsSave ==
  ASSUME SettingsHold, NEW c \in Changes, SaveConsent(c)
  PROVE  SettingsHold'
  <1> DEFINE save == edit[c].save
  <1>0. /\ edit[c].pc = "stamp" /\ edit[c] \in StampEdit /\ OfConsent(c) /\ ~OfPlace(c)
        /\ edit' = [edit EXCEPT ![c] = Unhurried] /\ UNCHANGED <<location, moment, mixed>>
        /\ consent' = [emailEnabled |-> save.emailEnabled,
                       optedIn |-> IF save.optedIn = 0 THEN consent.optedIn ELSE save.optedIn,
                       optedOut |-> IF save.optedOut = 0 THEN consent.optedOut ELSE save.optedOut]
    BY EditRowsApart DEF SaveConsent, Replied, OfPlace, OfConsent, SettingsHold, SettingsTyped
  <1>1. save \in NotificationPreferences /\ consent \in NotificationPreferences
    BY <1>0 DEF StampEdit, SettingsHold, SettingsTyped
  <1>2. SettingsTyped'
    BY <1>0, <1>1 DEF SettingsHold, SettingsTyped, NotificationPreferences, EditRow
  <1>3. \A d \in Changes : edit'[d].pc \in {"row", "stamp"} => d # c /\ edit'[d] = edit[d]
    BY <1>0 DEF SettingsHold, SettingsTyped, Unhurried
  <1>4. StampsArePast'
    <2>1. save.optedIn <= moment /\ save.optedOut <= moment
      BY <1>0 DEF StampsArePast, SettingsHold
    <2>2. QED
      BY <1>0, <1>1, <1>3, <2>1 DEF StampsArePast, SettingsHold, NotificationPreferences
  <1>5. PlaceAlone'
    BY <1>0, PlaceStays DEF Unhurried
  <1>6. ConsentAlone'
    <2> SUFFICES ASSUME "consent" \notin mixed' PROVE ConsentAlone'
      BY DEF ConsentAlone
    <2>1. "consent" \notin mixed /\ ConsentAlone
      BY <1>0 DEF SettingsHold
    <2>2. \A d \in Changes : ~OfConsent(d)'
      BY <1>0, <1>3, <2>1 DEF ConsentAlone, OfConsent
    <2>3. /\ save = ConsentChange(consent, save.emailEnabled, edit[c].now)
          /\ edit[c].now > consent.optedIn /\ edit[c].now > consent.optedOut /\ edit[c].now \in Nat
      BY <1>0, <2>1 DEF ConsentAlone, StampEdit
    <2>4. consent.emailEnabled <=> consent.optedIn > consent.optedOut
      BY <2>1 DEF ConsentAlone, StampsTellConsent
    <2>5. save.emailEnabled <=> consent'.optedIn > consent'.optedOut
      <3>1. /\ save.optedIn = IF save.emailEnabled /\ ~consent.emailEnabled THEN edit[c].now ELSE 0
            /\ save.optedOut = IF ~save.emailEnabled /\ consent.emailEnabled THEN edit[c].now ELSE 0
        BY <2>3 DEF ConsentChange
      <3>2. consent.optedIn \in Nat /\ consent.optedOut \in Nat
            /\ save.emailEnabled \in BOOLEAN /\ consent.emailEnabled \in BOOLEAN
        BY <1>1 DEF NotificationPreferences
      <3>3. consent'.optedIn = (IF save.optedIn = 0 THEN consent.optedIn ELSE save.optedIn)
            /\ consent'.optedOut = (IF save.optedOut = 0 THEN consent.optedOut ELSE save.optedOut)
        BY <1>0
      <3>4. edit[c].now # 0
        BY <2>3, <3>2
      <3>5. CASE save.emailEnabled
        BY <2>3, <2>4, <3>1, <3>2, <3>3, <3>4, <3>5
      <3>6. CASE ~save.emailEnabled
        BY <2>3, <2>4, <3>1, <3>2, <3>3, <3>4, <3>6
      <3>7. QED
        BY <3>5, <3>6
    <2>6. QED
      BY <1>0, <2>2, <2>5 DEF ConsentAlone, StampsTellConsent
  <1>7. QED
    BY <1>2, <1>4, <1>5, <1>6 DEF SettingsHold

LEMMA SettingsKeep ==
  ASSUME SettingsHold, [SettingsNext]_settingsVars
  PROVE  SettingsHold'
  <1>1. CASE UNCHANGED settingsVars
    <2>1. UNCHANGED <<location, consent, edit, moment, mixed>>
      BY <1>1 DEF settingsVars
    <2>2. QED
      BY <2>1 DEF SettingsHold, SettingsTyped, StampsArePast, PlaceAlone, ConsentAlone, OfPlace,
                  OfConsent, StampsTellConsent
  <1>2. CASE SettingsNext
    BY <1>2, SettingsMove, SettingsPlace, SettingsAsk, SettingsRead, SettingsSave
       DEF SettingsNext, ChangeStep
  <1>3. QED
    BY <1>1, <1>2

LEMMA SettingsAreRight == SettingsHold => SettingsTypeOK /\ PlaceIsWhole /\ StampsTellConsent
  <1> SUFFICES ASSUME SettingsHold PROVE SettingsTypeOK /\ PlaceIsWhole /\ StampsTellConsent
    OBVIOUS
  <1>1. SettingsTypeOK
    BY EditRowsApart DEF SettingsHold, SettingsTyped, SettingsTypeOK
  <1>2. PlaceIsWhole /\ StampsTellConsent
    BY DEF SettingsHold, PlaceAlone, ConsentAlone, PlaceIsWhole, StampsTellConsent
  <1>3. QED
    BY <1>1, <1>2

\* Half a coordinate is stored, and a stamp contradicts the switch, only where
\* two changes met, however many are made and whatever they ask for.
THEOREM SettingsAreWhole == SettingsSpec => [](PlaceIsWhole /\ StampsTellConsent)
  BY SettingsStart, SettingsKeep, SettingsAreRight, PTL DEF SettingsSpec

-----------------------------------------------------------------------------
(***************************************************************************)
(* The tree: parents are there before their children, and what of the file *)
(* is applied so far stands as the file puts it.                           *)
(***************************************************************************)
ClerkRequest ==
    {Idling} \cup [pc : {"parent", "create"}, slug : Slugs, parent : Slugs \cup {Top}]
             \cup [pc : {"file"}, good : Goods, slug : Slugs]

SyncTyped ==
    /\ sync = [pc |-> sync.pc, data |-> sync.data, at |-> sync.at, ids |-> sync.ids,
               todo |-> sync.todo, old |-> sync.old]
    /\ sync.data \in Taxonomies /\ sync.ids \subseteq Slugs /\ sync.todo \subseteq Slugs /\ sync.at \in Nat
    /\ sync.pc \in {"off", "upsert", "products", "retire", "rest", "done"}
    /\ sync.pc # "off" => LoadTaxonomy(sync.data)
    /\ sync.pc \in {"upsert", "products", "retire"} => sync.at \in 1 .. Len(sync.data)
    /\ sync.pc \in {"products", "retire"} => sync.todo \subseteq sync.data[sync.at].replaces
    /\ sync.pc = "retire" => sync.old \in sync.todo /\ sync.old # sync.data[sync.at].slug

WalkTyped ==
    /\ walk = [pc |-> walk.pc, root |-> walk.root, collected |-> walk.collected,
               frontier |-> walk.frontier, under |-> walk.under, shaken |-> walk.shaken]
    /\ walk.pc \in {"new", "walking", "done"}
    /\ walk.collected \subseteq Slugs /\ walk.frontier \subseteq Slugs /\ walk.under \subseteq Slugs

TreeTyped ==
    /\ category \in [Slugs -> Category] /\ filed \in [Goods -> Slugs]
    /\ clerk \in [Clerks -> ClerkRequest]
    /\ SyncTyped /\ WalkTyped
    /\ meddled \in BOOLEAN /\ deploys \in 0 .. MaxDeploys

\* What is named is there: parents, where products are filed, and what a
\* request has found.
NamesAreThere ==
    /\ \A c \in Slugs : category[c].parent # Top => Is(c) /\ Is(category[c].parent)
    /\ \A g \in Goods : Is(filed[g])
    /\ \A k \in Clerks : /\ clerk[k].pc = "create" /\ clerk[k].parent # Top => Is(clerk[k].parent)
                         /\ clerk[k].pc = "file" => Is(clerk[k].slug)
    /\ sync.pc = "retire" => Is(sync.old)

\* Lines of the file that were upserted.
LinesDone ==
    IF sync.pc = "upsert" THEN sync.at - 1
    ELSE IF sync.pc \in {"products", "retire"} THEN sync.at
    ELSE IF sync.pc = "off" THEN 0 ELSE Len(sync.data)

\* Categories these many lines replace, but for those of the last that are to
\* be retired yet.
ReplacedSoFar(data, n, todo) ==
    {c \in Slugs : \E i \in 1 .. n : /\ c \in data[i].replaces \ {data[i].slug}
                                     /\ i = n => c \notin todo
                                     /\ \A j \in (i + 1) .. n : data[j].slug # c}
PendingOf == IF sync.pc \in {"products", "retire"} THEN sync.todo ELSE {}
ReplacedNow == ReplacedSoFar(sync.data, LinesDone, PendingOf)

LinesStand ==
    /\ \A i \in 1 .. LinesDone : Is(sync.data[i].slug) /\ category[sync.data[i].slug].parent = sync.data[i].parent
    /\ sync.pc # "off" => sync.ids = {sync.data[i].slug : i \in 1 .. LinesDone}

FileStands ==
    sync.pc # "off" /\ ~meddled =>
        /\ \A c \in ReplacedNow : category[c].state # "ACTIVE"
        /\ \A g \in Goods : filed[g] \notin ReplacedNow
        /\ \A i \in 1 .. LinesDone : sync.data[i].slug \notin ReplacedNow => category[sync.data[i].slug].state = "ACTIVE"
        /\ sync.pc = "retire" => \A g \in Goods : filed[g] # sync.old
        /\ sync.pc = "done" => \A c \in Slugs \ sync.ids : category[c].state # "ACTIVE"

\* The walk has what lies under the categories it has left behind.
WalkHolds ==
    walk.pc # "new" /\ ~walk.shaken =>
        /\ walk.root \in walk.collected /\ walk.frontier \subseteq walk.collected
        /\ \A c \in walk.under : Is(c)
        /\ \A s \in Within(walk.root) : walk.collected \subseteq s
        /\ \A s \in SUBSET Slugs : walk.root \in s /\ (\A c \in walk.under : category[c].parent \in s => c \in s)
                                     => walk.under \subseteq s
        /\ \A c \in walk.under : category[c].parent \in walk.collected \ walk.frontier => c \in walk.collected
        /\ walk.pc = "done" => walk.frontier = {}

TreeHolds == TreeTyped /\ NamesAreThere /\ TreeHasNoCycles /\ LinesStand /\ FileStands /\ WalkHolds

LEMMA ClerkRowsApart ==
  ASSUME NEW e \in ClerkRequest
  PROVE  /\ e.pc \in {"new", "parent", "create", "file"}
         /\ e.pc \in {"parent", "create"} => e = [pc |-> e.pc, slug |-> e.slug, parent |-> e.parent]
                                             /\ e.slug \in Slugs /\ e.parent \in Slugs \cup {Top}
         /\ e.pc = "file" => e.good \in Goods /\ e.slug \in Slugs
  BY DEF ClerkRequest, Idling

LEMMA EntriesOf ==
  ASSUME NEW data \in Taxonomies
  PROVE  /\ Len(data) \in Nat
         /\ \A i \in 1 .. Len(data) : /\ data[i].slug \in Slugs /\ data[i].parent \in Slugs \cup {Top}
                                      /\ data[i].replaces \subseteq Slugs
  <1>1. data \in Seq(Entry)
    BY TreeAssumption DEF TreeAssumption
  <1>2. \A i \in 1 .. Len(data) : data[i] \in Entry
    BY <1>1, ElementOfSeq
  <1>3. QED
    BY <1>1, <1>2 DEF Entry

LEMMA TreeStarts == TreeInit => TreeHolds
  <1> SUFFICES ASSUME TreeInit PROVE TreeHolds
    OBVIOUS
  <1>1. PICK data \in Taxonomies :
          sync = [pc |-> "off", data |-> data, at |-> 1, ids |-> {}, todo |-> {}, old |-> Top]
    BY DEF TreeInit
  <1>2. /\ clerk = [k \in Clerks |-> Idling] /\ walk.pc = "new" /\ meddled = FALSE /\ deploys = MaxDeploys
        /\ walk = [pc |-> "new", root |-> Top, collected |-> {}, frontier |-> {}, under |-> {}, shaken |-> FALSE]
        /\ category \in [Slugs -> Category] /\ filed \in [Goods -> {c \in Slugs : Is(c)}]
    BY DEF TreeInit
  <1>3. TreeTyped
    <2>1. SyncTyped
      BY <1>1 DEF SyncTyped
    <2>2. WalkTyped
      BY <1>2 DEF WalkTyped
    <2>3. clerk \in [Clerks -> ClerkRequest] /\ filed \in [Goods -> Slugs]
      BY <1>2 DEF ClerkRequest
    <2>4. meddled \in BOOLEAN
      BY <1>2
    <2>5. deploys \in 0 .. MaxDeploys
      BY <1>2, TreeAssumption DEF TreeAssumption
    <2>6. QED
      BY <1>2, <2>1, <2>2, <2>3, <2>4, <2>5 DEF TreeTyped
  <1>4. NamesAreThere
    BY <1>1, <1>2 DEF TreeInit, NamesAreThere, Idling
  <1>5. LinesStand /\ FileStands /\ WalkHolds
    BY <1>1, <1>2 DEF LinesStand, FileStands, WalkHolds, LinesDone
  <1>6. QED
    BY <1>3, <1>4, <1>5 DEF TreeHolds, TreeInit

-----------------------------------------------------------------------------
(***************************************************************************)
(* The walk, as rows are added and no parent changes.                      *)
(***************************************************************************)
ParentsStay ==
    \A c \in Slugs : Is(c) => Is(c)' /\ category'[c].parent = category[c].parent

LEMMA WalkStays ==
  ASSUME WalkTyped, WalkHolds, ParentsStay, UNCHANGED walk
  PROVE  WalkTyped' /\ WalkHolds'
  <1>1. WalkTyped'
    BY DEF WalkTyped
  <1>2. ASSUME walk.pc # "new", ~walk.shaken
        PROVE  /\ \A s \in Within(walk.root)' : s \in Within(walk.root)
               /\ \A c \in walk.under : Is(c) /\ Is(c)' /\ category'[c].parent = category[c].parent
    <2>1. \A s \in Within(walk.root)' : s \in Within(walk.root)
      BY DEF Within, Children, ParentsStay
    <2>2. QED
      BY <1>2, <2>1 DEF WalkHolds, WalkTyped, ParentsStay
  <1>3. WalkHolds'
    BY <1>2 DEF WalkHolds
  <1>4. QED
    BY <1>1, <1>3

\* What lies under the root is closed, and nothing in it is there for any
\* other reason than its parent.
LEMMA UnderIsLeast ==
  ASSUME TreeTyped, NamesAreThere, NEW c \in Slugs, Is(c), NEW under,
         under = {d \in Slugs : \A s \in Within(c) : d \in s},
         NEW s \in SUBSET Slugs, c \in s, \A d \in under : category[d].parent \in s => d \in s
  PROVE  under \subseteq s
  <1>1. under \in Within(c)
    BY DEF Within, Children
  <1>2. \A d \in under : d = c \/ category[d].parent \in under
    <2> SUFFICES ASSUME NEW d \in under, d # c, category[d].parent \notin under PROVE FALSE
      OBVIOUS
    <2>1. under \ {d} \in Within(c)
      BY <1>1 DEF Within, Children
    <2>2. QED
      BY <2>1
  <1>3. s \cup (Slugs \ under) \in Within(c)
    <2> DEFINE t == s \cup (Slugs \ under)
    <2>1. t \in SUBSET Slugs /\ c \in t
      OBVIOUS
    <2>2. ASSUME NEW d \in Children(t) PROVE d \in t
      <3>1. d \in Slugs /\ category[d].parent \in t
        BY DEF Children
      <3>2. CASE d \notin under
        BY <3>1, <3>2
      <3>3. CASE d \in under
        <4>1. d = c \/ category[d].parent \in s
          BY <1>2, <3>1, <3>3
        <4>2. QED
          BY <3>3, <4>1
      <3>4. QED
        BY <3>2, <3>3
    <2>3. QED
      BY <2>1, <2>2 DEF Within
  <1>4. QED
    BY <1>3

LEMMA WalkBegins ==
  ASSUME TreeTyped, NamesAreThere, NEW c \in Slugs, SearchProducts(c)
  PROVE  WalkTyped' /\ WalkHolds'
  <1> DEFINE lies == {d \in Slugs : \A s \in Within(c) : d \in s}
  <1>1. /\ Is(c) /\ UNCHANGED category
        /\ walk' = [pc |-> "walking", root |-> c, collected |-> {c}, frontier |-> {c},
                    under |-> lies, shaken |-> FALSE]
    BY DEF SearchProducts
  <1>2. WalkTyped'
    BY <1>1 DEF WalkTyped
  <1>3. \A d \in lies : Is(d)
    <2>1. {d \in Slugs : Is(d)} \in Within(c)
      BY <1>1 DEF Within, Children
    <2>2. QED
      BY <2>1
  <1>4. \A s \in SUBSET Slugs : c \in s /\ (\A d \in lies : category[d].parent \in s => d \in s) => lies \subseteq s
    BY <1>1, UnderIsLeast
  <1>5. \A s \in Within(c)' : {c} \subseteq s
    BY DEF Within
  <1>6. (\A d \in lies : Is(d))'
    BY <1>1, <1>3 DEF Is, Within, Children
  <1> HIDE DEF lies
  <1>7. /\ walk'.pc = "walking" /\ walk'.root = c /\ walk'.collected = {c} /\ walk'.frontier = {c}
        /\ walk'.under = lies
    BY <1>1
  <1>8. WalkHolds'
    <2>1. \A d \in lies : category'[d].state # "NONE"
      BY <1>1, <1>3 DEF Is
    <2>2. \A s \in SUBSET Slugs : c \in s /\ (\A d \in lies : category'[d].parent \in s => d \in s) => lies \subseteq s
      BY <1>1, <1>4
    <2>3. QED
      BY <1>5, <1>7, <2>1, <2>2 DEF WalkHolds, Is
  <1>9. QED
    BY <1>2, <1>8

LEMMA WalkGoesOn ==
  ASSUME TreeTyped, WalkHolds, FindLevel
  PROVE  WalkTyped' /\ WalkHolds'
  <1> DEFINE level == Children(walk.frontier) \ walk.collected
  <1>0. walk.pc = "walking" /\ UNCHANGED <<category, filed, sync, clerk, meddled, deploys>> /\ WalkTyped
    BY DEF FindLevel, TreeTyped
  <1>1. PICK w : w = [walk EXCEPT !.frontier = level, !.collected = @ \cup level,
                                  !.pc = IF level = {} THEN "done" ELSE "walking"]
    OBVIOUS
  <1>2. walk' = w
    BY <1>1 DEF FindLevel
  <1>3. walk' = [pc |-> IF level = {} THEN "done" ELSE "walking", root |-> walk.root,
                 collected |-> walk.collected \cup level, frontier |-> level,
                 under |-> walk.under, shaken |-> walk.shaken]
    BY <1>0, <1>1, <1>2 DEF WalkTyped
  <1>4. level \subseteq Slugs
    BY DEF Children
  <1>5. WalkTyped'
    BY <1>0, <1>3, <1>4 DEF WalkTyped
  <1>6. ASSUME ~walk.shaken
        PROVE  /\ \A s \in Within(walk.root) : walk.collected \cup level \subseteq s
               /\ \A c \in walk.under : category[c].parent \in (walk.collected \cup level) \ level
                                          => c \in walk.collected \cup level
    <2>1. WalkHolds /\ walk.pc # "new"
      BY <1>0
    <2>2. ASSUME NEW s \in Within(walk.root) PROVE walk.collected \cup level \subseteq s
      <3>1. walk.collected \subseteq s /\ walk.frontier \subseteq s /\ Children(s) \subseteq s
        BY <1>6, <2>1 DEF WalkHolds, Within
      <3>2. QED
        BY <3>1 DEF Children
    <2>3. ASSUME NEW c \in walk.under, category[c].parent \in walk.collected PROVE c \in walk.collected \cup level
      <3>1. Is(c) /\ c \in Slugs
        BY <1>0, <1>6, <2>1 DEF WalkHolds, WalkTyped
      <3>2. CASE category[c].parent \in walk.frontier
        BY <3>1, <3>2 DEF Children
      <3>3. CASE category[c].parent \notin walk.frontier
        BY <1>6, <2>1, <2>3, <3>3 DEF WalkHolds
      <3>4. QED
        BY <3>2, <3>3
    <2>4. QED
      BY <2>2, <2>3
  <1> HIDE DEF level
  <1>7. /\ walk'.pc = (IF level = {} THEN "done" ELSE "walking") /\ walk'.root = walk.root
        /\ walk'.collected = walk.collected \cup level /\ walk'.frontier = level
        /\ walk'.under = walk.under /\ walk'.shaken = walk.shaken
    BY <1>3
  <1>8. WalkHolds'
    <2>1. Within(walk.root)' = {s \in SUBSET Slugs : walk'.root \in s /\ Children(s) \subseteq s}
      BY <1>0 DEF Within, Children, Is
    <2>2. \A s \in Within(walk.root)' : s \in Within(walk.root)
      BY <1>7, <2>1 DEF Within
    <2>3. QED
      BY <1>0, <1>6, <1>7, <2>2 DEF WalkHolds, Is
  <1>9. QED
    BY <1>5, <1>8

-----------------------------------------------------------------------------
(***************************************************************************)
(* The tree, as a category is put beneath some that lie apart from it.     *)
(***************************************************************************)
LEMMA NoNewCycle ==
  ASSUME TreeTyped, TreeHasNoCycles, NEW c \in Slugs, NEW e \in Category, e.state # "NONE",
         category' = [category EXCEPT ![c] = e],
         NEW D \in SUBSET Slugs, c \notin D, e.parent \in D \cup {Top},
         \A d \in D : Is(d) /\ category[d].parent \in D \cup {Top}
  PROVE  TreeHasNoCycles'
  <1> SUFFICES ASSUME NEW s \in SUBSET {d \in Slugs : Is(d)'}, s # {},
                      \A d \in s : category'[d].parent \in s
               PROVE  FALSE
    BY DEF TreeHasNoCycles
  <1>1. /\ category'[c] = e /\ Top \notin s /\ s \subseteq Slugs
        /\ \A d \in Slugs \ {c} : category'[d] = category[d] /\ (Is(d)' => Is(d))
    BY TreeAssumption DEF TreeAssumption, TreeTyped, Is
  <1>2. ASSUME NEW t \in SUBSET {d \in Slugs : Is(d)}, t # {}
        PROVE  \E d \in t : category[d].parent \notin t
    BY <1>2 DEF TreeHasNoCycles
  <1>3. CASE c \notin s
    <2>1. s \in SUBSET {d \in Slugs : Is(d)} /\ \A d \in s : category[d].parent \in s
      BY <1>1, <1>3
    <2>2. QED
      BY <1>2, <2>1
  <1>4. CASE c \in s
    <2>1. e.parent \in s \cap D
      BY <1>1, <1>4
    <2>2. \A d \in s \cap D : category[d].parent \in s \cap D
      BY <1>1
    <2>3. s \cap D \in SUBSET {d \in Slugs : Is(d)}
      OBVIOUS
    <2>4. QED
      BY <1>2, <2>1, <2>2, <2>3
  <1>5. QED
    BY <1>3, <1>4

\* As categories are retired, the tree keeps its shape.
LEMMA ShapeStays ==
  ASSUME TreeHolds, category' \in [Slugs -> Category], UNCHANGED walk,
         \A c \in Slugs : category'[c].parent = category[c].parent /\ (Is(c)' <=> Is(c))
  PROVE  /\ ParentsStay /\ TreeHasNoCycles' /\ WalkTyped' /\ WalkHolds'
         /\ \A c \in Slugs : category'[c].parent # Top => Is(c)' /\ category'[category'[c].parent].state # "NONE"
  <1>1. ParentsStay
    BY DEF ParentsStay
  <1>2. WalkTyped' /\ WalkHolds'
    BY <1>1, WalkStays DEF TreeHolds, TreeTyped
  <1>3. TreeHasNoCycles'
    BY DEF TreeHolds, TreeHasNoCycles
  <1>4. ASSUME NEW c \in Slugs, category'[c].parent # Top
        PROVE  Is(c)' /\ category'[category'[c].parent].state # "NONE"
    <2>1. Is(c) /\ Is(category[c].parent) /\ category[c].parent \in Slugs
      BY <1>4 DEF TreeHolds, TreeTyped, NamesAreThere, Category
    <2>2. QED
      BY <2>1 DEF Is
  <1>5. QED
    BY <1>1, <1>2, <1>3, <1>4

\* What was found stays there, as long as no row goes.
LEMMA RequestsStay ==
  ASSUME TreeHolds, UNCHANGED <<filed, clerk>>,
         \A c \in Slugs : Is(c) => Is(c)',
         \A c \in Slugs : category'[c].parent # Top => Is(c)' /\ category'[category'[c].parent].state # "NONE",
         sync'.pc # "retire"
  PROVE  NamesAreThere'
  <1>1. \A g \in Goods : filed[g] \in Slugs /\ Is(filed[g])
    BY DEF TreeHolds, TreeTyped, NamesAreThere
  <1>2. \A k \in Clerks : /\ clerk[k].pc = "create" /\ clerk[k].parent # Top => clerk[k].parent \in Slugs /\ Is(clerk[k].parent)
                          /\ clerk[k].pc = "file" => clerk[k].slug \in Slugs /\ Is(clerk[k].slug)
    BY ClerkRowsApart DEF TreeHolds, TreeTyped, NamesAreThere
  <1>3. QED
    BY <1>1, <1>2 DEF NamesAreThere, Is

-----------------------------------------------------------------------------
(***************************************************************************)
(* The file, line by line.                                                 *)
(***************************************************************************)
LEMMA AfterALine ==
  ASSUME NEW s, s = [pc |-> s.pc, data |-> s.data, at |-> s.at, ids |-> s.ids, todo |-> s.todo, old |-> s.old],
         s.data \in Taxonomies, s.at \in 1 .. Len(s.data), s.ids \in SUBSET Slugs, LoadTaxonomy(s.data),
         NEW todo \in SUBSET Slugs, todo \subseteq s.data[s.at].replaces, sync' = After(s, todo)
  PROVE  /\ SyncTyped' /\ sync'.pc \in {"upsert", "products", "rest"}
         /\ sync'.data = s.data /\ sync'.ids = s.ids /\ LinesDone' = s.at /\ PendingOf' = todo
  <1>0. Len(s.data) \in Nat
    BY EntriesOf
  <1>1. CASE todo # {}
    <2>1. PICK w : w = [s EXCEPT !.pc = "products", !.todo = todo]
      OBVIOUS
    <2>2. sync' = w
      BY <1>1, <2>1 DEF After
    <2>3. sync' = [pc |-> "products", data |-> s.data, at |-> s.at, ids |-> s.ids, todo |-> todo, old |-> s.old]
      BY <2>1, <2>2
    <2>4. QED
      BY <1>0, <2>3 DEF SyncTyped, LinesDone, PendingOf
  <1>2. CASE todo = {}
    <2> DEFINE pc == IF s.at < Len(s.data) THEN "upsert" ELSE "rest"
    <2>1. PICK w : w = [s EXCEPT !.pc = pc, !.todo = {}, !.at = @ + 1]
      OBVIOUS
    <2>2. sync' = w
      BY <1>2, <2>1 DEF After
    <2>3. sync' = [pc |-> pc, data |-> s.data, at |-> s.at + 1, ids |-> s.ids, todo |-> {}, old |-> s.old]
      BY <2>1, <2>2
    <2>4. /\ sync'.pc = pc /\ sync'.data = s.data /\ sync'.at = s.at + 1 /\ sync'.ids = s.ids
          /\ sync'.todo = {} /\ sync'.old = s.old
      BY <2>3
    <2>5. LinesDone' = s.at
      BY <1>0, <2>4 DEF LinesDone
    <2>6. PendingOf' = todo
      BY <1>2, <2>4 DEF PendingOf
    <2>7. SyncTyped'
      BY <1>0, <2>3, <2>4 DEF SyncTyped
    <2>8. QED
      BY <2>4, <2>5, <2>6, <2>7
  <1>3. QED
    BY <1>1, <1>2

\* A line's slug is none of those before it, and its parent is one of them.
LEMMA LinesComeInOrder ==
  ASSUME NEW data \in Taxonomies, LoadTaxonomy(data), NEW n \in 1 .. Len(data)
  PROVE  /\ \A j \in 1 .. (n - 1) : j \in 1 .. Len(data) /\ data[j].slug # data[n].slug
         /\ data[n].parent = Top \/ \E j \in 1 .. (n - 1) : data[j].slug = data[n].parent
  BY EntriesOf DEF LoadTaxonomy

\* A line offers what lines before it replaced.
LEMMA OfferedAgain ==
  ASSUME NEW data \in Taxonomies, NEW n \in 1 .. Len(data)
  PROVE  ReplacedSoFar(data, n, data[n].replaces) = ReplacedSoFar(data, n - 1, {}) \ {data[n].slug}
  <1>0. Len(data) \in Nat /\ n \in Nat
    BY EntriesOf
  <1>1. ASSUME NEW c \in ReplacedSoFar(data, n, data[n].replaces)
        PROVE  c \in ReplacedSoFar(data, n - 1, {}) \ {data[n].slug}
    <2>1. c \in Slugs
      BY DEF ReplacedSoFar
    <2>2. PICK i \in 1 .. n : /\ c \in data[i].replaces \ {data[i].slug}
                              /\ i = n => c \notin data[n].replaces
                              /\ \A j \in (i + 1) .. n : data[j].slug # c
      BY DEF ReplacedSoFar
    <2>3. i \in 1 .. (n - 1) /\ n \in (i + 1) .. n
      BY <1>0, <2>2
    <2>4. \A j \in (i + 1) .. (n - 1) : data[j].slug # c
      BY <1>0, <2>2
    <2>5. QED
      BY <2>1, <2>2, <2>3, <2>4 DEF ReplacedSoFar
  <1>2. ASSUME NEW c \in ReplacedSoFar(data, n - 1, {}), c # data[n].slug
        PROVE  c \in ReplacedSoFar(data, n, data[n].replaces)
    <2>1. c \in Slugs
      BY DEF ReplacedSoFar
    <2>2. PICK i \in 1 .. (n - 1) : /\ c \in data[i].replaces \ {data[i].slug}
                                    /\ \A j \in (i + 1) .. (n - 1) : data[j].slug # c
      BY DEF ReplacedSoFar
    <2>3. i \in 1 .. n /\ i # n
      BY <1>0, <2>2
    <2>4. ASSUME NEW j \in (i + 1) .. n PROVE data[j].slug # c
      <3>1. j = n \/ j \in (i + 1) .. (n - 1)
        BY <1>0, <2>3
      <3>2. QED
        BY <1>2, <2>2, <3>1
    <2>5. QED
      BY <2>1, <2>2, <2>3, <2>4 DEF ReplacedSoFar
  <1>3. QED
    BY <1>1, <1>2

\* What is done with one more of those the line replaces.
LEMMA OneMoreReplaced ==
  ASSUME NEW data \in Taxonomies, NEW n \in 1 .. Len(data), NEW todo \in SUBSET Slugs, NEW gone \in todo
  PROVE  /\ ReplacedSoFar(data, n, todo \ {gone}) \subseteq ReplacedSoFar(data, n, todo) \cup ({gone} \ {data[n].slug})
         /\ ReplacedSoFar(data, n, todo) \subseteq ReplacedSoFar(data, n, todo \ {gone})
         /\ data[n].slug \notin ReplacedSoFar(data, n, todo)
  <1>0. Len(data) \in Nat /\ n \in Nat
    BY EntriesOf
  <1>1. ASSUME NEW c \in ReplacedSoFar(data, n, todo \ {gone}), c \notin {gone} \ {data[n].slug}
        PROVE  c \in ReplacedSoFar(data, n, todo)
    <2>1. c \in Slugs
      BY DEF ReplacedSoFar
    <2>2. PICK i \in 1 .. n : /\ c \in data[i].replaces \ {data[i].slug}
                              /\ i = n => c \notin todo \ {gone}
                              /\ \A j \in (i + 1) .. n : data[j].slug # c
      BY DEF ReplacedSoFar
    <2>3. i = n => c \notin todo
      BY <1>1, <2>2
    <2>4. QED
      BY <2>1, <2>2, <2>3 DEF ReplacedSoFar
  <1>2. ReplacedSoFar(data, n, todo) \subseteq ReplacedSoFar(data, n, todo \ {gone})
    BY DEF ReplacedSoFar
  <1>3. data[n].slug \notin ReplacedSoFar(data, n, todo)
    <2>1. ASSUME NEW i \in 1 .. n PROVE i = n \/ n \in (i + 1) .. n
      BY <1>0
    <2>2. QED
      BY <2>1 DEF ReplacedSoFar
  <1>4. QED
    BY <1>1, <1>2, <1>3

-----------------------------------------------------------------------------
LEMMA FileDeployed ==
  ASSUME TreeHolds, NEW data \in Taxonomies, Deploy(data)
  PROVE  TreeHolds'
  <1>0. /\ LoadTaxonomy(data) /\ Len(data) \in Nat /\ deploys > 0 /\ deploys' = deploys - 1 /\ meddled' = FALSE
        /\ UNCHANGED <<category, filed, clerk, walk>>
    BY EntriesOf DEF Deploy
  <1> DEFINE pc == IF data = <<>> THEN "rest" ELSE "upsert"
  <1>1. sync' = [pc |-> pc, data |-> data, at |-> 1, ids |-> {}, todo |-> {}, old |-> Top]
    BY DEF Deploy
  <1>2. /\ sync'.pc = pc /\ sync'.data = data /\ sync'.at = 1 /\ sync'.ids = {} /\ sync'.todo = {} /\ sync'.old = Top
    BY <1>1
  <1>3. data = <<>> \/ 1 \in 1 .. Len(data)
    <2>1. data \in Seq(Entry)
      BY TreeAssumption DEF TreeAssumption
    <2>2. data # <<>> => Len(data) # 0
      BY <2>1, EmptySeq
    <2>3. QED
      BY <1>0, <2>2
  <1>4. LinesDone' = 0
    <2>1. data = <<>> => Len(data) = 0
      OBVIOUS
    <2>2. QED
      BY <1>2, <2>1 DEF LinesDone
  <1>5. SyncTyped'
    BY <1>0, <1>1, <1>2, <1>3 DEF SyncTyped
  <1>6. TreeTyped'
    <2>1. WalkTyped'
      BY <1>0 DEF TreeHolds, TreeTyped, WalkTyped
    <2>2. deploys' \in 0 .. MaxDeploys
      BY <1>0, TreeAssumption DEF TreeAssumption, TreeHolds, TreeTyped
    <2>3. meddled' \in BOOLEAN
      BY <1>0
    <2>4. QED
      BY <1>0, <1>5, <2>1, <2>2, <2>3 DEF TreeHolds, TreeTyped
  <1>7. ParentsStay
    BY <1>0 DEF ParentsStay, Is
  <1>8. WalkHolds'
    BY <1>0, <1>7, WalkStays DEF TreeHolds, TreeTyped
  <1>9. NamesAreThere' /\ TreeHasNoCycles'
    BY <1>0, <1>2 DEF TreeHolds, NamesAreThere, TreeHasNoCycles, Is
  <1>10. LinesStand' /\ FileStands'
    <2>1. ReplacedNow' = {}
      BY <1>4 DEF ReplacedNow, ReplacedSoFar
    <2>2. QED
      BY <1>2, <1>4, <2>1 DEF LinesStand, FileStands
  <1>11. QED
    BY <1>6, <1>8, <1>9, <1>10 DEF TreeHolds

LEMMA LineUpserted ==
  ASSUME TreeHolds, Upsert
  PROVE  TreeHolds'
  <1> DEFINE data == sync.data
             n == sync.at
             slug == data[n].slug
             parent == data[n].parent
             row == [state |-> "ACTIVE", parent |-> parent]
  <1>0. /\ sync.pc = "upsert" /\ data \in Taxonomies /\ n \in 1 .. Len(data) /\ LoadTaxonomy(data)
        /\ Len(data) \in Nat /\ LinesDone = n - 1 /\ PendingOf = {}
        /\ category' = [category EXCEPT ![slug] = row] /\ Shakes(slug, parent)
        /\ sync' = After([sync EXCEPT !.ids = @ \cup {slug}], data[n].replaces)
        /\ UNCHANGED <<filed, clerk, meddled, deploys>>
    BY EntriesOf DEF Upsert, TreeHolds, TreeTyped, SyncTyped, LinesDone, PendingOf
  <1>1. /\ slug \in Slugs /\ parent \in Slugs \cup {Top} /\ data[n].replaces \in SUBSET Slugs /\ row \in Category
        /\ category \in [Slugs -> Category]
    BY <1>0, EntriesOf DEF TreeHolds, TreeTyped, Category
  <1>2. /\ \A j \in 1 .. (n - 1) : j \in 1 .. Len(data) /\ data[j].slug # slug
        /\ parent = Top \/ \E j \in 1 .. (n - 1) : data[j].slug = parent
    BY <1>0, LinesComeInOrder
  <1>3. /\ \A j \in 1 .. (n - 1) : Is(data[j].slug) /\ category[data[j].slug].parent = data[j].parent
        /\ sync.ids = {data[j].slug : j \in 1 .. (n - 1)}
    BY <1>0 DEF TreeHolds, LinesStand
  <1>4. /\ SyncTyped' /\ sync'.pc \in {"upsert", "products", "rest"} /\ sync'.data = data
        /\ sync'.ids = sync.ids \cup {slug} /\ LinesDone' = n /\ PendingOf' = data[n].replaces
    <2>1. PICK w : w = [sync EXCEPT !.ids = @ \cup {slug}]
      OBVIOUS
    <2>2. /\ w = [pc |-> w.pc, data |-> w.data, at |-> w.at, ids |-> w.ids, todo |-> w.todo, old |-> w.old]
          /\ w.data = data /\ w.at = n /\ w.ids = sync.ids \cup {slug}
      BY <2>1 DEF TreeHolds, TreeTyped, SyncTyped
    <2>3. w.ids \in SUBSET Slugs
      BY <1>1, <2>2 DEF TreeHolds, TreeTyped, SyncTyped
    <2>4. sync' = After(w, data[n].replaces)
      BY <1>0, <2>1
    <2>5. /\ w.data \in Taxonomies /\ w.at \in 1 .. Len(w.data) /\ LoadTaxonomy(w.data)
          /\ data[n].replaces \subseteq w.data[w.at].replaces
      BY <1>0, <2>2
    <2>6. /\ SyncTyped' /\ sync'.pc \in {"upsert", "products", "rest"}
          /\ sync'.data = w.data /\ sync'.ids = w.ids /\ LinesDone' = w.at /\ PendingOf' = data[n].replaces
      BY <1>1, <2>2, <2>3, <2>4, <2>5, AfterALine
    <2>7. QED
      BY <2>2, <2>6
  <1> HIDE DEF row
  <1>5. /\ category' \in [Slugs -> Category] /\ category'[slug] = row /\ row.state = "ACTIVE" /\ row.parent = parent
        /\ \A c \in Slugs : c # slug => category'[c] = category[c]
        /\ \A c \in Slugs : Is(c) => Is(c)'
    BY <1>0, <1>1 DEF row, Is
  <1>6. WalkTyped' /\ WalkHolds'
    <2>1. CASE Is(slug) /\ category[slug].parent # parent
      <3>1. PICK w : w = [walk EXCEPT !.shaken = TRUE]
        OBVIOUS
      <3>2. walk' = w
        BY <1>0, <2>1, <3>1 DEF Shakes
      <3>3. walk' = [pc |-> walk.pc, root |-> walk.root, collected |-> walk.collected,
                     frontier |-> walk.frontier, under |-> walk.under, shaken |-> TRUE]
        BY <3>1, <3>2 DEF TreeHolds, TreeTyped, WalkTyped
      <3>4. WalkTyped'
        BY <3>3 DEF TreeHolds, TreeTyped, WalkTyped
      <3>5. walk'.shaken
        BY <3>3
      <3>6. QED
        BY <3>4, <3>5 DEF WalkHolds
    <2>2. CASE ~(Is(slug) /\ category[slug].parent # parent)
      <3>1. UNCHANGED walk
        BY <1>0, <2>2 DEF Shakes
      <3>2. ParentsStay
        BY <1>1, <1>5, <2>2 DEF ParentsStay
      <3>3. QED
        BY <3>1, <3>2, WalkStays DEF TreeHolds, TreeTyped
    <2>3. QED
      BY <2>1, <2>2
  <1>7. TreeTyped'
    BY <1>0, <1>4, <1>5, <1>6 DEF TreeHolds, TreeTyped
  <1>8. NamesAreThere'
    <2>1. parent # Top => parent \in Slugs /\ Is(parent)
      BY <1>1, <1>2, <1>3
    <2>2. ASSUME NEW c \in Slugs, category'[c].parent # Top
          PROVE  Is(c)' /\ category'[category'[c].parent].state # "NONE"
      <3>1. CASE c = slug
        <4>1. parent # Top /\ category'[c].parent = parent
          BY <1>5, <2>2, <3>1
        <4>2. category'[parent].state # "NONE" /\ category'[c].state # "NONE"
          BY <1>5, <2>1, <3>1, <4>1 DEF Is
        <4>3. QED
          BY <4>1, <4>2 DEF Is
      <3>2. CASE c # slug
        <4>1. Is(c) /\ Is(category[c].parent) /\ category[c].parent \in Slugs /\ category'[c] = category[c]
          BY <1>1, <1>5, <2>2, <3>2 DEF TreeHolds, NamesAreThere, Category
        <4>2. Is(c)' /\ category'[category[c].parent].state # "NONE"
          BY <1>5, <4>1 DEF Is
        <4>3. QED
          BY <4>1, <4>2
      <3>3. QED
        BY <3>1, <3>2
    <2>3. \A g \in Goods : filed[g] \in Slugs /\ Is(filed[g])
      BY DEF TreeHolds, TreeTyped, NamesAreThere
    <2>4. \A k \in Clerks : /\ clerk[k].pc = "create" /\ clerk[k].parent # Top => clerk[k].parent \in Slugs /\ Is(clerk[k].parent)
                            /\ clerk[k].pc = "file" => clerk[k].slug \in Slugs /\ Is(clerk[k].slug)
      BY ClerkRowsApart DEF TreeHolds, TreeTyped, NamesAreThere
    <2>5. QED
      BY <1>0, <1>4, <1>5, <2>2, <2>3, <2>4 DEF NamesAreThere, Is
  <1>9. TreeHasNoCycles'
    <2> DEFINE D == {data[j].slug : j \in 1 .. (n - 1)}
    <2>1. D \in SUBSET Slugs /\ slug \notin D /\ parent \in D \cup {Top}
      <3>1. \A j \in 1 .. (n - 1) : data[j].slug \in Slugs /\ data[j].slug # slug
        BY <1>0, <1>2, EntriesOf, Zenon
      <3>2. QED
        BY <1>2, <3>1, Zenon
    <2>2. ASSUME NEW j \in 1 .. (n - 1)
          PROVE  Is(data[j].slug) /\ category[data[j].slug].parent \in D \cup {Top}
      <3>1. j \in 1 .. Len(data)
        BY <1>2
      <3>2. data[j].parent = Top \/ \E i \in 1 .. (j - 1) : data[i].slug = data[j].parent
        BY <1>0, <3>1, LinesComeInOrder
      <3>3. \A i \in 1 .. (j - 1) : i \in 1 .. (n - 1)
        BY <1>0
      <3>4. QED
        BY <1>3, <3>2, <3>3
    <2>3. \A d \in D : Is(d) /\ category[d].parent \in D \cup {Top}
      BY <2>2
    <2> HIDE DEF D
    <2>4. row.parent \in D \cup {Top} /\ row.state # "NONE" /\ row \in Category
      BY <1>1, <1>5, <2>1
    <2>5. category' = [category EXCEPT ![slug] = row] /\ TreeTyped /\ TreeHasNoCycles
      BY <1>0 DEF TreeHolds
    <2>6. QED
      BY <1>1, <2>1, <2>3, <2>4, <2>5, NoNewCycle
  <1>10. LinesStand'
    <2>1. \A j \in 1 .. n : j \in 1 .. (n - 1) \/ j = n
      BY <1>0
    <2>2. ASSUME NEW j \in 1 .. n
          PROVE  /\ category'[data[j].slug].state # "NONE"
                 /\ category'[data[j].slug].parent = data[j].parent
      <3>1. CASE j = n
        BY <1>5, <3>1
      <3>2. CASE j \in 1 .. (n - 1)
        <4>1. data[j].slug \in Slugs /\ data[j].slug # slug
          BY <1>0, <1>2, <3>2, EntriesOf
        <4>2. category'[data[j].slug] = category[data[j].slug]
          BY <1>5, <4>1
        <4>3. QED
          BY <1>3, <3>2, <4>2 DEF Is
      <3>3. QED
        BY <2>1, <3>1, <3>2
    <2>3. sync'.ids = {data[j].slug : j \in 1 .. n}
      <3>1. n \in 1 .. n /\ \A j \in 1 .. (n - 1) : j \in 1 .. n
        BY <1>0
      <3>2. {data[j].slug : j \in 1 .. n} = {data[j].slug : j \in 1 .. (n - 1)} \cup {data[n].slug}
        BY <2>1, <3>1, Zenon
      <3>3. QED
        BY <1>0, <1>3, <1>4, <3>2, Zenon
    <2>4. QED
      BY <1>4, <2>2, <2>3 DEF LinesStand, Is
  <1>11. FileStands'
    <2> SUFFICES ASSUME ~meddled PROVE FileStands'
      BY <1>0 DEF FileStands
    <2>1. ReplacedNow' = ReplacedNow \ {slug}
      <3>1. ReplacedNow' = ReplacedSoFar(data, n, data[n].replaces)
        BY <1>4 DEF ReplacedNow
      <3>2. ReplacedNow = ReplacedSoFar(data, n - 1, {})
        BY <1>0 DEF ReplacedNow
      <3>3. QED
        BY <1>0, <3>1, <3>2, OfferedAgain
    <2>2. /\ ReplacedNow \subseteq Slugs
          /\ \A c \in ReplacedNow : category[c].state # "ACTIVE"
          /\ \A g \in Goods : filed[g] \notin ReplacedNow
          /\ \A j \in 1 .. (n - 1) : data[j].slug \notin ReplacedNow => category[data[j].slug].state = "ACTIVE"
      BY <1>0 DEF TreeHolds, FileStands, ReplacedNow, ReplacedSoFar
    <2>3. \A c \in ReplacedNow' : category'[c].state # "ACTIVE"
      BY <1>5, <2>1, <2>2
    <2>4. ASSUME NEW j \in 1 .. n, data[j].slug \notin ReplacedNow'
          PROVE  category'[data[j].slug].state = "ACTIVE"
      <3>1. CASE data[j].slug = slug
        BY <1>5, <3>1
      <3>2. CASE data[j].slug # slug
        <4>1. j \in 1 .. (n - 1)
          BY <1>0, <3>2
        <4>2. data[j].slug \in Slugs
          BY <1>0, <1>2, <4>1, EntriesOf
        <4>3. QED
          BY <1>5, <2>1, <2>2, <2>4, <3>2, <4>1, <4>2
      <3>3. QED
        BY <3>1, <3>2
    <2>5. QED
      BY <1>0, <1>4, <2>1, <2>2, <2>3, <2>4 DEF FileStands
  <1>12. QED
    BY <1>6, <1>7, <1>8, <1>9, <1>10, <1>11 DEF TreeHolds

LEMMA ProductsHandedOver ==
  ASSUME TreeHolds, NEW gone \in Slugs, HandOver(gone)
  PROVE  TreeHolds'
  <1> DEFINE data == sync.data
             n == sync.at
             slug == data[n].slug
             todo == sync.todo
  <1>0. /\ sync.pc = "products" /\ data \in Taxonomies /\ n \in 1 .. Len(data) /\ LoadTaxonomy(data)
        /\ Len(data) \in Nat /\ LinesDone = n /\ PendingOf = todo /\ gone \in todo /\ todo \in SUBSET Slugs
        /\ sync.ids \in SUBSET Slugs /\ slug \in Slugs
        /\ UNCHANGED <<category, clerk, walk, meddled, deploys>>
    BY EntriesOf DEF HandOver, TreeHolds, TreeTyped, SyncTyped, LinesDone, PendingOf
  <1>1. ParentsStay /\ WalkTyped' /\ WalkHolds' /\ TreeHasNoCycles'
    <2>1. ParentsStay
      BY <1>0 DEF ParentsStay, Is
    <2>2. QED
      BY <1>0, <2>1, WalkStays DEF TreeHolds, TreeTyped, TreeHasNoCycles, Is
  <1>2. /\ Is(slug) /\ slug \notin ReplacedNow
        /\ \A j \in 1 .. n : Is(data[j].slug) /\ category[data[j].slug].parent = data[j].parent
        /\ sync.ids = {data[j].slug : j \in 1 .. n}
    <2>1. slug \notin ReplacedSoFar(data, n, todo)
      BY <1>0, OneMoreReplaced
    <2>2. ReplacedNow = ReplacedSoFar(data, n, todo)
      BY <1>0 DEF ReplacedNow
    <2>3. n \in 1 .. n
      BY <1>0
    <2>4. QED
      BY <1>0, <2>1, <2>2, <2>3 DEF TreeHolds, LinesStand
  <1>3. ~meddled =>
          /\ \A c \in ReplacedNow : category[c].state # "ACTIVE"
          /\ \A g \in Goods : filed[g] \notin ReplacedNow
          /\ \A j \in 1 .. n : data[j].slug \notin ReplacedNow => category[data[j].slug].state = "ACTIVE"
    BY <1>0 DEF TreeHolds, FileStands
  <1>4. CASE Is(gone) /\ gone # slug
    <2>1. PICK w : w = [sync EXCEPT !.pc = "retire", !.old = gone]
      OBVIOUS
    <2>2. sync' = w /\ filed' = [g \in Goods |-> IF filed[g] = gone THEN slug ELSE filed[g]]
      BY <1>4, <2>1 DEF HandOver
    <2>3. sync' = [pc |-> "retire", data |-> data, at |-> n, ids |-> sync.ids, todo |-> todo, old |-> gone]
      BY <2>1, <2>2 DEF TreeHolds, TreeTyped, SyncTyped
    <2>4. /\ sync'.pc = "retire" /\ sync'.data = data /\ sync'.at = n /\ sync'.ids = sync.ids
          /\ sync'.todo = todo /\ sync'.old = gone
      BY <2>3
    <2>5. SyncTyped' /\ LinesDone' = n /\ PendingOf' = todo
      <3>1. todo \subseteq data[n].replaces /\ n \in Nat
        BY <1>0 DEF TreeHolds, TreeTyped, SyncTyped
      <3>2. SyncTyped'
        BY <1>0, <1>4, <2>3, <2>4, <3>1 DEF SyncTyped
      <3>3. QED
        BY <2>4, <3>2 DEF LinesDone, PendingOf
    <2>6. ReplacedNow' = ReplacedNow
      BY <1>0, <2>4, <2>5 DEF ReplacedNow
    <2>7. filed' \in [Goods -> Slugs] /\ \A g \in Goods : filed'[g] = slug \/ (filed'[g] = filed[g] /\ filed[g] # gone)
      BY <1>0, <2>2 DEF TreeHolds, TreeTyped
    <2>8. TreeTyped'
      BY <1>0, <1>1, <2>5, <2>7 DEF TreeHolds, TreeTyped
    <2>9. NamesAreThere'
      BY <1>0, <1>2, <1>4, <2>4, <2>7 DEF TreeHolds, NamesAreThere, Is
    <2>10. LinesStand'
      BY <1>0, <1>2, <2>4, <2>5 DEF LinesStand, Is
    <2>11. FileStands'
      BY <1>0, <1>2, <1>3, <1>4, <2>4, <2>5, <2>6, <2>7 DEF FileStands
    <2>12. QED
      BY <1>1, <2>8, <2>9, <2>10, <2>11 DEF TreeHolds
  <1>5. CASE ~(Is(gone) /\ gone # slug)
    <2>1. sync' = After(sync, todo \ {gone}) /\ UNCHANGED filed
      BY <1>5 DEF HandOver
    <2>2. /\ SyncTyped' /\ sync'.pc \in {"upsert", "products", "rest"} /\ sync'.data = data
          /\ sync'.ids = sync.ids /\ LinesDone' = n /\ PendingOf' = todo \ {gone}
      <3>1. sync = [pc |-> sync.pc, data |-> sync.data, at |-> sync.at, ids |-> sync.ids, todo |-> sync.todo, old |-> sync.old]
        BY DEF TreeHolds, TreeTyped, SyncTyped
      <3>2. todo \ {gone} \in SUBSET Slugs /\ todo \ {gone} \subseteq data[n].replaces
        BY <1>0 DEF TreeHolds, TreeTyped, SyncTyped
      <3>3. QED
        BY <1>0, <2>1, <3>1, <3>2, AfterALine
    <2>3. /\ ReplacedNow' \subseteq ReplacedNow \cup ({gone} \ {slug}) /\ ReplacedNow \subseteq ReplacedNow'
      BY <1>0, <2>2, OneMoreReplaced DEF ReplacedNow
    <2>4. TreeTyped'
      BY <1>0, <1>1, <2>1, <2>2 DEF TreeHolds, TreeTyped
    <2>5. NamesAreThere'
      BY <1>0, <2>1, <2>2 DEF TreeHolds, NamesAreThere, Is
    <2>6. LinesStand'
      BY <1>0, <1>2, <2>2 DEF LinesStand, Is
    <2>7. FileStands'
      <3> SUFFICES ASSUME ~meddled PROVE FileStands'
        BY <1>0 DEF FileStands
      <3>1. \A c \in ReplacedNow' : c \in ReplacedNow \/ ~Is(c)
        BY <1>5, <2>3
      <3>2. \A c \in ReplacedNow' : category[c].state # "ACTIVE"
        BY <1>3, <3>1 DEF Is
      <3>3. \A g \in Goods : filed[g] \notin ReplacedNow'
        BY <1>3, <3>1 DEF TreeHolds, NamesAreThere
      <3>4. QED
        BY <1>0, <1>3, <2>1, <2>2, <2>3, <3>2, <3>3 DEF FileStands
    <2>8. QED
      BY <1>1, <2>4, <2>5, <2>6, <2>7 DEF TreeHolds
  <1>6. QED
    BY <1>4, <1>5

LEMMA CategoryRetired ==
  ASSUME TreeHolds, Retire
  PROVE  TreeHolds'
  <1> DEFINE data == sync.data
             n == sync.at
             todo == sync.todo
             gone == sync.old
  <1>0. /\ sync.pc = "retire" /\ data \in Taxonomies /\ n \in 1 .. Len(data) /\ LoadTaxonomy(data)
        /\ LinesDone = n /\ PendingOf = todo /\ gone \in todo /\ gone # data[n].slug /\ todo \in SUBSET Slugs
        /\ sync.ids \in SUBSET Slugs /\ category \in [Slugs -> Category] /\ Is(gone) /\ n \in Nat
        /\ category' = [category EXCEPT ![gone].state = "RETIRED"]
        /\ sync' = After(sync, todo \ {gone})
        /\ UNCHANGED <<filed, clerk, walk, meddled, deploys>>
    BY DEF Retire, TreeHolds, TreeTyped, SyncTyped, LinesDone, PendingOf, NamesAreThere
  <1>1. /\ category' \in [Slugs -> Category] /\ category'[gone].state = "RETIRED"
        /\ category'[gone].parent = category[gone].parent
        /\ \A c \in Slugs : c # gone => category'[c] = category[c]
    BY <1>0 DEF Category
  <1>2. \A c \in Slugs : category'[c].parent = category[c].parent /\ (Is(c)' <=> Is(c))
    BY <1>0, <1>1 DEF Is
  <1>3. /\ SyncTyped' /\ sync'.pc \in {"upsert", "products", "rest"} /\ sync'.data = data
        /\ sync'.ids = sync.ids /\ LinesDone' = n /\ PendingOf' = todo \ {gone}
    <2>1. sync = [pc |-> sync.pc, data |-> sync.data, at |-> sync.at, ids |-> sync.ids, todo |-> sync.todo, old |-> sync.old]
      BY DEF TreeHolds, TreeTyped, SyncTyped
    <2>2. todo \ {gone} \in SUBSET Slugs /\ todo \ {gone} \subseteq data[n].replaces
      BY <1>0 DEF TreeHolds, TreeTyped, SyncTyped
    <2>3. QED
      BY <1>0, <2>1, <2>2, AfterALine
  <1>4. /\ TreeHasNoCycles' /\ WalkTyped' /\ WalkHolds'
        /\ \A c \in Slugs : category'[c].parent # Top => Is(c)' /\ category'[category'[c].parent].state # "NONE"
    BY <1>0, <1>1, <1>2, ShapeStays
  <1>5. TreeTyped'
    BY <1>0, <1>1, <1>3, <1>4 DEF TreeHolds, TreeTyped
  <1>6. NamesAreThere'
    BY <1>0, <1>2, <1>3, <1>4, RequestsStay DEF TreeHolds
  <1>7. \A j \in 1 .. n : /\ data[j].slug \in Slugs /\ category[data[j].slug].state # "NONE"
                           /\ category[data[j].slug].parent = data[j].parent
    BY <1>0, EntriesOf DEF TreeHolds, LinesStand, Is
  <1>8. LinesStand'
    <2>1. \A j \in 1 .. n : /\ category'[data[j].slug].state # "NONE"
                             /\ category'[data[j].slug].parent = data[j].parent
      BY <1>2, <1>7 DEF Is
    <2>2. sync.ids = {data[j].slug : j \in 1 .. n}
      BY <1>0 DEF TreeHolds, LinesStand
    <2>3. QED
      BY <1>3, <2>1, <2>2 DEF LinesStand, Is
  <1>9. FileStands'
    <2> SUFFICES ASSUME ~meddled PROVE FileStands'
      BY <1>0 DEF FileStands
    <2>1. /\ ReplacedNow' \subseteq ReplacedNow \cup {gone} /\ ReplacedNow \subseteq ReplacedNow'
          /\ ReplacedNow \subseteq Slugs
      <3>1. ReplacedNow' = ReplacedSoFar(data, n, todo \ {gone}) /\ ReplacedNow = ReplacedSoFar(data, n, todo)
        BY <1>0, <1>3 DEF ReplacedNow
      <3>2. ReplacedSoFar(data, n, todo) \subseteq Slugs
        BY DEF ReplacedSoFar
      <3>3. QED
        BY <1>0, <3>1, <3>2, OneMoreReplaced
    <2>2. /\ \A c \in ReplacedNow : category[c].state # "ACTIVE"
          /\ \A g \in Goods : filed[g] \notin ReplacedNow /\ filed[g] # gone
          /\ \A j \in 1 .. n : data[j].slug \notin ReplacedNow => category[data[j].slug].state = "ACTIVE"
      BY <1>0 DEF TreeHolds, FileStands
    <2>3. \A c \in ReplacedNow' : category'[c].state # "ACTIVE"
      BY <1>1, <2>1, <2>2
    <2>4. ASSUME NEW j \in 1 .. n, data[j].slug \notin ReplacedNow'
          PROVE  category'[data[j].slug].state = "ACTIVE"
      <3>1. CASE data[j].slug = gone
        <4>1. gone \in ReplacedNow'
          <5>1. gone \in data[n].replaces
            BY <1>0 DEF TreeHolds, TreeTyped, SyncTyped
          <5>2. n \in 1 .. n /\ \A i \in (n + 1) .. n : FALSE
            BY <1>0
          <5>3. gone \in ReplacedSoFar(data, n, todo \ {gone})
            BY <1>0, <5>1, <5>2 DEF ReplacedSoFar
          <5>4. QED
            BY <1>3, <5>3 DEF ReplacedNow
        <4>2. QED
          BY <2>4, <3>1, <4>1
      <3>2. CASE data[j].slug # gone
        BY <1>1, <1>7, <2>1, <2>2, <2>4, <3>2
      <3>3. QED
        BY <3>1, <3>2
    <2>5. QED
      BY <1>0, <1>3, <2>1, <2>2, <2>3, <2>4 DEF FileStands
  <1>10. QED
    BY <1>4, <1>5, <1>6, <1>8, <1>9 DEF TreeHolds

LEMMA OthersRetired ==
  ASSUME TreeHolds, RetireTheRest
  PROVE  TreeHolds'
  <1> DEFINE data == sync.data
             n == Len(sync.data)
  <1>0. /\ sync.pc = "rest" /\ data \in Taxonomies /\ LoadTaxonomy(data) /\ n \in Nat
        /\ LinesDone = n /\ PendingOf = {} /\ category \in [Slugs -> Category]
        /\ category' = [c \in Slugs |-> IF c \notin sync.ids /\ Is(c)
                                        THEN [category[c] EXCEPT !.state = "RETIRED"] ELSE category[c]]
        /\ UNCHANGED <<filed, clerk, walk, meddled, deploys>>
    BY EntriesOf DEF RetireTheRest, TreeHolds, TreeTyped, SyncTyped, LinesDone, PendingOf
  <1>1. ASSUME NEW c \in Slugs
        PROVE  /\ category'[c] \in Category /\ category'[c].parent = category[c].parent
               /\ Is(c)' <=> Is(c)
               /\ c \in sync.ids => category'[c] = category[c]
               /\ c \notin sync.ids => category'[c].state # "ACTIVE"
               /\ category[c].state # "ACTIVE" => category'[c].state # "ACTIVE"
    <2>1. category[c] \in Category
      BY <1>0
    <2>2. category'[c] = IF c \notin sync.ids /\ Is(c) THEN [category[c] EXCEPT !.state = "RETIRED"] ELSE category[c]
      BY <1>0
    <2>3. QED
      BY <2>1, <2>2 DEF Is, Category
  <1>2. category' \in [Slugs -> Category]
    BY <1>0, <1>1
  <1>3. /\ TreeHasNoCycles' /\ WalkTyped' /\ WalkHolds'
        /\ \A c \in Slugs : category'[c].parent # Top => Is(c)' /\ category'[category'[c].parent].state # "NONE"
    BY <1>0, <1>1, <1>2, ShapeStays
  <1>4. /\ SyncTyped' /\ sync'.pc = "done" /\ sync'.data = data /\ sync'.ids = sync.ids
        /\ LinesDone' = n /\ PendingOf' = {}
    <2>1. PICK w : w = [sync EXCEPT !.pc = "done"]
      OBVIOUS
    <2>2. sync' = w
      BY <2>1 DEF RetireTheRest
    <2>3. sync' = [pc |-> "done", data |-> sync.data, at |-> sync.at, ids |-> sync.ids, todo |-> sync.todo, old |-> sync.old]
      BY <2>1, <2>2 DEF TreeHolds, TreeTyped, SyncTyped
    <2>4. /\ sync'.pc = "done" /\ sync'.data = sync.data /\ sync'.at = sync.at /\ sync'.ids = sync.ids
          /\ sync'.todo = sync.todo /\ sync'.old = sync.old
      BY <2>3
    <2>5. SyncTyped'
      BY <1>0, <2>3, <2>4 DEF TreeHolds, TreeTyped, SyncTyped
    <2>6. QED
      BY <2>4, <2>5 DEF LinesDone, PendingOf
  <1>5. TreeTyped'
    BY <1>0, <1>2, <1>3, <1>4 DEF TreeHolds, TreeTyped
  <1>6. NamesAreThere'
    BY <1>0, <1>1, <1>3, <1>4, RequestsStay DEF TreeHolds
  <1>7. /\ \A j \in 1 .. n : /\ data[j].slug \in Slugs /\ category[data[j].slug].state # "NONE"
                              /\ category[data[j].slug].parent = data[j].parent
                              /\ category'[data[j].slug] = category[data[j].slug]
        /\ sync.ids = {data[j].slug : j \in 1 .. n}
    <2>1. sync.ids = {data[j].slug : j \in 1 .. n}
      BY <1>0 DEF TreeHolds, LinesStand
    <2>2. \A j \in 1 .. n : data[j].slug \in Slugs /\ data[j].slug \in sync.ids
      BY <1>0, <2>1, EntriesOf
    <2>3. QED
      BY <1>0, <1>1, <2>1, <2>2 DEF TreeHolds, LinesStand, Is
  <1>8. LinesStand'
    BY <1>4, <1>7 DEF LinesStand, Is
  <1>9. ReplacedNow' = ReplacedNow /\ ReplacedNow \subseteq Slugs
    BY <1>0, <1>4 DEF ReplacedNow, ReplacedSoFar
  <1>10. FileStands'
    <2> SUFFICES ASSUME ~meddled PROVE FileStands'
      BY <1>0 DEF FileStands
    <2>1. /\ \A c \in ReplacedNow : category[c].state # "ACTIVE"
          /\ \A g \in Goods : filed[g] \notin ReplacedNow
          /\ \A j \in 1 .. n : data[j].slug \notin ReplacedNow => category[data[j].slug].state = "ACTIVE"
      BY <1>0 DEF TreeHolds, FileStands
    <2>2. \A c \in ReplacedNow : category'[c].state # "ACTIVE"
      BY <1>1, <1>9, <2>1
    <2>3. \A j \in 1 .. n : data[j].slug \notin ReplacedNow => category'[data[j].slug].state = "ACTIVE"
      BY <1>7, <2>1
    <2>4. \A c \in Slugs \ sync.ids : category'[c].state # "ACTIVE"
      BY <1>1
    <2>5. QED
      BY <1>0, <1>4, <1>9, <2>1, <2>2, <2>3, <2>4 DEF FileStands
  <1>11. QED
    BY <1>3, <1>5, <1>6, <1>8, <1>10 DEF TreeHolds

-----------------------------------------------------------------------------
(***************************************************************************)
(* Requests, and the walk.                                                 *)
(***************************************************************************)
LEMMA ClerkSteps ==
  ASSUME TreeHolds, NEW k \in Clerks, NEW e \in ClerkRequest, clerk' = [clerk EXCEPT ![k] = e],
         e.pc = "create" /\ e.parent # Top => Is(e.parent),
         e.pc = "file" => Is(e.slug),
         UNCHANGED <<category, filed, sync, walk, meddled, deploys>>
  PROVE  TreeHolds'
  <1>1. ParentsStay
    BY DEF ParentsStay, Is
  <1>2. WalkTyped' /\ WalkHolds'
    BY <1>1, WalkStays DEF TreeHolds, TreeTyped
  <1>3. SyncTyped' /\ LinesStand' /\ FileStands' /\ TreeHasNoCycles'
    BY DEF TreeHolds, TreeTyped, SyncTyped, LinesStand, FileStands, LinesDone, ReplacedNow, PendingOf,
           TreeHasNoCycles, Is
  <1>4. TreeTyped'
    BY <1>2, <1>3 DEF TreeHolds, TreeTyped
  <1>5. NamesAreThere'
    <2>1. \A j \in Clerks : clerk'[j] = e \/ clerk'[j] = clerk[j]
      BY DEF TreeHolds, TreeTyped
    <2>2. QED
      BY <2>1 DEF TreeHolds, NamesAreThere, Is
  <1>6. QED
    BY <1>2, <1>3, <1>4, <1>5 DEF TreeHolds

LEMMA CategoryAsked ==
  ASSUME TreeHolds, NEW k \in Clerks,
         \/ FindParent(k)
         \/ \E slug \in Slugs, parent \in Slugs \cup {Top} : CreateCategory(k, slug, parent)
         \/ \E g \in Goods, c \in Slugs : FindCategory(k, g, c)
  PROVE  TreeHolds'
  <1>0. clerk[k] \in ClerkRequest /\ Idling \in ClerkRequest /\ Idling.pc = "new"
    BY DEF TreeHolds, TreeTyped, ClerkRequest, Idling
  <1>1. ASSUME NEW slug \in Slugs, NEW parent \in Slugs \cup {Top}, CreateCategory(k, slug, parent)
        PROVE  TreeHolds'
    <2> DEFINE e == [pc |-> IF parent = Top THEN "create" ELSE "parent", slug |-> slug, parent |-> parent]
    <2>1. e \in ClerkRequest /\ (e.pc = "create" => e.parent = Top) /\ e.pc # "file"
      BY DEF ClerkRequest
    <2>2. clerk' = [clerk EXCEPT ![k] = e] /\ UNCHANGED <<category, filed, sync, walk, meddled, deploys>>
      BY <1>1 DEF CreateCategory, Steps
    <2> HIDE DEF e
    <2>3. QED
      BY <2>1, <2>2, ClerkSteps
  <1>2. ASSUME NEW g \in Goods, NEW c \in Slugs, FindCategory(k, g, c)
        PROVE  TreeHolds'
    <2> DEFINE e == [pc |-> "file", good |-> g, slug |-> c]
    <2>1. e \in ClerkRequest /\ e.pc = "file" /\ e.slug = c
      BY DEF ClerkRequest
    <2>2. /\ clerk' = [clerk EXCEPT ![k] = e] /\ Is(c)
          /\ UNCHANGED <<category, filed, sync, walk, meddled, deploys>>
      BY <1>2 DEF FindCategory, Steps
    <2> HIDE DEF e
    <2>3. QED
      BY <2>1, <2>2, ClerkSteps
  <1>3. CASE FindParent(k)
    <2>1. clerk[k].pc = "parent" /\ UNCHANGED <<category, filed, sync, walk, meddled, deploys>>
      BY <1>3 DEF FindParent
    <2>2. CASE Is(clerk[k].parent)
      <3>1. PICK e : e = [clerk[k] EXCEPT !.pc = "create"]
        OBVIOUS
      <3>2. clerk' = [clerk EXCEPT ![k] = e]
        BY <1>3, <2>2, <3>1 DEF FindParent, Steps
      <3>3. clerk[k] = [pc |-> "parent", slug |-> clerk[k].slug, parent |-> clerk[k].parent]
            /\ clerk[k].slug \in Slugs /\ clerk[k].parent \in Slugs \cup {Top}
        BY <1>0, <2>1, ClerkRowsApart
      <3>4. e = [pc |-> "create", slug |-> clerk[k].slug, parent |-> clerk[k].parent]
        BY <3>1, <3>3
      <3>5. e \in ClerkRequest /\ e.pc = "create" /\ e.parent = clerk[k].parent
        BY <3>3, <3>4 DEF ClerkRequest
      <3>6. QED
        BY <2>1, <2>2, <3>2, <3>5, ClerkSteps
    <2>3. CASE ~Is(clerk[k].parent)
      <3>1. clerk' = [clerk EXCEPT ![k] = Idling]
        BY <1>3, <2>3 DEF FindParent, Steps
      <3>2. QED
        BY <1>0, <2>1, <3>1, ClerkSteps
    <2>4. QED
      BY <2>2, <2>3
  <1>4. QED
    BY <1>1, <1>2, <1>3

LEMMA CategoryInserted ==
  ASSUME TreeHolds, NEW k \in Clerks, InsertCategory(k)
  PROVE  TreeHolds'
  <1>0. /\ Idling \in ClerkRequest /\ Idling.pc = "new" /\ clerk[k].pc = "create"
        /\ clerk' = [clerk EXCEPT ![k] = Idling] /\ UNCHANGED <<filed, sync, walk, deploys>>
        /\ clerk[k].slug \in Slugs /\ clerk[k].parent \in Slugs \cup {Top}
        /\ clerk[k].parent # Top => Is(clerk[k].parent)
    BY ClerkRowsApart DEF TreeHolds, TreeTyped, NamesAreThere, ClerkRequest, Idling, InsertCategory, Steps
  <1>1. CASE Is(clerk[k].slug)
    BY <1>0, <1>1, ClerkSteps DEF InsertCategory
  <1>2. CASE ~Is(clerk[k].slug)
    <2> DEFINE slug == clerk[k].slug
               parent == clerk[k].parent
    <2>0. PICK e : e = [state |-> "ACTIVE", parent |-> parent]
      OBVIOUS
    <2>1. /\ category' = [category EXCEPT ![slug] = e] /\ meddled' = TRUE
          /\ e \in Category /\ e.state # "NONE" /\ e.parent = parent
      BY <1>0, <1>2, <2>0 DEF InsertCategory, Category
    <2>2. /\ category \in [Slugs -> Category] /\ category' \in [Slugs -> Category] /\ category'[slug] = e
          /\ \A c \in Slugs : c # slug => category'[c] = category[c]
          /\ \A c \in Slugs : Is(c) => c # slug /\ Is(c)'
      BY <1>0, <1>2, <2>1 DEF TreeHolds, TreeTyped, Is
    <2>3. ParentsStay
      BY <2>2 DEF ParentsStay
    <2>4. WalkTyped' /\ WalkHolds'
      BY <1>0, <2>3, WalkStays DEF TreeHolds, TreeTyped
    <2>5. TreeHasNoCycles'
      <3> DEFINE D == {c \in Slugs : Is(c)}
      <3>1. D \in SUBSET Slugs /\ slug \notin D /\ e.parent \in D \cup {Top}
        BY <1>0, <1>2, <2>1
      <3>2. \A d \in D : Is(d) /\ category[d].parent \in D \cup {Top}
        BY <2>2 DEF TreeHolds, NamesAreThere, Category
      <3> HIDE DEF D
      <3>3. TreeTyped /\ TreeHasNoCycles /\ slug \in Slugs
        BY <1>0 DEF TreeHolds
      <3>4. QED
        BY <2>1, <3>1, <3>2, <3>3, NoNewCycle
    <2>6. SyncTyped'
      BY <1>0 DEF TreeHolds, TreeTyped, SyncTyped
    <2>7. TreeTyped'
      <3>1. meddled' \in BOOLEAN /\ clerk' \in [Clerks -> ClerkRequest]
        BY <1>0, <2>1 DEF TreeHolds, TreeTyped
      <3>2. QED
        BY <1>0, <2>2, <2>4, <2>6, <3>1 DEF TreeHolds, TreeTyped
    <2>8. NamesAreThere'
      <3>1. ASSUME NEW c \in Slugs, category'[c].parent # Top
            PROVE  category'[c].state # "NONE" /\ category'[category'[c].parent].state # "NONE"
        <4>1. PICK up : up = category'[c].parent
          OBVIOUS
        <4>2. up \in Slugs /\ Is(up)
          BY <1>0, <2>1, <2>2, <3>1, <4>1 DEF TreeHolds, NamesAreThere, Category
        <4>3. category'[up].state # "NONE"
          BY <2>2, <4>2 DEF Is
        <4>4. category'[c].state # "NONE"
          BY <2>1, <2>2, <3>1 DEF TreeHolds, NamesAreThere, Is
        <4>5. QED
          BY <4>1, <4>3, <4>4
      <3>2. \A g \in Goods : filed[g] \in Slugs /\ Is(filed[g])
        BY DEF TreeHolds, TreeTyped, NamesAreThere
      <3>3. \A j \in Clerks : /\ clerk[j].pc = "create" /\ clerk[j].parent # Top => clerk[j].parent \in Slugs /\ Is(clerk[j].parent)
                              /\ clerk[j].pc = "file" => clerk[j].slug \in Slugs /\ Is(clerk[j].slug)
        BY ClerkRowsApart DEF TreeHolds, TreeTyped, NamesAreThere
      <3>4. \A j \in Clerks : clerk'[j].pc = "new" \/ clerk'[j] = clerk[j]
        BY <1>0 DEF TreeHolds, TreeTyped
      <3>5. sync.pc = "retire" => sync.old \in Slugs /\ Is(sync.old)
        BY DEF TreeHolds, TreeTyped, SyncTyped, NamesAreThere
      <3>6. QED
        BY <1>0, <2>2, <3>1, <3>2, <3>3, <3>4, <3>5 DEF NamesAreThere, Is
    <2>9. LinesStand'
      <3>1. LinesDone' = LinesDone
        BY <1>0 DEF LinesDone
      <3>2. \A i \in 1 .. LinesDone : sync.data[i].slug \in Slugs
        <4>1. LinesDone \in 0 .. Len(sync.data) /\ Len(sync.data) \in Nat
          BY EntriesOf DEF TreeHolds, TreeTyped, SyncTyped, LinesDone
        <4>2. \A i \in 1 .. LinesDone : i \in 1 .. Len(sync.data)
          BY <4>1
        <4>3. QED
          BY <4>2, EntriesOf DEF TreeHolds, TreeTyped, SyncTyped
      <3>3. QED
        BY <1>0, <2>2, <3>1, <3>2 DEF TreeHolds, LinesStand, Is
    <2>10. FileStands'
      BY <2>1 DEF FileStands
    <2>11. QED
      BY <2>4, <2>5, <2>7, <2>8, <2>9, <2>10 DEF TreeHolds
  <1>3. QED
    BY <1>1, <1>2

LEMMA ProductFiled ==
  ASSUME TreeHolds, NEW k \in Clerks, FileProduct(k)
  PROVE  TreeHolds'
  <1>0. /\ Idling \in ClerkRequest /\ Idling.pc = "new" /\ clerk[k].pc = "file"
        /\ clerk' = [clerk EXCEPT ![k] = Idling] /\ UNCHANGED <<category, sync, walk, deploys>>
        /\ clerk[k].slug \in Slugs /\ clerk[k].good \in Goods /\ Is(clerk[k].slug)
        /\ filed' = [filed EXCEPT ![clerk[k].good] = clerk[k].slug] /\ meddled' = TRUE
    BY ClerkRowsApart DEF TreeHolds, TreeTyped, NamesAreThere, ClerkRequest, Idling, FileProduct, Steps
  <1>1. ParentsStay
    BY <1>0 DEF ParentsStay, Is
  <1>2. WalkTyped' /\ WalkHolds'
    BY <1>0, <1>1, WalkStays DEF TreeHolds, TreeTyped
  <1>3. SyncTyped' /\ LinesStand' /\ TreeHasNoCycles'
    BY <1>0 DEF TreeHolds, TreeTyped, SyncTyped, LinesStand, LinesDone, TreeHasNoCycles, Is
  <1>4. FileStands'
    BY <1>0 DEF FileStands
  <1>5. TreeTyped'
    <2>1. meddled' \in BOOLEAN /\ clerk' \in [Clerks -> ClerkRequest] /\ filed' \in [Goods -> Slugs]
      BY <1>0 DEF TreeHolds, TreeTyped
    <2>2. QED
      BY <1>0, <1>2, <1>3, <2>1 DEF TreeHolds, TreeTyped
  <1>6. NamesAreThere'
    <2>1. \A j \in Clerks : clerk'[j].pc = "new" \/ clerk'[j] = clerk[j]
      BY <1>0 DEF TreeHolds, TreeTyped
    <2>2. \A g \in Goods : filed'[g] = clerk[k].slug \/ filed'[g] = filed[g]
      BY <1>0 DEF TreeHolds, TreeTyped
    <2>3. QED
      BY <1>0, <2>1, <2>2 DEF TreeHolds, NamesAreThere, Is
  <1>7. QED
    BY <1>2, <1>3, <1>4, <1>5, <1>6 DEF TreeHolds

LEMMA WalkLeavesTheTree ==
  ASSUME TreeHolds, WalkTyped', WalkHolds', UNCHANGED <<category, filed, sync, clerk, meddled, deploys>>
  PROVE  TreeHolds'
  <1>1. SyncTyped' /\ LinesStand' /\ FileStands'
    <2>1. SyncTyped'
      BY DEF TreeHolds, TreeTyped, SyncTyped
    <2>2. LinesStand'
      BY DEF TreeHolds, LinesStand, LinesDone, Is
    <2>3. FileStands'
      BY DEF TreeHolds, FileStands, ReplacedNow, PendingOf, LinesDone
    <2>4. QED
      BY <2>1, <2>2, <2>3
  <1>2. TreeHasNoCycles' /\ NamesAreThere'
    BY DEF TreeHolds, TreeHasNoCycles, NamesAreThere, Is
  <1>3. TreeTyped'
    BY <1>1 DEF TreeHolds, TreeTyped
  <1>4. QED
    BY <1>1, <1>2, <1>3 DEF TreeHolds

LEMMA TreeKeeps ==
  ASSUME TreeHolds, [TreeNext]_treeVars
  PROVE  TreeHolds'
  <1>1. ASSUME NEW c \in Slugs, SearchProducts(c) PROVE TreeHolds'
    BY <1>1, WalkBegins, WalkLeavesTheTree DEF TreeHolds, SearchProducts
  <1>2. CASE FindLevel
    BY <1>2, WalkGoesOn, WalkLeavesTheTree DEF TreeHolds, FindLevel
  <1>3. CASE UNCHANGED treeVars
    <2>1. UNCHANGED <<category, filed, sync, clerk, meddled, deploys>> /\ UNCHANGED walk
      BY <1>3 DEF treeVars
    <2>2. ParentsStay
      BY <2>1 DEF ParentsStay, Is
    <2>3. QED
      BY <2>1, <2>2, WalkStays, WalkLeavesTheTree DEF TreeHolds, TreeTyped
  <1>4. QED
    BY <1>1, <1>2, <1>3, FileDeployed, LineUpserted, ProductsHandedOver, CategoryRetired, OthersRetired,
       CategoryAsked, CategoryInserted, ProductFiled DEF TreeNext, Syncs, Writes

LEMMA TreeIsRight == TreeHolds => TreeTypeOK /\ TreeHasNoCycles /\ FileIsApplied /\ SubtreeIsWhole
  <1> SUFFICES ASSUME TreeHolds PROVE TreeTypeOK /\ TreeHasNoCycles /\ FileIsApplied /\ SubtreeIsWhole
    OBVIOUS
  <1>1. TreeTypeOK
    BY ClerkRowsApart DEF TreeHolds, TreeTyped, SyncTyped, WalkTyped, TreeTypeOK
  <1>2. FileIsApplied
    <2> SUFFICES ASSUME sync.pc = "done", ~meddled
                 PROVE  /\ \A i \in 1 .. Len(sync.data) :
                             category[sync.data[i].slug].parent = sync.data[i].parent
                        /\ {c \in Slugs : category[c].state = "ACTIVE"} = SlugsFrom(sync.data, 1) \ Replaced(sync.data)
                        /\ \A g \in Goods : filed[g] \notin Replaced(sync.data)
      BY DEF FileIsApplied
    <2> DEFINE data == sync.data
               n == Len(sync.data)
    <2>0. LinesDone = n /\ PendingOf = {} /\ data \in Taxonomies /\ n \in Nat
      BY EntriesOf DEF LinesDone, PendingOf, TreeHolds, TreeTyped, SyncTyped
    <2>1. Replaced(data) = ReplacedNow
      <3>1. ReplacedNow = ReplacedSoFar(data, n, {})
        BY <2>0 DEF ReplacedNow
      <3>2. \A c \in Slugs, i \in 1 .. n :
              c \notin SlugsFrom(data, i + 1) <=> \A j \in (i + 1) .. n : data[j].slug # c
        BY DEF SlugsFrom
      <3>3. QED
        BY <3>1, <3>2 DEF Replaced, ReplacedSoFar
    <2>2. /\ \A c \in ReplacedNow : category[c].state # "ACTIVE"
          /\ \A g \in Goods : filed[g] \notin ReplacedNow
          /\ \A i \in 1 .. n : data[i].slug \notin ReplacedNow => category[data[i].slug].state = "ACTIVE"
          /\ \A c \in Slugs \ sync.ids : category[c].state # "ACTIVE"
      BY <2>0 DEF TreeHolds, FileStands
    <2>3. /\ \A i \in 1 .. n : category[data[i].slug].parent = data[i].parent
          /\ sync.ids = SlugsFrom(data, 1) /\ sync.ids \subseteq Slugs
      BY <2>0 DEF TreeHolds, LinesStand, SlugsFrom, TreeTyped, SyncTyped
    <2>4. \A c \in SlugsFrom(data, 1) \ ReplacedNow : category[c].state = "ACTIVE"
      BY <2>2 DEF SlugsFrom
    <2>5. QED
      BY <2>1, <2>2, <2>3, <2>4
  <1>3. SubtreeIsWhole
    <2> SUFFICES ASSUME walk.pc = "done", ~walk.shaken
                 PROVE  /\ walk.under \subseteq walk.collected
                        /\ \A s \in Within(walk.root) : walk.collected \subseteq s
      BY DEF SubtreeIsWhole
    <2>1. walk.collected \in SUBSET Slugs
      BY DEF TreeHolds, TreeTyped, WalkTyped
    <2>2. /\ walk.root \in walk.collected
          /\ \A c \in walk.under : category[c].parent \in walk.collected => c \in walk.collected
          /\ \A s \in Within(walk.root) : walk.collected \subseteq s
          /\ \A s \in SUBSET Slugs : walk.root \in s /\ (\A c \in walk.under : category[c].parent \in s => c \in s)
                                       => walk.under \subseteq s
      BY DEF TreeHolds, WalkHolds
    <2>3. QED
      BY <2>1, <2>2
  <1>4. QED
    BY <1>1, <1>2, <1>3 DEF TreeHolds

\* Whatever tree the file is applied to, whatever its lines and whoever writes
\* beside it: the categories form no cycle, the file stands once it is applied,
\* and a walk collects what lies under its root.
THEOREM TreeIsSound == TreeSpec => [](TreeHasNoCycles /\ FileIsApplied /\ SubtreeIsWhole)
  BY TreeStarts, TreeKeeps, TreeIsRight, PTL DEF TreeSpec

-----------------------------------------------------------------------------
(***************************************************************************)
(* Facts of a code: the turns remembered are the last that were sent, and  *)
(* those forgotten were sent more than a minute ago; whoever asks for a    *)
(* code alone finds nothing kept of it.                                    *)
(***************************************************************************)
ScanRow ==
    {NoScan} \cup [pc : {"read", "ask"}, code : Scanned]
             \cup [pc : {"keep"}, code : Scanned, facts : ProductFactsAnswer]

FactsTyped == FactsTypeOK /\ scan \in [Scans -> ScanRow]

TurnsAreTheLast(recalled) ==
    /\ Len(recalled) <= Len(sent)
    /\ \A i \in 1 .. Len(recalled) : recalled[i] = sent[(Len(sent) - Len(recalled)) + i]
    /\ \A i \in 1 .. (Len(sent) - Len(recalled)) : IsPast(sent[i])

SentInOrder == \A i, j \in 1 .. Len(sent) : i <= j => sent[i] <= sent[j]

IsAsking(s, c) == scan[s].pc \in {"ask", "keep"} /\ scan[s].code = c

AskedAlone ==
    \A c \in Scanned \ crossed :
        /\ kept[c] \in {"NOTHING", heard[c]}
        /\ \A s, t \in Scans : IsAsking(s, c) /\ IsAsking(t, c) => s = t
        /\ \A s \in Scans : IsAsking(s, c) =>
             kept[c] = "NOTHING" /\ (scan[s].pc = "keep" => scan[s].facts = heard[c])

FactsHold ==
    /\ FactsTyped /\ TurnsAreTheLast(recentTurns) /\ SentInOrder /\ RateIsKept /\ AskedAlone

LEMMA FactsStart == FactsInit => FactsHold
  <1> SUFFICES ASSUME FactsInit PROVE FactsHold
    OBVIOUS
  <1> USE DEF FactsInit
  <1>1. FactsTyped
    <2>1. <<>> \in Seq(0 .. 0)
      OBVIOUS
    <2>2. QED
      BY <2>1, FactsAssumption DEF FactsTyped, FactsTypeOK, FactsAssumption, ScanRow, NoScan, ProductFactsAnswer
  <1>2. TurnsAreTheLast(recentTurns) /\ SentInOrder /\ RateIsKept
    BY DEF TurnsAreTheLast, SentInOrder, RateIsKept
  <1>3. AskedAlone
    BY DEF AskedAlone, IsAsking, NoScan
  <1>4. QED
    BY <1>1, <1>2, <1>3 DEF FactsHold

LEMMA ScanRowsApart ==
  ASSUME NEW e \in ScanRow
  PROVE  /\ e.pc \in {"new", "read", "ask", "keep"}
         /\ e.pc # "new" => e.code \in Scanned
         /\ e.pc = "keep" => e.facts \in ProductFactsAnswer
  BY DEF ScanRow, NoScan

\* Those that are past come first, and there is a first that is not.
LEMMA PastTurnsEnd ==
  ASSUME FactsTyped
  PROVE  /\ PastTurns \in 0 .. Len(recentTurns)
         /\ \A i \in 1 .. PastTurns : IsPast(recentTurns[i])
  <1> DEFINE Ok(n) == /\ \A i \in 1 .. n : IsPast(recentTurns[i])
                      /\ n = Len(recentTurns) \/ ~IsPast(recentTurns[n + 1])
             late == {i \in 1 .. Len(recentTurns) : ~IsPast(recentTurns[i])}
  <1>0. Len(recentTurns) \in Nat
    BY DEF FactsTyped, FactsTypeOK
  <1>1. \E n \in 0 .. Len(recentTurns) : Ok(n)
    <2>1. CASE late = {}
      <3>1. Ok(Len(recentTurns))
        BY <2>1
      <3>2. QED
        BY <1>0, <3>1
    <2>2. CASE late # {}
      <3>1. late \in SUBSET Nat
        BY <1>0
      <3>2. PICK m \in late : \A n \in late : m <= n
        BY <2>2, <3>1, LeastNatural
      <3>3. m - 1 \in 0 .. Len(recentTurns) /\ (m - 1) + 1 = m /\ m \in 1 .. Len(recentTurns)
        BY <1>0, <3>2
      <3>4. \A i \in 1 .. (m - 1) : IsPast(recentTurns[i])
        BY <1>0, <3>2, <3>3
      <3>5. Ok(m - 1)
        BY <3>2, <3>3, <3>4
      <3>6. QED
        BY <3>3, <3>5
    <2>3. QED
      BY <2>1, <2>2
  <1>2. PastTurns = CHOOSE n \in 0 .. Len(recentTurns) : Ok(n)
    BY DEF PastTurns
  <1>3. PastTurns \in 0 .. Len(recentTurns) /\ Ok(PastTurns)
    BY <1>1, <1>2
  <1>4. QED
    BY <1>3

\* What is shifted out was past, so what remains is the last that was sent.
LEMMA ShiftingForgetsThePast ==
  ASSUME FactsTyped, TurnsAreTheLast(recentTurns)
  PROVE  RecentTurns \in Seq(0 .. ticks) /\ TurnsAreTheLast(RecentTurns)
  <1> DEFINE recalled == recentTurns
             n == PastTurns
             k == Len(sent) - Len(recalled)
             rest == SubSeq(recalled, n + 1, Len(recalled))
  <1>0. /\ recalled \in Seq(0 .. ticks) /\ Len(recalled) \in Nat /\ Len(sent) \in Nat /\ Len(recalled) <= Len(sent)
        /\ n \in 0 .. Len(recalled) /\ \A i \in 1 .. n : IsPast(recalled[i])
        /\ \A i \in 1 .. Len(recalled) : recalled[i] = sent[k + i]
        /\ \A i \in 1 .. k : IsPast(sent[i])
    BY PastTurnsEnd DEF FactsTyped, FactsTypeOK, TurnsAreTheLast
  <1> HIDE DEF n
  <1>1. /\ rest \in Seq(0 .. ticks) /\ Len(rest) = Len(recalled) - n
        /\ \A i \in 1 .. Len(rest) : rest[i] = recalled[n + i]
    <2>1. n + 1 \in Int /\ Len(recalled) \in Int /\ \A i \in (n + 1) .. Len(recalled) : recalled[i] \in 0 .. ticks
      <3>1. \A i \in (n + 1) .. Len(recalled) : i \in 1 .. Len(recalled)
        BY <1>0
      <3>2. \A i \in 1 .. Len(recalled) : recalled[i] \in 0 .. ticks
        BY <1>0, ElementOfSeq
      <3>3. QED
        BY <1>0, <3>1, <3>2
    <2>2. /\ rest \in Seq(0 .. ticks)
          /\ Len(rest) = IF n + 1 <= Len(recalled) THEN Len(recalled) - (n + 1) + 1 ELSE 0
          /\ \A i \in 1 .. (Len(recalled) - (n + 1) + 1) : rest[i] = recalled[(n + 1) + i - 1]
      BY <2>1, SubSeqProperties
    <2> HIDE DEF rest
    <2>3. Len(rest) = Len(recalled) - n
      BY <1>0, <2>2
    <2>4. ASSUME NEW i \in 1 .. Len(rest) PROVE rest[i] = recalled[n + i]
      <3>1. i \in 1 .. (Len(recalled) - (n + 1) + 1) /\ (n + 1) + i - 1 = n + i
        BY <1>0, <2>3
      <3>2. QED
        BY <2>2, <3>1
    <2>5. QED
      BY <2>2, <2>3, <2>4
  <1> HIDE DEF rest
  <1>3. \A i \in 1 .. Len(rest) : rest[i] = sent[(Len(sent) - Len(rest)) + i]
    <2> SUFFICES ASSUME NEW i \in 1 .. Len(rest) PROVE rest[i] = sent[(Len(sent) - Len(rest)) + i]
      OBVIOUS
    <2>1. n + i \in 1 .. Len(recalled) /\ k + (n + i) = (Len(sent) - Len(rest)) + i
      BY <1>0, <1>1
    <2>2. QED
      BY <1>0, <1>1, <2>1
  <1>4. \A i \in 1 .. (Len(sent) - Len(rest)) : IsPast(sent[i])
    <2> SUFFICES ASSUME NEW i \in 1 .. (Len(sent) - Len(rest)) PROVE IsPast(sent[i])
      OBVIOUS
    <2>1. CASE i <= k
      BY <1>0, <1>1, <2>1
    <2>2. CASE i > k
      <3>1. i - k \in 1 .. n /\ i - k \in 1 .. Len(recalled) /\ k + (i - k) = i
        BY <1>0, <1>1, <2>2
      <3>2. QED
        BY <1>0, <3>1
    <2>3. QED
      BY <1>0, <1>1, <2>1, <2>2
  <1>5. Len(rest) <= Len(sent)
    BY <1>0, <1>1
  <1>6. RecentTurns = rest
    BY DEF RecentTurns, n, rest
  <1>7. QED
    BY <1>1, <1>3, <1>4, <1>5, <1>6 DEF TurnsAreTheLast

\* A turn is taken where fewer than the limit are left: the request that many
\* places before was forgotten.
LEMMA TurnsKeepTheRate ==
  ASSUME FactsHold, NEW s \in Scans, NEW c \in Scanned, TakeTurn(s, c), UNCHANGED ticks
  PROVE  /\ recentTurns' \in Seq(0 .. ticks) /\ sent' \in Seq(0 .. ticks)
         /\ TurnsAreTheLast(recentTurns)' /\ SentInOrder' /\ RateIsKept'
  <1> DEFINE recalled == RecentTurns
  <1>0. /\ recalled \in Seq(0 .. ticks) /\ TurnsAreTheLast(recalled)
        /\ sent \in Seq(0 .. ticks) /\ ticks \in Nat /\ Len(sent) \in Nat /\ Len(recalled) \in Nat
        /\ MaxPerMinute \in Nat \ {0} /\ Minute \in Nat
        /\ \A i \in 1 .. Len(sent) : sent[i] \in 0 .. ticks
    BY ShiftingForgetsThePast, FactsAssumption DEF FactsHold, FactsTyped, FactsTypeOK, FactsAssumption
  <1>1. CASE Len(recalled) >= MaxPerMinute
    <2>1. recentTurns' = recalled /\ UNCHANGED sent
      BY <1>1 DEF TakeTurn
    <2>2. QED
      BY <1>0, <2>1 DEF FactsHold, TurnsAreTheLast, SentInOrder, RateIsKept, IsPast
  <1>2. CASE ~(Len(recalled) >= MaxPerMinute)
    <2>1. recentTurns' = Append(recalled, ticks) /\ sent' = Append(sent, ticks)
      BY <1>2 DEF TakeTurn
    <2>9. Len(recalled) < MaxPerMinute
      BY <1>0, <1>2
    <2> HIDE DEF recalled
    <2>2. /\ Len(recentTurns') = Len(recalled) + 1 /\ Len(sent') = Len(sent) + 1
          /\ sent'[Len(sent) + 1] = ticks /\ \A i \in 1 .. Len(sent) : sent'[i] = sent[i]
          /\ recentTurns'[Len(recalled) + 1] = ticks
          /\ \A i \in 1 .. Len(recalled) : recentTurns'[i] = recalled[i]
          /\ recentTurns' \in Seq(0 .. ticks) /\ sent' \in Seq(0 .. ticks)
      BY <1>0, <2>1
    <2>3. /\ Len(recalled) <= Len(sent)
          /\ \A i \in 1 .. Len(recalled) : recalled[i] = sent[(Len(sent) - Len(recalled)) + i]
          /\ \A i \in 1 .. (Len(sent) - Len(recalled)) : sent[i] < ticks - Minute
      BY <1>0 DEF TurnsAreTheLast, IsPast
    <2>4. TurnsAreTheLast(recentTurns)'
      <3>1. Len(sent') - Len(recentTurns') = Len(sent) - Len(recalled) /\ Len(recentTurns') <= Len(sent')
        BY <1>0, <2>2, <2>3
      <3>2. \A i \in 1 .. (Len(sent) - Len(recalled)) : sent'[i] < ticks - Minute
        <4> SUFFICES ASSUME NEW i \in 1 .. (Len(sent) - Len(recalled)) PROVE sent'[i] < ticks - Minute
          OBVIOUS
        <4>1. i \in 1 .. Len(sent)
          BY <1>0
        <4>2. sent'[i] = sent[i] /\ sent[i] < ticks - Minute
          BY <2>2, <2>3, <4>1
        <4>3. QED
          BY <4>2
      <3>3. ASSUME NEW i \in 1 .. (Len(recalled) + 1)
            PROVE  recentTurns'[i] = sent'[(Len(sent) - Len(recalled)) + i]
        <4>1. CASE i = Len(recalled) + 1
          <5>1. (Len(sent) - Len(recalled)) + i = Len(sent) + 1
            BY <1>0, <4>1
          <5>2. QED
            BY <2>2, <4>1, <5>1
        <4>2. CASE i # Len(recalled) + 1
          <5>1. i \in 1 .. Len(recalled) /\ (Len(sent) - Len(recalled)) + i \in 1 .. Len(sent)
            BY <1>0, <2>3, <4>2
          <5>2. QED
            BY <2>2, <2>3, <5>1
        <4>3. QED
          BY <4>1, <4>2
      <3>4. QED
        BY <2>2, <3>1, <3>2, <3>3 DEF TurnsAreTheLast, IsPast
    <2>5. SentInOrder'
      <3> SUFFICES ASSUME NEW i \in 1 .. Len(sent'), NEW j \in 1 .. Len(sent'), i <= j
                   PROVE  sent'[i] <= sent'[j]
        BY DEF SentInOrder
      <3>1. CASE j \in 1 .. Len(sent)
        <4>1. i \in 1 .. Len(sent)
          BY <1>0, <2>2, <3>1
        <4>2. QED
          BY <2>2, <3>1, <4>1 DEF FactsHold, SentInOrder
      <3>2. CASE j = Len(sent) + 1
        <4>1. i \in 1 .. Len(sent) \/ i = Len(sent) + 1
          BY <1>0, <2>2
        <4>2. sent'[j] = ticks
          BY <2>2, <3>2
        <4>3. sent'[i] \in 0 .. ticks
          BY <1>0, <2>2, <4>1, SMTT(60)
        <4>4. QED
          BY <1>0, <4>2, <4>3
      <3>3. QED
        BY <1>0, <2>2, <3>1, <3>2
    <2>6. RateIsKept'
      <3> SUFFICES ASSUME NEW i \in 1 .. Len(sent'), NEW j \in 1 .. Len(sent'), j >= i + MaxPerMinute
                   PROVE  sent'[j] - sent'[i] > Minute
        BY DEF RateIsKept
      <3>1. CASE j \in 1 .. Len(sent)
        <4>1. i \in 1 .. Len(sent)
          BY <1>0, <2>2, <3>1
        <4>2. QED
          BY <2>2, <3>1, <4>1 DEF FactsHold, RateIsKept
      <3>2. CASE j = Len(sent) + 1
        <4>1. i \in 1 .. (Len(sent) - Len(recalled)) /\ i \in 1 .. Len(sent)
          <5>1. PICK n, m, k : n = Len(sent) /\ m = Len(recalled) /\ k = MaxPerMinute
            OBVIOUS
          <5>2. n \in Nat /\ m \in Nat /\ k \in Nat /\ m < k /\ m <= n
            BY <1>0, <2>3, <2>9, <5>1, FactsAssumption DEF FactsAssumption
          <5>3. i \in 1 .. (n + 1) /\ j = n + 1 /\ j >= i + k
            BY <2>2, <3>2, <5>1
          <5>4. i \in 1 .. (n - m) /\ i \in 1 .. n
            BY <5>2, <5>3
          <5>5. QED
            BY <5>1, <5>4
        <4>2. sent'[i] = sent[i] /\ sent'[j] = ticks /\ sent[i] < ticks - Minute /\ sent[i] \in 0 .. ticks
          BY <1>0, <2>2, <2>3, <3>2, <4>1
        <4>3. QED
          BY <1>0, <4>2
      <3>3. j \in 1 .. Len(sent) \/ j = Len(sent) + 1
        <4>1. Len(sent') = Len(sent) + 1 /\ Len(sent) \in Nat
          BY <1>0, <2>2
        <4>2. j \in 1 .. (Len(sent) + 1)
          BY <4>1
        <4>3. QED
          BY <4>1, <4>2
      <3>4. QED
        BY <3>1, <3>2, <3>3
    <2>7. QED
      BY <2>2, <2>4, <2>5, <2>6
  <1>3. QED
    BY <1>1, <1>2

\* Turns that are past stay so.
LEMMA TurnsStay ==
  ASSUME FactsHold, ticks' \in Nat, ticks' >= ticks, UNCHANGED <<recentTurns, sent>>
  PROVE  /\ recentTurns' \in Seq(0 .. ticks') /\ sent' \in Seq(0 .. ticks')
         /\ TurnsAreTheLast(recentTurns)' /\ SentInOrder' /\ RateIsKept'
  <1>0. /\ ticks \in Nat /\ Minute \in Nat /\ Len(sent) \in Nat /\ Len(recentTurns) \in Nat
        /\ recentTurns \in Seq(0 .. ticks) /\ sent \in Seq(0 .. ticks)
        /\ \A i \in 1 .. Len(sent) : sent[i] \in 0 .. ticks
    BY FactsAssumption DEF FactsHold, FactsTyped, FactsTypeOK, FactsAssumption
  <1>1. recentTurns \in Seq(0 .. ticks') /\ sent \in Seq(0 .. ticks')
    BY <1>0
  <1>2. \A i \in 1 .. (Len(sent) - Len(recentTurns)) : sent[i] < ticks' - Minute
    <2> SUFFICES ASSUME NEW i \in 1 .. (Len(sent) - Len(recentTurns)) PROVE sent[i] < ticks' - Minute
      OBVIOUS
    <2>1. i \in 1 .. Len(sent) /\ sent[i] < ticks - Minute
      BY <1>0 DEF FactsHold, TurnsAreTheLast, IsPast
    <2>2. sent[i] \in 0 .. ticks
      BY <1>0, <2>1
    <2>3. QED
      BY <1>0, <2>1, <2>2
  <1>3. QED
    BY <1>1, <1>2 DEF FactsHold, TurnsAreTheLast, IsPast, SentInOrder, RateIsKept

\* A lookup that does not ask leaves what is known of the answers.
LEMMA AskedStays ==
  ASSUME FactsHold, NEW s \in Scans, NEW e \in ScanRow, scan' = [scan EXCEPT ![s] = e],
         e.pc \in {"new", "read"}, UNCHANGED <<kept, heard, crossed>>
  PROVE  AskedAlone'
  <1>1. \A t \in Scans, c \in Scanned : IsAsking(t, c)' => IsAsking(t, c) /\ scan'[t] = scan[t]
    BY DEF IsAsking, FactsHold, FactsTyped
  <1>2. QED
    BY <1>1 DEF AskedAlone, FactsHold

LEMMA FactsKeepTypes ==
  ASSUME FactsHold, NEW s \in Scans, NEW e \in ScanRow, scan' = [scan EXCEPT ![s] = e],
         UNCHANGED ticks, recentTurns' \in Seq(0 .. ticks), sent' \in Seq(0 .. ticks),
         kept' \in [Scanned -> ProductFactsAnswer \cup {"NOTHING"}],
         heard' \in [Scanned -> ProductFactsAnswer \cup {"NOTHING"}],
         crossed' \subseteq Scanned
  PROVE  FactsTyped'
  <1>1. scan' \in [Scans -> ScanRow]
    BY DEF FactsHold, FactsTyped
  <1>2. \A t \in Scans : scan'[t] \in ScanRow
    BY <1>1
  <1>3. QED
    BY <1>1, <1>2, ScanRowsApart DEF FactsHold, FactsTyped, FactsTypeOK

LEMMA WithoutAsking ==
  ASSUME FactsHold, NEW s \in Scans, NEW e \in ScanRow, scan' = [scan EXCEPT ![s] = e],
         e.pc \in {"new", "read"}, UNCHANGED <<ticks, recentTurns, sent, kept, heard, crossed>>
  PROVE  FactsHold'
  <1>1. AskedAlone'
    BY AskedStays
  <1>2. /\ recentTurns \in Seq(0 .. ticks) /\ sent \in Seq(0 .. ticks) /\ ticks \in Nat
        /\ kept \in [Scanned -> ProductFactsAnswer \cup {"NOTHING"}]
        /\ heard \in [Scanned -> ProductFactsAnswer \cup {"NOTHING"}] /\ crossed \subseteq Scanned
    BY FactsAssumption DEF FactsHold, FactsTyped, FactsTypeOK, FactsAssumption
  <1>3. FactsTyped'
    BY <1>2, FactsKeepTypes
  <1>4. ticks' \in Nat /\ ticks' >= ticks /\ UNCHANGED <<recentTurns, sent>>
    BY <1>2
  <1>5. TurnsAreTheLast(recentTurns)' /\ SentInOrder' /\ RateIsKept'
    BY <1>4, TurnsStay
  <1>6. QED
    BY <1>1, <1>3, <1>5 DEF FactsHold

LEMMA ScansKeepFacts ==
  ASSUME FactsHold, NEW s \in Scans,
         ScanStep(s) \/ \E c \in Scanned : LookUpBarcode(s, c)
  PROVE  FactsHold'
  <1>0. /\ FactsTypeOK /\ scan \in [Scans -> ScanRow] /\ NoScan \in ScanRow /\ NoScan.pc = "new"
        /\ ticks \in Nat
    BY FactsAssumption DEF FactsHold, FactsTyped, ScanRow, NoScan, FactsTypeOK
  <1>1. ASSUME NEW c \in Scanned, LookUpBarcode(s, c) PROVE FactsHold'
    <2> DEFINE e == [pc |-> "read", code |-> c]
    <2>1. e \in ScanRow /\ e.pc = "read"
      BY DEF ScanRow
    <2>2. scan' = [scan EXCEPT ![s] = e] /\ UNCHANGED <<ticks, recentTurns, sent, kept, heard, crossed>>
      BY <1>1 DEF LookUpBarcode
    <2> HIDE DEF e
    <2>3. QED
      BY <2>1, <2>2, WithoutAsking
  <1>2. CASE ReadKept(s)
    <2> DEFINE c == scan[s].code
    <2>1. scan[s].pc = "read" /\ c \in Scanned /\ UNCHANGED <<ticks, kept, heard>>
      BY <1>0, <1>2, ScanRowsApart DEF ReadKept
    <2>2. CASE kept[c] # "NOTHING" /\ Tells(s) /\ UNCHANGED <<recentTurns, sent, crossed>>
      <3>1. scan' = [scan EXCEPT ![s] = NoScan] /\ UNCHANGED <<ticks, recentTurns, sent, kept, heard, crossed>>
        BY <2>1, <2>2 DEF Tells
      <3>2. QED
        BY <1>0, <3>1, WithoutAsking
    <2>3. CASE /\ TakeTurn(s, c)
               /\ crossed' = IF kept[c] # "NOTHING" \/ Asking(c) # {} THEN crossed \cup {c} ELSE crossed
      <3> DEFINE e == [pc |-> "ask", code |-> c]
      <3>1. e \in ScanRow /\ e.pc = "ask" /\ e.code = c
        BY <2>1 DEF ScanRow
      <3>2. scan' = [scan EXCEPT ![s] = NoScan] \/ scan' = [scan EXCEPT ![s] = e]
        BY <2>3 DEF TakeTurn, Tells
      <3> HIDE DEF e
      <3>3. /\ recentTurns' \in Seq(0 .. ticks) /\ sent' \in Seq(0 .. ticks)
            /\ TurnsAreTheLast(recentTurns)' /\ SentInOrder' /\ RateIsKept'
        BY <2>1, <2>3, TurnsKeepTheRate
      <3>4. crossed' \subseteq Scanned /\ crossed \subseteq crossed'
        BY <1>0, <2>1, <2>3 DEF FactsTypeOK
      <3>5. FactsTyped'
        BY <1>0, <2>1, <3>1, <3>2, <3>3, <3>4, FactsKeepTypes DEF FactsTypeOK
      <3>6. AskedAlone'
        <4> SUFFICES ASSUME NEW d \in Scanned, d \notin crossed'
                     PROVE  /\ kept[d] \in {"NOTHING", heard[d]}
                            /\ \A t, w \in Scans : IsAsking(t, d)' /\ IsAsking(w, d)' => t = w
                            /\ \A t \in Scans : IsAsking(t, d)' =>
                                 kept[d] = "NOTHING" /\ (scan'[t].pc = "keep" => scan'[t].facts = heard[d])
          BY <2>1 DEF AskedAlone
        <4>1. /\ kept[d] \in {"NOTHING", heard[d]}
              /\ \A t, w \in Scans : IsAsking(t, d) /\ IsAsking(w, d) => t = w
              /\ \A t \in Scans : IsAsking(t, d) =>
                   kept[d] = "NOTHING" /\ (scan[t].pc = "keep" => scan[t].facts = heard[d])
          BY <3>4 DEF FactsHold, AskedAlone
        <4>2. \A t \in Scans : t # s => scan'[t] = scan[t]
          BY <1>0, <3>2
        <4>3. IsAsking(s, d)' => d = c /\ scan'[s].pc = "ask"
          BY <1>0, <3>1, <3>2 DEF IsAsking
        <4>4. d = c => kept[d] = "NOTHING" /\ \A t \in Scans : ~IsAsking(t, d)
          BY <2>3 DEF Asking, IsAsking
        <4>5. QED
          BY <4>1, <4>2, <4>3, <4>4 DEF IsAsking
      <3>7. QED
        BY <3>3, <3>5, <3>6 DEF FactsHold
    <2>4. QED
      BY <1>2, <2>2, <2>3 DEF ReadKept
  <1>3. CASE SourceFails(s)
    <2>1. scan' = [scan EXCEPT ![s] = NoScan] /\ UNCHANGED <<ticks, recentTurns, sent, kept, heard, crossed>>
      BY <1>3 DEF SourceFails, Tells
    <2>2. QED
      BY <1>0, <2>1, WithoutAsking
  <1>4. ASSUME NEW facts \in ProductFactsAnswer, SourceAnswers(s, facts) PROVE FactsHold'
    <2> DEFINE c == scan[s].code
               e == [pc |-> "keep", code |-> c, facts |-> facts]
    <2>1. scan[s].pc = "ask" /\ c \in Scanned
      BY <1>0, <1>4, ScanRowsApart DEF SourceAnswers
    <2>2. e \in ScanRow /\ e.pc = "keep" /\ e.code = c /\ e.facts = facts
      BY <2>1 DEF ScanRow
    <2>3. /\ scan' = [scan EXCEPT ![s] = e] /\ heard' = [heard EXCEPT ![c] = facts]
          /\ UNCHANGED <<ticks, recentTurns, sent, kept, crossed>>
      BY <1>4 DEF SourceAnswers
    <2> HIDE DEF e
    <2>4. heard' \in [Scanned -> ProductFactsAnswer \cup {"NOTHING"}]
      BY <1>0, <2>1, <2>3 DEF FactsTypeOK
    <2>5. FactsTyped'
      BY <1>0, <2>2, <2>3, <2>4, FactsKeepTypes DEF FactsTypeOK
    <2>6. AskedAlone'
      <3> SUFFICES ASSUME NEW d \in Scanned, d \notin crossed
                   PROVE  /\ kept[d] \in {"NOTHING", heard'[d]}
                          /\ \A t, w \in Scans : IsAsking(t, d)' /\ IsAsking(w, d)' => t = w
                          /\ \A t \in Scans : IsAsking(t, d)' =>
                               kept[d] = "NOTHING" /\ (scan'[t].pc = "keep" => scan'[t].facts = heard'[d])
        BY <2>3 DEF AskedAlone
      <3>1. /\ kept[d] \in {"NOTHING", heard[d]}
            /\ \A t, w \in Scans : IsAsking(t, d) /\ IsAsking(w, d) => t = w
            /\ \A t \in Scans : IsAsking(t, d) =>
                 kept[d] = "NOTHING" /\ (scan[t].pc = "keep" => scan[t].facts = heard[d])
        BY DEF FactsHold, AskedAlone
      <3>2. /\ \A t \in Scans : t # s => scan'[t] = scan[t]
            /\ scan'[s].pc = "keep" /\ scan'[s].code = c /\ scan'[s].facts = facts
        BY <1>0, <2>2, <2>3
      <3>3. \A t \in Scans : IsAsking(t, d)' => IsAsking(t, d)
        BY <2>1, <3>2 DEF IsAsking
      <3>4. /\ d # c => heard'[d] = heard[d]
            /\ d = c => heard'[d] = facts /\ IsAsking(s, d)
        BY <1>0, <2>1, <2>3 DEF FactsTypeOK, IsAsking
      <3>5. ASSUME NEW t \in Scans, IsAsking(t, d)'
            PROVE  kept[d] = "NOTHING" /\ (scan'[t].pc = "keep" => scan'[t].facts = heard'[d])
        <4>1. IsAsking(t, d)
          BY <3>3, <3>5
        <4>2. CASE d = c
          BY <3>1, <3>2, <3>4, <4>1, <4>2
        <4>3. CASE d # c
          <5>1. t # s
            BY <4>1, <4>3 DEF IsAsking
          <5>2. QED
            BY <3>1, <3>2, <3>4, <4>1, <4>3, <5>1
        <4>4. QED
          BY <4>2, <4>3
      <3>6. kept[d] \in {"NOTHING", heard'[d]}
        BY <3>1, <3>4
      <3>7. QED
        BY <3>1, <3>3, <3>5, <3>6
    <2>7. QED
      BY <1>0, <2>3, <2>5, <2>6, TurnsStay DEF FactsHold
  <1>5. CASE KeepFacts(s)
    <2> DEFINE c == scan[s].code
    <2>1. scan[s].pc = "keep" /\ c \in Scanned /\ scan[s].facts \in ProductFactsAnswer /\ IsAsking(s, c)
      BY <1>0, <1>5, ScanRowsApart DEF KeepFacts, IsAsking
    <2>2. /\ scan' = [scan EXCEPT ![s] = NoScan]
          /\ kept' = kept \/ kept' = [kept EXCEPT ![c] = scan[s].facts]
          /\ UNCHANGED <<ticks, recentTurns, sent, heard, crossed>>
      BY <1>5 DEF KeepFacts, Tells
    <2>3. kept' \in [Scanned -> ProductFactsAnswer \cup {"NOTHING"}]
      BY <1>0, <2>1, <2>2 DEF FactsTypeOK
    <2>4. FactsTyped'
      BY <1>0, <2>2, <2>3, FactsKeepTypes DEF FactsTypeOK
    <2>5. AskedAlone'
      <3> SUFFICES ASSUME NEW d \in Scanned, d \notin crossed
                   PROVE  /\ kept'[d] \in {"NOTHING", heard[d]}
                          /\ \A t, w \in Scans : IsAsking(t, d)' /\ IsAsking(w, d)' => t = w
                          /\ \A t \in Scans : IsAsking(t, d)' =>
                               kept'[d] = "NOTHING" /\ (scan'[t].pc = "keep" => scan'[t].facts = heard[d])
        BY <2>2 DEF AskedAlone
      <3>1. /\ kept[d] \in {"NOTHING", heard[d]}
            /\ \A t, w \in Scans : IsAsking(t, d) /\ IsAsking(w, d) => t = w
            /\ \A t \in Scans : IsAsking(t, d) =>
                 kept[d] = "NOTHING" /\ (scan[t].pc = "keep" => scan[t].facts = heard[d])
        BY DEF FactsHold, AskedAlone
      <3>2. \A t \in Scans : IsAsking(t, d)' => t # s /\ IsAsking(t, d) /\ scan'[t] = scan[t]
        BY <1>0, <2>2 DEF IsAsking
      <3>3. /\ d # c => kept'[d] = kept[d]
            /\ d = c => kept'[d] \in {kept[d], scan[s].facts}
        BY <1>0, <2>1, <2>2 DEF FactsTypeOK
      <3>4. d = c => \A t \in Scans : ~IsAsking(t, d)'
        BY <2>1, <3>1, <3>2
      <3>5. kept'[d] \in {"NOTHING", heard[d]}
        BY <2>1, <3>1, <3>3
      <3>6. QED
        BY <3>1, <3>2, <3>3, <3>4, <3>5
    <2>6. QED
      BY <1>0, <2>2, <2>4, <2>5, TurnsStay DEF FactsHold
  <1>6. QED
    BY <1>1, <1>2, <1>3, <1>4, <1>5 DEF ScanStep

LEMMA FactsKeep ==
  ASSUME FactsHold, [FactsNext]_factsVars
  PROVE  FactsHold'
  <1>0. /\ FactsTypeOK /\ scan \in [Scans -> ScanRow] /\ ticks \in Nat /\ ticks <= MaxTicks /\ MaxTicks \in Nat
    BY FactsAssumption DEF FactsHold, FactsTyped, FactsTypeOK, FactsAssumption
  <1>1. ASSUME NEW c \in Scanned, Lapse(c) PROVE FactsHold'
    <2>1. /\ kept' = [kept EXCEPT ![c] = "NOTHING"]
          /\ UNCHANGED <<ticks, recentTurns, sent, heard, scan, crossed>>
      BY <1>1 DEF Lapse
    <2>2. FactsTyped'
      BY <2>1 DEF FactsHold, FactsTyped, FactsTypeOK
    <2>3. \A d \in Scanned : kept'[d] \in {kept[d], "NOTHING"}
      BY <1>0, <2>1 DEF FactsTypeOK
    <2>4. AskedAlone'
      BY <2>1, <2>3 DEF FactsHold, AskedAlone, IsAsking
    <2>5. QED
      BY <1>0, <2>1, <2>2, <2>4, TurnsStay DEF FactsHold
  <1>2. CASE Tick
    <2>1. ticks' = ticks + 1 /\ ticks' \in 0 .. MaxTicks /\ UNCHANGED <<recentTurns, sent, kept, heard, scan, crossed>>
      BY <1>0, <1>2 DEF Tick
    <2>2. /\ recentTurns' \in Seq(0 .. ticks') /\ sent' \in Seq(0 .. ticks')
          /\ TurnsAreTheLast(recentTurns)' /\ SentInOrder' /\ RateIsKept'
      BY <1>0, <2>1, TurnsStay
    <2>3. AskedAlone'
      BY <2>1 DEF FactsHold, AskedAlone, IsAsking
    <2>4. FactsTyped'
      BY <2>1, <2>2 DEF FactsHold, FactsTyped, FactsTypeOK
    <2>5. QED
      BY <2>2, <2>3, <2>4 DEF FactsHold
  <1>3. CASE UNCHANGED factsVars
    <2>1. UNCHANGED <<ticks, recentTurns, sent, kept, heard, scan, crossed>>
      BY <1>3 DEF factsVars
    <2>2. AskedAlone' /\ FactsTyped'
      BY <2>1 DEF FactsHold, AskedAlone, IsAsking, FactsTyped, FactsTypeOK
    <2>3. QED
      BY <1>0, <2>1, <2>2, TurnsStay DEF FactsHold
  <1>4. QED
    BY <1>1, <1>2, <1>3, ScansKeepFacts DEF FactsNext

LEMMA FactsAreRight == FactsHold => FactsTypeOK /\ RateIsKept /\ LastAnswerIsKept
  BY DEF FactsHold, FactsTyped, AskedAlone, LastAnswerIsKept

\* However many look codes up, and whenever: the source is never asked more
\* often than it allows, and what is kept of its answers is the last.
THEOREM FactsAreCurrent == FactsSpec => [](RateIsKept /\ LastAnswerIsKept)
  BY FactsStart, FactsKeep, FactsAreRight, PTL DEF FactsSpec

-----------------------------------------------------------------------------
(***************************************************************************)
(* A feed: what was asked for is what the first page leads to, as long as  *)
(* the source publishes nothing meanwhile, and what is passed on is what   *)
(* was collected.                                                          *)
(***************************************************************************)
FeedTyped ==
    /\ FeedTypeOK
    /\ reading = [pc |-> reading.pc, of |-> reading.of, page |-> reading.page,
                  fetched |-> reading.fetched, asked |-> reading.asked,
                  collected |-> reading.collected, result |-> reading.result,
                  changed |-> reading.changed]
    /\ reading.pc \in {"new", "page"} => reading.page \in Pages /\ reading.fetched < MaxPages

PathIsFollowed ==
    /\ \A s \in Led : reading.asked \subseteq s /\ (reading.pc \in {"new", "page"} => reading.page \in s)
    /\ reading.collected = UNION {feed[p].items : p \in reading.asked}
    /\ reading.pc \in {"new", "page"} =>
         /\ FirstPage \in reading.asked \cup {reading.page}
         /\ \A p \in reading.asked : feed[p].next \in reading.asked \cup {reading.page}
    /\ reading.pc = "done" =>
         (reading.fetched \in 1 .. (MaxPages - 1) => reading.asked \in Led)

\* What is passed on of these items.
Passes(of, items, result) ==
    /\ \A i \in items : WellShaped(of, i) => Usable(of, {i}) \subseteq result
    /\ of = "prices" => \A r \in result : \E i \in items : IsNearest(r, i)

FeedHolds ==
    /\ FeedTyped
    /\ reading.pc = "new" => /\ reading.page = FirstPage /\ reading.fetched = 0
                             /\ reading.asked = {} /\ reading.collected = {} /\ ~reading.changed
    /\ ~reading.changed => PathIsFollowed
    /\ reading.pc = "done" => Passes(reading.of, reading.collected, reading.result)

\* Rounding moves by half a unit at the most, whatever the unit.
LEMMA HalfAtMost ==
  ASSUME NEW n \in Int, NEW k \in Nat \ {0}, NEW h \in Nat, k = h + h
  PROVE  (n + h) \div k \in Int /\ k * ((n + h) \div k) - n \in -h .. h
  <1>1. PICK z \in Int : z = n + h
    OBVIOUS
  <1>2. PICK d \in Int : \E r \in 0 .. k - 1 : d = z \div k /\ r = z % k /\ z = k * d + r
    BY Divided, Zenon
  <1>3. PICK y \in Int : y = k * d
    OBVIOUS
  <1>4. y - n \in -h .. h
    BY <1>1, <1>2, <1>3
  <1>5. QED
    BY <1>1, <1>2, <1>3, <1>4, Zenon

\* Rounding goes to the nearest.
LEMMA Nearest ==
  ASSUME NEW n \in Int
  PROVE  /\ RoundThousandths(n) \in Int
         /\ 1000 * RoundThousandths(n) - n \in -500 .. 500
         /\ n % 1000 = 0 => RoundThousandths(n) = n \div 1000
  <1>1. PICK k \in Nat \ {0}, h \in Nat : k = 1000 /\ h = 500
    OBVIOUS
  <1>2. k = h + h
    BY <1>1
  <1>3. PICK d \in Int : d = (n + h) \div k /\ k * d - n \in -h .. h
    BY <1>2, HalfAtMost, Zenon
  <1>4. PICK e \in Int : \E q \in 0 .. k - 1 : e = n \div k /\ q = n % k /\ n = k * e + q
    BY Divided, Zenon
  <1>5. PICK q \in 0 .. k - 1 : e = n \div k /\ q = n % k /\ n = k * e + q
    BY <1>4, Zenon
  <1>6. n % k = 0 => d = n \div k
    <2>1. PICK y \in Int, x \in Int : y = k * d /\ x = k * e
      OBVIOUS
    <2>2. q = 0 => y - x \in -h .. h
      BY <1>3, <1>5, <2>1
    <2>3. y = 1000 * d /\ x = 1000 * e
      BY <1>1, <2>1
    <2>4. q = 0 => d = e
      BY <1>1, <2>2, <2>3
    <2>5. QED
      BY <1>5, <2>4, Zenon
  <1>7. RoundThousandths(n) = d
    BY <1>1, <1>3 DEF RoundThousandths
  <1>8. QED
    BY <1>1, <1>3, <1>6, <1>7

LEMMA CentsAreNearest ==
  ASSUME NEW price, price.kind \in PriceKinds, price.thousandths \in Int
  PROVE  /\ PriceCents(price) \in Int
         /\ 1000 * PriceCents(price) - Quoted(price) \in -500 .. 500
  <1>1. PICK n \in Int : n = Quoted(price)
    BY DEF Quoted, ReadNumber
  <1>2. PriceCents(price) = RoundThousandths(n)
    BY <1>1 DEF PriceCents
  <1>3. PICK k \in Nat \ {0}, h \in Nat : k = 1000 /\ h = 500
    OBVIOUS
  <1>4. k = h + h
    BY <1>3
  <1>5. PICK d : d = (n + h) \div k
    OBVIOUS
  <1>6. d \in Int /\ k * d - n \in -h .. h
    BY <1>4, <1>5, HalfAtMost, Zenon
  <1>7. RoundThousandths(n) = d
    BY <1>3, <1>5 DEF RoundThousandths
  <1>8. 1000 * d - n \in -500 .. 500
    BY <1>3, <1>6
  <1>9. QED
    BY <1>1, <1>2, <1>6, <1>7, <1>8

LEMMA UsablePasses ==
  ASSUME NEW of \in {"products", "prices"}, NEW items \in SUBSET FeedItems
  PROVE  Passes(of, items, Usable(of, items))
  <1>1. \A i \in items : Usable(of, {i}) \subseteq Usable(of, items)
    BY DEF Usable, ExternalProducts, ExternalPrices
  <1>2. ASSUME of = "prices", NEW r \in Usable(of, items)
        PROVE  \E i \in items : IsNearest(r, i)
    <2>1. PICK i \in items : /\ r.externalProductId = i.id /\ r.externalStoreId = i.store
                             /\ r.priceCents = PriceCents(i.price)
      BY <1>2 DEF Usable, ExternalPrices
    <2>2. i.price.kind \in PriceKinds /\ i.price.thousandths \in Int
      BY FeedAssumption DEF FeedAssumption
    <2>3. 1000 * r.priceCents - Quoted(i.price) \in -500 .. 500
      BY <2>1, <2>2, CentsAreNearest
    <2>4. IsNearest(r, i)
      BY <2>1, <2>3 DEF IsNearest
    <2>5. QED
      BY <2>4
  <1>3. QED
    BY <1>1, <1>2 DEF Passes

LEMMA FilePasses ==
  ASSUME NEW of \in {"products", "prices"}, NEW items \in SUBSET FeedItems, ~InMajorUnits,
         \A i \in items : WellShaped(of, i)
  PROVE  Passes(of, items, AsTheyAre(of, items))
  <1>1. CASE of = "products"
    <2>1. \A i \in items : Usable(of, {i}) \subseteq AsTheyAre(of, items)
      BY <1>1 DEF Usable, AsTheyAre, ExternalProducts
    <2>2. QED
      BY <1>1, <2>1 DEF Passes
  <1>2. CASE of = "prices"
    <2> DEFINE Line(i) == [externalProductId |-> i.id, externalStoreId |-> i.store,
                           priceCents |-> i.price.thousandths \div 1000, currency |-> i.currency]
    <2>1. ASSUME NEW i \in items
          PROVE  /\ i.price.thousandths \in Int
                 /\ PriceCents(i.price) = i.price.thousandths \div 1000
      <3>1. i.price.thousandths \in Int /\ i.price.thousandths % 1000 = 0 /\ i.price.kind = "NUMBER"
        BY <1>2, FeedAssumption DEF WellShaped, FeedAssumption
      <3>2. ReadNumber(i.price) = i.price.thousandths
        BY <3>1 DEF ReadNumber
      <3>3. Quoted(i.price) = i.price.thousandths
        BY <3>1, <3>2 DEF Quoted
      <3>4. PriceCents(i.price) = RoundThousandths(i.price.thousandths)
        BY <3>3 DEF PriceCents
      <3>5. QED
        BY <3>1, <3>3, <3>4, Nearest
    <2>2. AsTheyAre(of, items) = {Line(i) : i \in items}
      BY <1>2 DEF AsTheyAre
    <2>3. \A i \in items : Usable(of, {i}) \subseteq {Line(i)}
      <3> SUFFICES ASSUME NEW i \in items, NEW r \in Usable(of, {i}) PROVE r = Line(i)
        OBVIOUS
      <3>1. r = [externalProductId |-> i.id, externalStoreId |-> i.store, priceCents |-> PriceCents(i.price),
                 currency |-> IF i.currency = Absent THEN DefaultCurrency ELSE i.currency]
        BY <1>2 DEF Usable, ExternalPrices
      <3>2. i.currency # Absent
        BY <1>2 DEF WellShaped
      <3>3. PriceCents(i.price) = i.price.thousandths \div 1000
        BY <2>1
      <3>4. QED
        BY <3>1, <3>2, <3>3
    <2>4. \A i \in items : IsNearest(Line(i), i)
      <3> SUFFICES ASSUME NEW i \in items PROVE IsNearest(Line(i), i)
        OBVIOUS
      <3>1. 1000 * PriceCents(i.price) - Quoted(i.price) \in -500 .. 500
        BY CentsAreNearest, FeedAssumption DEF FeedAssumption
      <3>2. Line(i).priceCents = PriceCents(i.price)
        BY <2>1
      <3>3. Line(i).externalProductId = i.id /\ Line(i).externalStoreId = i.store
        OBVIOUS
      <3> HIDE DEF Line
      <3>4. QED
        BY <3>1, <3>2, <3>3 DEF IsNearest
    <2>5. QED
      BY <2>2, <2>3, <2>4 DEF Passes
  <1>3. QED
    BY <1>1, <1>2

LEMMA FeedStarts == FeedInit => FeedHolds
  <1> SUFFICES ASSUME FeedInit PROVE FeedHolds
    OBVIOUS
  <1>1. PICK of \in {"products", "prices"} :
          reading = [pc |-> "new", of |-> of, page |-> FirstPage, fetched |-> 0, asked |-> {},
                     collected |-> {}, result |-> {}, changed |-> FALSE]
    BY DEF FeedInit
  <1>2. FeedTyped
    BY <1>1, FeedAssumption DEF FeedAssumption, FeedInit, FeedTyped, FeedTypeOK
  <1>3. PathIsFollowed
    BY <1>1, FeedAssumption DEF FeedAssumption, PathIsFollowed, Led
  <1>4. QED
    BY <1>1, <1>2, <1>3 DEF FeedHolds

LEMMA FeedFetches == FeedHolds /\ FetchPage => FeedHolds'
  <1> SUFFICES ASSUME FeedHolds, FetchPage PROVE FeedHolds'
    OBVIOUS
  <1> DEFINE p == reading.page
             r == [pc |-> "page", of |-> reading.of, page |-> feed[p].next,
                   fetched |-> reading.fetched + 1, asked |-> reading.asked \cup {p},
                   collected |-> reading.collected \cup feed[p].items, result |-> reading.result,
                   changed |-> reading.changed]
             done == [r EXCEPT !.pc = "done", !.result = Usable(r.of, r.collected)]
             goes == GoesOn(p) /\ reading.fetched + 1 < MaxPages
  <1>0. /\ FeedTypeOK /\ reading.pc = "page" /\ p \in Pages /\ reading.fetched < MaxPages
        /\ UNCHANGED <<feed, published>>
    BY DEF FetchPage, FeedHolds, FeedTyped
  <1>1. reading' = IF goes THEN r ELSE done
    <2>0. PICK s : s = [reading EXCEPT !.fetched = @ + 1, !.asked = @ \cup {p},
                                       !.collected = @ \cup feed[p].items, !.page = feed[p].next]
      OBVIOUS
    <2>1. s = r
      BY <1>0, <2>0 DEF FeedHolds, FeedTyped
    <2>2. reading' = IF GoesOn(p) /\ s.fetched < MaxPages THEN s ELSE ReadOut(s)
      BY <2>0 DEF FetchPage
    <2>3. QED
      BY <2>1, <2>2 DEF ReadOut
  <1>2. /\ feed[p].items \in SUBSET FeedItems /\ feed[p].next \in Pages \cup {NoNext}
        /\ feed \in [Pages -> Page] /\ reading.fetched + 1 \in 0 .. MaxPages
        /\ reading.of \in {"products", "prices"}
        /\ reading.collected \cup feed[p].items \in SUBSET FeedItems
    BY <1>0, FeedAssumption DEF FeedAssumption, FeedTypeOK, Page
  <1>3. goes => feed[p].next \in Pages
    BY <1>2 DEF GoesOn
  <1>4. /\ reading'.of = reading.of /\ reading'.page = feed[p].next
        /\ reading'.fetched = reading.fetched + 1 /\ reading'.asked = reading.asked \cup {p}
        /\ reading'.collected = reading.collected \cup feed[p].items
        /\ reading'.changed = reading.changed
        /\ IF goes THEN reading'.pc = "page" ELSE /\ reading'.pc = "done"
                                                  /\ reading'.result = Usable(reading'.of, reading'.collected)
        /\ reading' = [pc |-> reading'.pc, of |-> reading'.of, page |-> reading'.page,
                  fetched |-> reading'.fetched, asked |-> reading'.asked,
                  collected |-> reading'.collected, result |-> reading'.result,
                  changed |-> reading'.changed]
    BY <1>1
  <1> HIDE DEF r, done
  <1>5. FeedTyped'
    BY <1>0, <1>2, <1>3, <1>4 DEF FeedTyped, FeedTypeOK
  <1>6. ASSUME ~reading.changed PROVE PathIsFollowed'
    <2>1. PathIsFollowed
      BY <1>6 DEF FeedHolds
    <2>2. Led' = Led
      BY <1>0 DEF Led, GoesOn
    <2>3. \A s \in Led : reading'.asked \subseteq s /\ (goes => reading'.page \in s)
      BY <1>0, <1>4, <2>1 DEF PathIsFollowed, Led
    <2>4. reading'.collected = UNION {feed[q].items : q \in reading'.asked}
      BY <1>4, <2>1 DEF PathIsFollowed
    <2>5. /\ FirstPage \in reading'.asked
          /\ \A q \in reading'.asked : q = p \/ feed[q].next \in reading'.asked
      BY <1>0, <1>4, <2>1 DEF PathIsFollowed
    <2>6. ~GoesOn(p) => reading'.asked \in Led
      BY <1>0, <1>4, <2>5 DEF Led, FeedTypeOK
    <2>7. reading'.pc = "done" /\ reading'.fetched \in 1 .. (MaxPages - 1) => ~GoesOn(p)
      BY <1>0, <1>2, <1>4, FeedAssumption DEF FeedAssumption
    <2>8. QED
      BY <1>0, <1>4, <2>2, <2>3, <2>4, <2>5, <2>6, <2>7 DEF PathIsFollowed
  <1>7. reading'.pc = "done" => Passes(reading'.of, reading'.collected, reading'.result)
    BY <1>2, <1>4, UsablePasses
  <1>8. QED
    BY <1>4, <1>5, <1>6, <1>7 DEF FeedHolds, Passes

LEMMA FeedReadsFile == FeedHolds /\ ReadFile => FeedHolds'
  <1> SUFFICES ASSUME FeedHolds, ReadFile PROVE FeedHolds'
    OBVIOUS
  <1> DEFINE items == feed[FirstPage].items
  <1>0. /\ FeedTypeOK /\ reading.pc = "new" /\ ~InMajorUnits /\ reading.fetched = 0
        /\ FirstPage \in Pages /\ reading.of \in {"products", "prices"}
        /\ UNCHANGED <<feed, published>>
    BY FeedAssumption DEF ReadFile, FeedHolds, FeedTyped, FeedTypeOK, FeedAssumption
  <1>1. items \in SUBSET FeedItems
    BY <1>0 DEF FeedTypeOK, Page
  <1>2. CASE \A i \in items : WellShaped(reading.of, i)
    <2>1. /\ reading'.of = reading.of /\ reading'.page = reading.page
          /\ reading'.fetched = 0 /\ reading'.asked = {FirstPage}
          /\ reading'.collected = items /\ reading'.changed = reading.changed
          /\ reading'.pc = "done" /\ reading'.result = AsTheyAre(reading.of, items)
          /\ reading' = [pc |-> reading'.pc, of |-> reading'.of, page |-> reading'.page,
                  fetched |-> reading'.fetched, asked |-> reading'.asked,
                  collected |-> reading'.collected, result |-> reading'.result,
                  changed |-> reading'.changed]
      BY <1>0, <1>2 DEF ReadFile, FeedHolds, FeedTyped
    <2>2. FeedTyped'
      BY <1>0, <1>1, <2>1 DEF FeedTyped, FeedTypeOK
    <2>3. PathIsFollowed'
      BY <1>0, <2>1 DEF PathIsFollowed, Led
    <2>4. Passes(reading.of, items, AsTheyAre(reading.of, items))
      BY <1>0, <1>1, <1>2, FilePasses
    <2>5. QED
      BY <2>1, <2>2, <2>3, <2>4 DEF FeedHolds, Passes
  <1>3. CASE ~ \A i \in items : WellShaped(reading.of, i)
    <2>1. reading' = [reading EXCEPT !.pc = "failed"]
      BY <1>3 DEF ReadFile
    <2>2. QED
      BY <1>0, <2>1 DEF FeedHolds, FeedTyped, FeedTypeOK, PathIsFollowed, Led, GoesOn
  <1>4. QED
    BY <1>2, <1>3

LEMMA FeedKeeps ==
  ASSUME FeedHolds, [FeedNext]_feedVars
  PROVE  FeedHolds'
  <1>1. CASE StartReading
    BY <1>1 DEF StartReading, FeedHolds, FeedTyped, FeedTypeOK, PathIsFollowed, Led, GoesOn
  <1>2. CASE FetchFails
    BY <1>2 DEF FetchFails, FeedHolds, FeedTyped, FeedTypeOK, PathIsFollowed, Led, GoesOn
  <1>3. ASSUME NEW p \in Pages, NEW answer \in Page, Publish(p, answer)
        PROVE  FeedHolds'
    <2>1. /\ feed' \in [Pages -> Page] /\ published' \in 0 .. MaxPublished
      BY <1>3, FeedAssumption DEF FeedAssumption, FeedHolds, FeedTyped, FeedTypeOK, Publish
    <2>2. /\ reading'.of = reading.of /\ reading'.page = reading.page
          /\ reading'.fetched = reading.fetched /\ reading'.asked = reading.asked
          /\ reading'.collected = reading.collected /\ reading'.result = reading.result
          /\ reading'.pc = reading.pc /\ reading'.changed = (reading.changed \/ reading.pc # "new")
          /\ reading' = [pc |-> reading'.pc, of |-> reading'.of, page |-> reading'.page,
                  fetched |-> reading'.fetched, asked |-> reading'.asked,
                  collected |-> reading'.collected, result |-> reading'.result,
                  changed |-> reading'.changed]
      BY <1>3 DEF FeedHolds, FeedTyped, Publish
    <2>3. FeedTyped'
      BY <2>1, <2>2 DEF FeedHolds, FeedTyped, FeedTypeOK
    <2>4. reading.pc = "new" => PathIsFollowed'
      BY <2>2 DEF FeedHolds, PathIsFollowed, Led
    <2>5. QED
      BY <2>2, <2>3, <2>4 DEF FeedHolds, FeedTyped, FeedTypeOK, Passes
  <1>4. CASE UNCHANGED feedVars
    BY <1>4 DEF feedVars, FeedHolds, FeedTyped, FeedTypeOK, PathIsFollowed, Led, GoesOn
  <1>5. QED
    BY <1>1, <1>2, <1>3, <1>4, FeedFetches, FeedReadsFile DEF FeedNext

LEMMA FeedIsRight == FeedHolds => FeedTypeOK /\ FeedIsRead
  BY DEF FeedHolds, FeedTyped, PathIsFollowed, Passes, FeedIsRead

\* A feed is read as its pages lead on from the first, and priced to the
\* nearest cent, whatever it publishes, in either unit.
THEOREM FeedsAreRead == FeedSpec => []FeedIsRead
  BY FeedStarts, FeedKeeps, FeedIsRight, PTL DEF FeedSpec
=============================================================================
