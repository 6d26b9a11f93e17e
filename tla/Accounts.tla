------------------------------- MODULE Accounts -------------------------------
(***************************************************************************)
(* Accounts, the sessions opened on them and the codes emailed to reset    *)
(* their passwords: registering, signing in and out, exchanging a refresh  *)
(* token, changing a password and erasing an account, one step per await.  *)
(* An errand that is cut off is one that takes no further step.            *)
(*                                                                         *)
(* A password is the number of times the account has had a new one.  The   *)
(* model is of one hour, as far as the codes sent in it are counted.       *)
(***************************************************************************)
EXTENDS Naturals

CONSTANTS
    People,         \* accounts
    Members,        \* accounts that are there at the start
    Errands,         \* requests that may be under way at once
    Emails,
    NoEmail,
    Tickets,        \* refresh tokens
    NoTicket,
    CodeLimit,      \* MAX_RESET_REQUESTS_PER_HOUR
    MaxGuesses,     \* MAX_RESET_ATTEMPTS
    MaxErrands       \* bound on the requests

ASSUME AccountsAssumption ==
    /\ Members \subseteq People
    /\ NoEmail \notin Emails /\ NoTicket \notin Tickets
    /\ CodeLimit \in Nat /\ MaxGuesses \in Nat /\ MaxErrands \in Nat

VARIABLES
    user,           \* for each account, its row in users
    session,        \* for each refresh token, its row in refresh_tokens
    code,           \* for each account, the last code sent, and how many were
    errand,         \* requests on their way
    expected,       \* requests that may still come
    shared,         \* refresh tokens two errands exchanged at once
    rushed          \* accounts whose codes two errands used at once

accountVars == <<user, session, code, errand, expected, shared, rushed>>

User == [state : {"NONE", "ACTIVE", "ERASED"}, email : Emails \cup {NoEmail}, password : Nat]
NoUser == [state |-> "NONE", email |-> NoEmail, password |-> 0]

\* What a session rests on: the password it was opened with, or the session
\* of the token it was exchanged for.  late: it was on its way when the
\* account's sessions were ended.
RefreshToken == [state : {"NONE", "LIVE", "REVOKED", "ENDED"}, of : People, password : Nat,
                 from : Tickets \cup {NoTicket}, late : BOOLEAN]

\* spent counts the passwords set with the code.
ResetCode == [number : Nat, state : {"NONE", "OPEN", "USED"}, guesses : Nat, spent : Nat]
NoCode == [number |-> 0, state |-> "NONE", guesses |-> 0, spent |-> 0]

Exchanging == {"holder", "rotate"}
Changing == {"change", "used", "end"}
Waiting == [pc |-> "new"]

AccountsTypeOK ==
    /\ \A u \in People : user[u] \in User /\ code[u] \in ResetCode
    /\ \A s \in Tickets : session[s] \in RefreshToken
    /\ \A v \in Errands : errand[v].pc \in Exchanging \cup Changing
                           \cup {"new", "create", "issue", "leave", "breach", "send", "wrong", "erase"}
    /\ expected \in 0 .. MaxErrands
    /\ shared \subseteq Tickets /\ rushed \subseteq People

AccountsInit ==
    /\ \E emails \in [Members -> Emails] :
         /\ \A t, u \in Members : emails[t] = emails[u] => t = u
         /\ user = [u \in People |-> IF u \in Members
                                     THEN [state |-> "ACTIVE", email |-> emails[u], password |-> 0]
                                     ELSE NoUser]
    /\ \E anyone \in People :
         session = [s \in Tickets |-> [state |-> "NONE", of |-> anyone, password |-> 0,
                                       from |-> NoTicket, late |-> FALSE]]
    /\ code = [u \in People |-> NoCode]
    /\ errand = [v \in Errands |-> Waiting] /\ expected = MaxErrands
    /\ shared = {} /\ rushed = {}

Active(u) == user[u].state = "ACTIVE"

\* An errand about an account, which has read its password.
About(u, pc) == [pc |-> pc, of |-> u, password |-> user[u].password, ticket |-> NoTicket,
                 code |-> 0, late |-> FALSE]
Begins(v, what) ==
    /\ errand[v].pc = "new" /\ expected > 0
    /\ errand' = [errand EXCEPT ![v] = what] /\ expected' = expected - 1
On(v, pc) == errand' = [errand EXCEPT ![v].pc = pc] /\ UNCHANGED expected
Gone(v) == errand' = [errand EXCEPT ![v] = Waiting] /\ UNCHANGED expected
marks == <<shared, rushed>>

\* Errands on their way for an account.
For(u) == {v \in Errands : errand[v].pc \notin {"new", "create"} /\ errand[v].of = u}

\* endAllForUser and the erasure delete an account's tokens.
Ended(u) == [s \in Tickets |-> IF session[s].of = u /\ session[s].state # "NONE"
                               THEN [session[s] EXCEPT !.state = "ENDED"] ELSE session[s]]
\* An errand on its way with a password that is none by now is late.
Overtaken(u, v, next) ==
    [w \in Errands |->
        IF w = v THEN next
        ELSE IF w \in For(u) /\ errand[w].password # user[u].password
             THEN [errand[w] EXCEPT !.late = TRUE] ELSE errand[w]]

-----------------------------------------------------------------------------
(***************************************************************************)
(* RegisterUseCase: the password is hashed between the look and the row.   *)
(***************************************************************************)
Register(v, email) ==
    /\ \A u \in People : user[u].email # email
    /\ Begins(v, [pc |-> "create", email |-> email])
    /\ UNCHANGED <<user, session, code, marks>>

CreateUser(v) ==
    /\ errand[v].pc = "create"
    /\ IF \E u \in People : user[u].email = errand[v].email
       THEN Gone(v) /\ UNCHANGED user
       ELSE \E u \in People :
              /\ user[u].state = "NONE"
              /\ user' = [user EXCEPT ![u] = [state |-> "ACTIVE", email |-> errand[v].email, password |-> 0]]
              /\ errand' = [errand EXCEPT ![v] = [pc |-> "issue", of |-> u, password |-> 0,
                                ticket |-> NoTicket, code |-> 0, late |-> FALSE]]
              /\ UNCHANGED expected
    /\ UNCHANGED <<session, code, marks>>

\* LoginUseCase: a wrong password, or an account that is erased, gets no further.
Login(v, u) ==
    /\ Active(u) /\ Begins(v, About(u, "issue"))
    /\ UNCHANGED <<user, session, code, marks>>

\* IssueTokenPairService.issue.
Issue(v) ==
    /\ errand[v].pc = "issue"
    /\ \E s \in Tickets :
         /\ session[s].state = "NONE"
         /\ session' = [session EXCEPT ![s] =
              [state |-> "LIVE", of |-> errand[v].of, password |-> errand[v].password,
               from |-> errand[v].ticket, late |-> errand[v].late]]
    /\ Gone(v)
    /\ UNCHANGED <<user, code, marks>>

-----------------------------------------------------------------------------
(***************************************************************************)
(* RefreshTokensUseCase.  A token that has lapsed, or is not there, goes   *)
(* no further.                                                             *)
(***************************************************************************)
Holding(v, s) == errand[v].pc \in Exchanging \cup {"issue"} /\ errand[v].ticket = s

Refresh(v, s) ==
    /\ session[s].state \in {"LIVE", "REVOKED"}
    /\ Begins(v, [pc |-> IF session[s].state = "LIVE" THEN "holder" ELSE "breach",
                  of |-> session[s].of, password |-> session[s].password, ticket |-> s,
                  code |-> 0, late |-> session[s].late])
    /\ shared' = IF session[s].state = "LIVE" /\ \E w \in Errands : Holding(w, s)
                 THEN shared \cup {s} ELSE shared
    /\ UNCHANGED <<user, session, code, rushed>>

FindHolder(v) ==
    /\ errand[v].pc = "holder"
    /\ IF Active(errand[v].of) THEN On(v, "rotate") ELSE Gone(v)
    /\ UNCHANGED <<user, session, code, marks>>

\* revokeById fails if the row was deleted meanwhile.
Revoked(s) == session' = [session EXCEPT ![s].state = IF @ = "ENDED" THEN @ ELSE "REVOKED"]

Rotate(v) ==
    /\ errand[v].pc = "rotate"
    /\ Revoked(errand[v].ticket)
    /\ IF session[errand[v].ticket].state = "ENDED" THEN Gone(v) ELSE On(v, "issue")
    /\ UNCHANGED <<user, code, marks>>

\* A token that was exchanged before: every session of the account is revoked.
RevokeAll(v) ==
    /\ errand[v].pc = "breach"
    /\ session' = [s \in Tickets |-> IF session[s].of = errand[v].of /\ session[s].state = "LIVE"
                                     THEN [session[s] EXCEPT !.state = "REVOKED"] ELSE session[s]]
    /\ Gone(v)
    /\ UNCHANGED <<user, code, marks>>

\* LogoutUseCase.
Logout(v, s) ==
    /\ session[s].state = "LIVE"
    /\ Begins(v, [pc |-> "leave", of |-> session[s].of, password |-> session[s].password,
                  ticket |-> s, code |-> 0, late |-> FALSE])
    /\ UNCHANGED <<user, session, code, marks>>

Leave(v) ==
    /\ errand[v].pc = "leave"
    /\ Revoked(errand[v].ticket) /\ Gone(v)
    /\ UNCHANGED <<user, code, marks>>

-----------------------------------------------------------------------------
(***************************************************************************)
(* PasswordResetUseCase and AccountSecurityUseCase.                        *)
(***************************************************************************)
\* A code holds for the account it was sent to, and its row goes with it.
CodeHolds(u) == code[u].state = "OPEN" /\ code[u].guesses < MaxGuesses

\* Errands that hold the account's code as they read it.
Using(u) == {v \in For(u) : /\ errand[v].pc \in {"wrong", "change", "used"}
                            /\ errand[v].code = code[u].number}
Rushing(u, others) == rushed' = IF others # {} THEN rushed \cup {u} ELSE rushed

AskForResetCode(v, u) ==
    /\ Active(u) /\ code[u].number < CodeLimit
    /\ Begins(v, About(u, "send"))
    /\ Rushing(u, {w \in For(u) : errand[w].pc = "send"})
    /\ UNCHANGED <<user, session, code, shared>>

SendCode(v) ==
    /\ errand[v].pc = "send"
    /\ code' = [code EXCEPT ![errand[v].of] = [number |-> @.number + 1, state |-> "OPEN",
                                              guesses |-> 0, spent |-> 0]]
    /\ Gone(v)
    /\ UNCHANGED <<user, session, marks>>

Reset(v, u, pc) ==
    /\ Active(u) /\ CodeHolds(u)
    /\ Begins(v, [About(u, pc) EXCEPT !.code = code[u].number])
    /\ Rushing(u, Using(u))
    /\ UNCHANGED <<user, session, code, shared>>

\* A row other than the last is no longer looked at.
Held(v) == errand[v].code = code[errand[v].of].number /\ code[errand[v].of].state # "NONE"

RecordFailedAttempt(v) ==
    /\ errand[v].pc = "wrong"
    /\ code' = IF Held(v) THEN [code EXCEPT ![errand[v].of].guesses = @ + 1] ELSE code
    /\ Gone(v)
    /\ UNCHANGED <<user, session, marks>>

ChangePassword(v, u) ==
    /\ Active(u) /\ Begins(v, About(u, "change"))
    /\ UNCHANGED <<user, session, code, marks>>

UpdatePasswordHash(v) ==
    /\ errand[v].pc = "change"
    /\ LET u == errand[v].of IN
         /\ user' = [user EXCEPT ![u].password = @ + 1]
         /\ code' = IF errand[v].code # 0 /\ Held(v) THEN [code EXCEPT ![u].spent = @ + 1] ELSE code
         /\ errand' = [errand EXCEPT ![v] =
              [@ EXCEPT !.pc = IF errand[v].code # 0 THEN "used" ELSE "end",
                        !.password = user[u].password + 1, !.late = ~Active(u)]]
    /\ UNCHANGED <<session, expected, marks>>

\* Fails if the code went with its account.
MarkUsed(v) ==
    /\ errand[v].pc = "used"
    /\ code' = IF Held(v) THEN [code EXCEPT ![errand[v].of].state = "USED"] ELSE code
    /\ IF Active(errand[v].of) THEN On(v, "end") ELSE Gone(v)
    /\ UNCHANGED <<user, session, marks>>

EndAll(v) ==
    /\ errand[v].pc = "end"
    /\ session' = Ended(errand[v].of)
    /\ errand' = Overtaken(errand[v].of, v, IF errand[v].code # 0 THEN Waiting
                                         ELSE [errand[v] EXCEPT !.pc = "issue"])
    /\ UNCHANGED <<user, code, expected, marks>>

SignOutEverywhere(u) ==
    /\ session' = Ended(u)
    /\ UNCHANGED <<user, code, errand, expected, marks>>

-----------------------------------------------------------------------------
(***************************************************************************)
(* DeleteAccountUseCase.  The row stays, with an email nobody has.         *)
(***************************************************************************)
Delete(v, u) ==
    /\ Active(u) /\ Begins(v, About(u, "erase"))
    /\ UNCHANGED <<user, session, code, marks>>

Erase(v) ==
    /\ errand[v].pc = "erase"
    /\ LET u == errand[v].of IN
         /\ user' = [user EXCEPT ![u] = [@ EXCEPT !.state = "ERASED", !.email = NoEmail]]
         /\ session' = Ended(u)
         /\ code' = [code EXCEPT ![u].state = "NONE"]
         /\ errand' = [w \in Errands |-> IF w = v THEN Waiting
                                       ELSE IF w \in For(u) THEN [errand[w] EXCEPT !.late = TRUE]
                                       ELSE errand[w]]
    /\ UNCHANGED <<expected, marks>>

-----------------------------------------------------------------------------
ErrandStep(v) ==
    \/ CreateUser(v) \/ Issue(v) \/ FindHolder(v) \/ Rotate(v) \/ RevokeAll(v) \/ Leave(v)
    \/ SendCode(v) \/ RecordFailedAttempt(v) \/ UpdatePasswordHash(v) \/ MarkUsed(v)
    \/ EndAll(v) \/ Erase(v)

Asks(v) ==
    \/ \E email \in Emails : Register(v, email)
    \/ \E s \in Tickets : Refresh(v, s) \/ Logout(v, s)
    \/ \E u \in People :
         \/ Login(v, u) \/ ChangePassword(v, u) \/ Delete(v, u) \/ AskForResetCode(v, u)
         \/ \E pc \in {"wrong", "change"} : Reset(v, u, pc)

AccountsNext ==
    \/ \E v \in Errands : ErrandStep(v) \/ Asks(v)
    \/ \E u \in People : SignOutEverywhere(u)

AccountsSpec == AccountsInit /\ [][AccountsNext]_accountVars

-----------------------------------------------------------------------------
(***************************************************************************)
(* Properties.                                                             *)
(***************************************************************************)
\* An errand that has set a password and is about to end the sessions.
Closing(u) == {v \in For(u) : errand[v].pc \in {"used", "end"}}

\* A session that works rests on the password the account has now, and on an
\* account that is there; or the password was set this moment, by an errand that
\* has yet to end the sessions; or it was on its way when they were ended.
SessionsRestOnThePassword ==
    \A s \in Tickets : LET row == session[s] IN
        row.state = "LIVE" /\ ~row.late =>
            \/ Active(row.of) /\ row.password = user[row.of].password
            \/ Closing(row.of) # {}

\* A token is exchanged once, unless two exchanged it at once.
TokensAreExchangedOnce ==
    \A s, t \in Tickets :
        s # t /\ session[s].from = session[t].from /\ session[s].from # NoTicket
        => session[s].from \in shared

\* No more codes than an hour allows, no more guesses than a code survives and
\* one password for each code, unless two errands used them at once.
CodesAreLimited ==
    \A u \in People \ rushed :
        code[u].number <= CodeLimit /\ code[u].guesses <= MaxGuesses /\ code[u].spent <= 1
=============================================================================
