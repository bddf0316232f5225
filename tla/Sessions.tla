------------------------------ MODULE Sessions ------------------------------
(***************************************************************************)
(* AuthService: sign-in with its lock after failed attempts, the rotation  *)
(* of refresh tokens, logout and the switch of the company.  No call opens *)
(* a transaction: each statement commits by itself, and a decision (is the *)
(* user locked, is the token revoked) is taken from a row read before.     *)
(*                                                                         *)
(* Access tokens are not stored and cannot be revoked, so a call that only *)
(* needs one (LogoutAll, SwitchCompany) may come at any time.  Passwords   *)
(* are right or wrong; devices, roles and companies are left out.          *)
(***************************************************************************)
EXTENDS Integers, FiniteSets

CONSTANTS
    Holders,     \* users
    Tokens,      \* ids of refresh tokens; bounds the tokens ever issued
    Doors,       \* goroutines serving calls, one at a time each
    MaxFailed,   \* MaxFailedLoginAttempts
    LockTime,    \* LockDuration
    Expiry,      \* RefreshTokenExpiry
    MaxNow,      \* bounds the clock
    MaxVisits,   \* bounds the calls ever begun
    Lossy,       \* whether statements may fail and calls be cut off
    NoToken, NoVisit

ASSUME TimesAssumption ==
    MaxFailed \in Nat \ {0} /\ LockTime \in Nat /\ Expiry \in Nat /\ MaxNow \in Nat
ASSUME VisitsAssumption == MaxVisits \in Nat /\ Lossy \in BOOLEAN
ASSUME NoTokenAssumption == NoToken \notin Tokens

VARIABLES
    acct,     \* core.users: the columns sign-in works with
    tokens,   \* core.refresh_tokens: id -> row
    now,      \* the clock
    at,       \* door -> the statement its call executes next
    visit,    \* door -> what its call has read
    visits,   \* calls begun so far
    wrong,    \* user -> wrong passwords since the last success (history)
    cuts      \* user -> LogoutAll statements so far (history)

sessionVars == <<acct, tokens, now, at, visit, visits, wrong, cuts>>

Account == [status : {"active", "inactive", "deleted"}, failed : Nat, lockedUntil : Nat]

\* History of a token: parent, the token it was exchanged for; root, the
\* LogoutAll count when the sign-in of its chain looked; late, whether a
\* LogoutAll overlapped a call of the chain; raced, whether the rows of the
\* user changed under the call that issued it; first, the token its chain
\* starts with.
Token == [user : Holders, revoked : BOOLEAN, expires : Nat,
          parent : Tokens \cup {NoToken}, root : Nat, late : BOOLEAN, raced : BOOLEAN,
          first : Tokens]

\* failed: FailedLoginCount as read; the rest as in Token.
Visit == [op : {"signIn", "google", "refresh", "switch"}, user : Holders, failed : Nat,
          parent : Tokens \cup {NoToken}, root : Nat, late : BOOLEAN, raced : BOOLEAN]

\* serial: no two sign-ins of the user overlapped and no statement was lost.
Wrong == [count : Nat, last : Nat, serial : BOOLEAN]

Doing == {"idle", "password", "increment", "lock", "login", "user", "revoke", "insert"}

ASSUME NothingAssumption == NoToken \notin Token /\ NoVisit \notin Visit

SessionsInit ==
    /\ acct = [u \in Holders |-> [status |-> "active", failed |-> 0, lockedUntil |-> 0]]
    /\ tokens = [t \in Tokens |-> NoToken]
    /\ now = 0
    /\ at = [d \in Doors |-> "idle"]
    /\ visit = [d \in Doors |-> NoVisit]
    /\ visits = 0
    /\ wrong = [u \in Holders |-> [count |-> 0, last |-> 0, serial |-> TRUE]]
    /\ cuts = [u \in Holders |-> 0]

-----------------------------------------------------------------------------
IsLocked(u) == now < acct[u].lockedUntil

Issued(t) == tokens[t] # NoToken

IsExpired(t) == now > tokens[t].expires

Usable(t) == Issued(t) /\ ~tokens[t].revoked /\ ~IsExpired(t)

\* WHERE deleted_at IS NULL
Present(u) == acct[u].status # "deleted"

SigningIn(d, u) == at[d] # "idle" /\ visit[d].op \in {"signIn", "google"} /\ visit[d].user = u

Counted == visits < MaxVisits /\ visits' = visits + 1

Enter(d, label, v) ==
    /\ at[d] = "idle"
    /\ Counted
    /\ at' = [at EXCEPT ![d] = label]
    /\ visit' = [visit EXCEPT ![d] = v]
    /\ UNCHANGED <<acct, tokens, now, cuts>>

Comes(op, u) ==
    [op |-> op, user |-> u, failed |-> acct[u].failed, parent |-> NoToken,
     root |-> cuts[u], late |-> FALSE, raced |-> FALSE]

Exchange(t) ==
    [op |-> "refresh", user |-> tokens[t].user, failed |-> acct[tokens[t].user].failed,
     parent |-> t, root |-> tokens[t].root, late |-> tokens[t].late, raced |-> FALSE]

\* History: a second sign-in beside a running one.
Overlaps(u) ==
    wrong' = [wrong EXCEPT ![u].serial = @ /\ \A d \in Doors : ~SigningIn(d, u)]

SignIn(d, u) ==
    /\ acct[u].status = "active"
    /\ ~IsLocked(u)
    /\ Enter(d, "password", Comes("signIn", u))
    /\ Overlaps(u)

\* A Google account that is linked already: no password, and no lock.
GoogleSignIn(d, u) ==
    /\ acct[u].status = "active"
    /\ Enter(d, "login", Comes("google", u))
    /\ Overlaps(u)

\* Mutant: a revoked token is exchanged like any other.
RefreshAnyway(d, t) ==
    /\ Issued(t)
    /\ ~IsExpired(t)
    /\ Enter(d, "user", Exchange(t))
    /\ UNCHANGED wrong

RefreshToken(d, t) ==
    /\ Usable(t)
    /\ Enter(d, "user", Exchange(t))
    /\ UNCHANGED wrong

\* A member of the company, whose account may be inactive.
SwitchCompany(d, u) ==
    /\ Present(u)
    /\ Enter(d, "insert", Comes("switch", u))
    /\ UNCHANGED wrong

-----------------------------------------------------------------------------
Go(d, label) ==
    /\ at' = [at EXCEPT ![d] = label]
    /\ UNCHANGED <<now, visits, cuts>>

\* The call returns.
Leave(d) ==
    /\ Go(d, "idle")
    /\ visit' = [visit EXCEPT ![d] = NoVisit]

Lose(u) == wrong' = [wrong EXCEPT ![u].serial = FALSE]

ComparePassword(d) ==
    /\ at[d] = "password"
    /\ \E next \in {"login", "increment"} : Go(d, next)
    /\ UNCHANGED <<acct, tokens, visit, wrong>>

\* Mutant: the attempt just counted is left out.
ExceedsLate(d) == visit[d].failed >= MaxFailed

\* FailedLoginCount+1 >= MaxFailedLoginAttempts, of the row read before.
Exceeds(d) == visit[d].failed + 1 >= MaxFailed

AfterIncrement(d) ==
    IF Exceeds(d) THEN Go(d, "lock") /\ UNCHANGED visit ELSE Leave(d)

IncrementFailedLogin(d) ==
    /\ at[d] = "increment"
    /\ LET u == visit[d].user
       IN  \/ /\ acct' = [acct EXCEPT ![u].failed = IF Present(u) THEN @ + 1 ELSE @]
              /\ wrong' = [wrong EXCEPT ![u] = [count |-> @.count + 1, last |-> now, serial |-> @.serial]]
           \/ Lossy /\ Lose(u) /\ UNCHANGED acct
    /\ AfterIncrement(d)
    /\ UNCHANGED tokens

LockUser(d) ==
    /\ at[d] = "lock"
    /\ LET u == visit[d].user
       IN  \/ /\ acct' = [acct EXCEPT ![u].lockedUntil = IF Present(u) THEN now + LockTime ELSE @]
              /\ UNCHANGED wrong
           \/ Lossy /\ Lose(u) /\ UNCHANGED acct
    /\ Leave(d)
    /\ UNCHANGED tokens

\* Clears the count and the lock.
UpdateLastLogin(d) ==
    /\ at[d] = "login"
    /\ LET u == visit[d].user
       IN  \/ /\ Present(u)
              /\ acct' = [acct EXCEPT ![u].failed = 0, ![u].lockedUntil = 0]
              /\ wrong' = [wrong EXCEPT ![u] =
                    [count |-> 0, last |-> 0,
                     serial |-> \A e \in Doors \ {d} : ~SigningIn(e, u)]]
           \/ (Lossy \/ ~Present(u)) /\ Lose(u) /\ UNCHANGED acct
    /\ Go(d, "insert")
    /\ UNCHANGED <<tokens, visit>>

\* FindByID
FindUser(d) ==
    /\ at[d] = "user"
    /\ IF acct[visit[d].user].status = "active"
       THEN Go(d, "revoke") /\ UNCHANGED visit
       ELSE Leave(d)
    /\ UNCHANGED <<acct, tokens, wrong>>

\* History: the rows of u changed under the other calls of the user.
Disturbed(d, u) ==
    [e \in Doors |-> IF e # d /\ visit[e] # NoVisit /\ visit[e].user = u
                     THEN [visit[e] EXCEPT !.raced = TRUE]
                     ELSE visit[e]]

\* Mutant: the old token stays.
RevokeNothing(d) ==
    /\ at[d] = "revoke"
    /\ visit' = Disturbed(d, visit[d].user)
    /\ Go(d, "insert")
    /\ UNCHANGED <<acct, tokens, wrong>>

\* Revoke of the token exchanged, whose error is ignored.
Revoke(d) ==
    /\ at[d] = "revoke"
    /\ \/ /\ tokens' = [tokens EXCEPT ![visit[d].parent].revoked = TRUE]
          /\ visit' = Disturbed(d, visit[d].user)
       \/ /\ Lossy
          /\ visit' = [visit EXCEPT ![d].raced = TRUE]
          /\ UNCHANGED tokens
    /\ Go(d, "insert")
    /\ UNCHANGED <<acct, wrong>>

\* RefreshTokenRepository.Create
Insert(d) ==
    /\ at[d] = "insert"
    /\ LET v == visit[d]
       IN  /\ \E t \in Tokens :
                 /\ ~Issued(t)
                 /\ tokens' = [tokens EXCEPT ![t] =
                       [user |-> v.user, revoked |-> FALSE, expires |-> now + Expiry,
                        parent |-> v.parent, root |-> v.root, late |-> v.late,
                        raced |-> v.raced,
                        first |-> IF v.parent = NoToken THEN t ELSE tokens[v.parent].first]]
           /\ visit' = [Disturbed(d, v.user) EXCEPT ![d] = NoVisit]
    /\ Go(d, "idle")
    /\ UNCHANGED <<acct, wrong>>

\* RevokeByTokenHash
Logout(t) ==
    /\ Issued(t)
    /\ Counted
    /\ tokens' = [tokens EXCEPT ![t].revoked = TRUE]
    /\ visit' = [d \in Doors |-> IF visit[d] # NoVisit /\ visit[d].user = tokens[t].user
                                 THEN [visit[d] EXCEPT !.raced = TRUE]
                                 ELSE visit[d]]
    /\ UNCHANGED <<acct, now, at, wrong, cuts>>

\* RevokeAllByUserID
LogoutAll(u) ==
    /\ Counted
    /\ tokens' = [t \in Tokens |-> IF Issued(t) /\ tokens[t].user = u
                                   THEN [tokens[t] EXCEPT !.revoked = TRUE]
                                   ELSE tokens[t]]
    /\ visit' = [d \in Doors |-> IF visit[d] # NoVisit /\ visit[d].user = u
                                 THEN [visit[d] EXCEPT !.raced = TRUE, !.late = TRUE]
                                 ELSE visit[d]]
    /\ cuts' = [cuts EXCEPT ![u] = @ + 1]
    /\ UNCHANGED <<acct, now, at, wrong>>

\* An error that is returned, or the end of the process.
Abandon(d) ==
    /\ Lossy
    /\ at[d] # "idle"
    /\ Lose(visit[d].user)
    /\ Leave(d)
    /\ UNCHANGED <<acct, tokens>>

\* UserService.Update and Delete, from elsewhere.
SetStatus(u) ==
    /\ Present(u)
    /\ Counted
    /\ \E s \in {"active", "inactive", "deleted"} : acct' = [acct EXCEPT ![u].status = s]
    /\ UNCHANGED <<tokens, now, at, visit, wrong, cuts>>

Tick ==
    /\ now < MaxNow
    /\ now' = now + 1
    /\ UNCHANGED <<acct, tokens, at, visit, visits, wrong, cuts>>

SessionCall(d) ==
    \/ \E u \in Holders : SignIn(d, u) \/ GoogleSignIn(d, u) \/ SwitchCompany(d, u)
    \/ \E t \in Tokens : RefreshToken(d, t)
    \/ ComparePassword(d) \/ IncrementFailedLogin(d) \/ LockUser(d) \/ UpdateLastLogin(d)
    \/ FindUser(d) \/ Revoke(d) \/ Insert(d) \/ Abandon(d)

SessionsNext ==
    \/ \E d \in Doors : SessionCall(d)
    \/ \E t \in Tokens : Logout(t)
    \/ \E u \in Holders : LogoutAll(u) \/ SetStatus(u)
    \/ Tick

SessionsSpec == SessionsInit /\ [][SessionsNext]_sessionVars

-----------------------------------------------------------------------------
(* Properties *)

\* Shape.
SessionsOK ==
    /\ acct \in [Holders -> Account]
    /\ tokens \in [Tokens -> Token \cup {NoToken}]
    /\ now \in 0 .. MaxNow
    /\ at \in [Doors -> Doing]
    /\ visit \in [Doors -> Visit \cup {NoVisit}]
    /\ \A d \in Doors : at[d] = "idle" <=> visit[d] = NoVisit
    /\ visits \in 0 .. MaxVisits
    /\ wrong \in [Holders -> Wrong]
    /\ cuts \in [Holders -> Nat]

\* After MaxFailedLoginAttempts wrong passwords without a success between them
\* the account is locked for LockDuration from the last one, as long as the
\* attempts came one at a time; each decides on a count read before
\* (auth.md:54, AuthService.SignIn).
LockHolds ==
    \A u \in Holders :
        wrong[u].serial /\ wrong[u].count >= MaxFailed /\ Present(u)
            /\ (\A d \in Doors : ~SigningIn(d, u))
        => acct[u].lockedUntil >= wrong[u].last + LockTime

\* LogoutAll ends every session: a token that can still be exchanged comes,
\* through however many refreshes, from a sign-in or a switch after the last
\* LogoutAll of its user, unless a LogoutAll fell between two statements of a
\* call of its chain (auth.md:547, AuthService.LogoutAll).
LogoutAllHolds ==
    \A t \in Tokens : Usable(t) /\ ~tokens[t].late => tokens[t].root = cuts[tokens[t].user]

\* A call that issued a token of this chain was raced.
Disputed(first) ==
    \E t \in Tokens : Issued(t) /\ tokens[t].raced /\ tokens[t].first = first

\* A refresh token is exchanged once: two tokens for the same one only if the
\* exchanges overlapped or a revocation was lost; and of all tokens that go
\* back to one sign-in only one is valid, unless a call that issued one of
\* them was raced (auth.md:506, AuthService.RefreshToken).
RotatedOnce ==
    \A s, t \in Tokens :
        s # t /\ Issued(s) /\ Issued(t) =>
            /\ tokens[s].parent = tokens[t].parent /\ tokens[s].parent # NoToken
               => tokens[s].raced \/ tokens[t].raced
            /\ tokens[s].first = tokens[t].first /\ ~tokens[s].revoked /\ ~tokens[t].revoked
               => Disputed(tokens[s].first)
=============================================================================
