--------------------------- MODULE Sessions_proofs ---------------------------
(***************************************************************************)
(* SessionsOK, LogoutAllHolds, RotatedOnce and LockHolds for any users,    *)
(* tokens, calls and times.                                                *)
(***************************************************************************)
EXTENDS Sessions, TLAPS

USE TimesAssumption, VisitsAssumption, NoTokenAssumption, NothingAssumption

\* A refresh is of a token issued to its user; a sign-in has none.
Parent(d) ==
    /\ at[d] \in {"password", "increment", "lock"} => visit[d].op = "signIn"
    /\ at[d] \in {"password", "increment", "lock", "login"} => visit[d].parent = NoToken
    /\ at[d] \in {"user", "revoke"} => visit[d].parent # NoToken
    /\ visit[d] # NoVisit /\ visit[d].parent # NoToken
       => Issued(visit[d].parent) /\ tokens[visit[d].parent].user = visit[d].user

TInv == SessionsOK /\ \A d \in Doors : Parent(d)

---------------------------------------------------------------------------
(* The shape. *)

LEMMA TInit == SessionsInit => TInv
<1> SUFFICES ASSUME SessionsInit PROVE TInv
  OBVIOUS
<1>1. SessionsOK
  BY DEF SessionsInit, SessionsOK, Account, Wrong, Doing
<1>2. \A d \in Doors : Parent(d)
  BY DEF SessionsInit, Parent
<1> QED BY <1>1, <1>2 DEF TInv

LEMMA VisitFields ==
    ASSUME TInv, NEW d \in Doors, at[d] # "idle"
    PROVE  /\ visit[d] \in Visit /\ visit[d] # NoVisit
           /\ visit[d].op \in {"signIn", "google", "refresh", "switch"}
           /\ visit[d].user \in Holders /\ visit[d].failed \in Nat
           /\ visit[d].parent \in Tokens \cup {NoToken} /\ visit[d].root \in Nat
           /\ visit[d].late \in BOOLEAN /\ visit[d].raced \in BOOLEAN
BY DEF TInv, SessionsOK, Visit

LEMMA TokenFields ==
    ASSUME TInv, NEW t \in Tokens, Issued(t)
    PROVE  /\ tokens[t] \in Token /\ tokens[t] # NoToken
           /\ tokens[t].user \in Holders /\ tokens[t].revoked \in BOOLEAN
           /\ tokens[t].expires \in Nat /\ tokens[t].parent \in Tokens \cup {NoToken}
           /\ tokens[t].root \in Nat /\ tokens[t].late \in BOOLEAN /\ tokens[t].raced \in BOOLEAN
           /\ tokens[t].first \in Tokens
BY DEF TInv, SessionsOK, Issued, Token

\* A call goes on, or is only told of what happened beside it.
Goes(d) ==
    /\ visit'[d] \in Visit /\ visit[d] \in Visit
    /\ visit'[d].op = visit[d].op /\ visit'[d].user = visit[d].user
    /\ visit'[d].failed = visit[d].failed /\ visit'[d].parent = visit[d].parent
    /\ visit'[d].root = visit[d].root
    /\ visit[d].late => visit'[d].late
    /\ visit[d].raced => visit'[d].raced

Marked(d, v) ==
    visit[d] \in Visit /\ (v = visit[d] \/ v = [visit[d] EXCEPT !.raced = TRUE]
                           \/ v = [visit[d] EXCEPT !.raced = TRUE, !.late = TRUE])

LEMMA MarkedGoes ==
    ASSUME NEW d \in Doors, Marked(d, visit'[d])
    PROVE  Goes(d)
BY DEF Marked, Goes, Visit

\* The rows only gain tokens and lose validity.
Kept(t) ==
    /\ tokens'[t] \in Token
    /\ tokens'[t].user = tokens[t].user /\ tokens'[t].expires = tokens[t].expires
    /\ tokens'[t].parent = tokens[t].parent /\ tokens'[t].root = tokens[t].root
    /\ tokens'[t].late = tokens[t].late /\ tokens'[t].raced = tokens[t].raced
    /\ tokens'[t].first = tokens[t].first
    /\ tokens[t].revoked => tokens'[t].revoked

\* The labels a call that stays may go to next.
Leads(a, b) ==
    \/ b = a \/ b = "insert"
    \/ a = "password" /\ b \in {"login", "increment"}
    \/ a = "increment" /\ b = "lock"
    \/ a = "user" /\ b = "revoke"

\* Parent of a call that goes on.
LEMMA ParentGoes ==
    ASSUME TInv, NEW d \in Doors, Goes(d), \A t \in Tokens : Issued(t) => Kept(t),
           Leads(at[d], at'[d])
    PROVE  Parent(d)'
<1>1. visit[d] # NoVisit /\ visit'[d] # NoVisit /\ visit[d].parent \in Tokens \cup {NoToken}
  BY DEF Goes, Visit
<1>2. visit[d].parent # NoToken => /\ tokens'[visit[d].parent] # NoToken
                                   /\ tokens'[visit[d].parent].user = visit[d].user
  BY <1>1 DEF TInv, Parent, Kept, Issued
<1> QED BY <1>1, <1>2 DEF TInv, Parent, Goes, Issued, Leads

LEMMA ParentIdle ==
    ASSUME NEW d \in Doors, at'[d] = "idle", visit'[d] = NoVisit
    PROVE  Parent(d)'
BY DEF Parent

\* A step of one call that touches no token: what the invariants on tokens
\* need to know of it.
Calm ==
    /\ UNCHANGED <<tokens, cuts>>
    /\ \A d \in Doors : \/ visit'[d] = NoVisit /\ at'[d] = "idle"
                        \/ /\ visit'[d] = visit[d] /\ Leads(at[d], at'[d])
                           /\ at'[d] = "insert" => at[d] \in {"insert", "login"}

LEMMA CalmT ==
    ASSUME TInv, NEW c \in Doors, at[c] # "idle", NEW l \in Doing,
           at' = [at EXCEPT ![c] = l],
           \/ l = "idle" /\ visit' = [visit EXCEPT ![c] = NoVisit]
           \/ l # "idle" /\ visit' = visit /\ Leads(at[c], l)
              /\ (l = "insert" => at[c] = "login"),
           UNCHANGED <<tokens, now, visits, cuts>>,
           acct' \in [Holders -> Account], wrong' \in [Holders -> Wrong]
    PROVE  TInv' /\ Calm
<1>1. /\ at' \in [Doors -> Doing] /\ visit' \in [Doors -> Visit \cup {NoVisit}]
      /\ \A d \in Doors : at'[d] = "idle" <=> visit'[d] = NoVisit
  BY DEF TInv, SessionsOK
<1>2. SessionsOK'
  BY <1>1 DEF TInv, SessionsOK
<1>3. \A t \in Tokens : Issued(t) => Kept(t)
  BY TokenFields DEF Kept
<1>4. ASSUME NEW d \in Doors PROVE Parent(d)'
  <2>1. CASE visit'[d] = NoVisit
    BY <1>1, <2>1, ParentIdle
  <2>2. CASE visit'[d] # NoVisit
    <3>1. visit'[d] = visit[d] /\ visit[d] \in Visit
      BY <2>2 DEF TInv, SessionsOK
    <3>2. Goes(d)
      BY <3>1 DEF Goes
    <3>3. Leads(at[d], at'[d])
      BY <2>2 DEF TInv, SessionsOK, Leads
    <3> QED BY <1>3, <3>2, <3>3, ParentGoes
  <2> QED BY <2>1, <2>2
<1>5. Calm
  BY <1>1 DEF Calm, Leads, TInv, SessionsOK
<1> QED BY <1>2, <1>4, <1>5 DEF TInv

LEMMA StatementCalm ==
    ASSUME TInv, NEW c \in Doors,
           \/ ComparePassword(c) \/ IncrementFailedLogin(c) \/ LockUser(c)
           \/ UpdateLastLogin(c) \/ FindUser(c) \/ Abandon(c)
    PROVE  TInv' /\ Calm
<1>1. acct \in [Holders -> Account] /\ wrong \in [Holders -> Wrong] /\ now \in Nat
  BY DEF TInv, SessionsOK
<1>2. CASE ComparePassword(c)
  <2>1. PICK l \in {"login", "increment"} : Go(c, l)
    BY <1>2 DEF ComparePassword
  <2> QED BY <1>1, <1>2, <2>1, CalmT DEF ComparePassword, Go, Doing, Leads
<1>3. CASE IncrementFailedLogin(c)
  <2> DEFINE u == visit[c].user
  <2>1. at[c] = "increment" /\ u \in Holders
    BY <1>3, VisitFields DEF IncrementFailedLogin
  <2>2. acct' \in [Holders -> Account]
    <3>1. acct[u] \in Account
      BY <1>1, <2>1
    <3>2. [acct[u] EXCEPT !.failed = IF Present(u) THEN @ + 1 ELSE @] \in Account
      BY <3>1 DEF Account
    <3> QED BY <1>1, <1>3, <2>1, <3>2 DEF IncrementFailedLogin
  <2>3. wrong' \in [Holders -> Wrong]
    <3>1. wrong[u] \in Wrong
      BY <1>1, <2>1
    <3>2. wrong[u].count \in Nat /\ wrong[u].last \in Nat /\ wrong[u].serial \in BOOLEAN
      BY <3>1 DEF Wrong
    <3>3. [count |-> wrong[u].count + 1, last |-> now, serial |-> wrong[u].serial] \in Wrong
      BY <1>1, <3>2 DEF Wrong
    <3>4. [wrong[u] EXCEPT !.serial = FALSE] \in Wrong
      BY <3>1 DEF Wrong
    <3>5. \/ wrong' = [wrong EXCEPT ![u] = [count |-> wrong[u].count + 1, last |-> now, serial |-> wrong[u].serial]]
          \/ wrong' = [wrong EXCEPT ![u] = [wrong[u] EXCEPT !.serial = FALSE]]
      BY <1>1, <1>3, <2>1 DEF IncrementFailedLogin, Lose
    <3> QED BY <1>1, <2>1, <3>3, <3>4, <3>5
  <2>4. UNCHANGED <<tokens, now, visits, cuts>>
    BY <1>3 DEF IncrementFailedLogin, AfterIncrement, Leave, Go
  <2>5. CASE Exceeds(c)
    BY <1>3, <2>1, <2>2, <2>3, <2>4, <2>5, CalmT
       DEF IncrementFailedLogin, AfterIncrement, Go, Doing, Leads
  <2>6. CASE ~Exceeds(c)
    BY <1>3, <2>1, <2>2, <2>3, <2>4, <2>6, CalmT
       DEF IncrementFailedLogin, AfterIncrement, Leave, Go, Doing
  <2> QED BY <2>5, <2>6
<1>4. CASE LockUser(c)
  <2> DEFINE u == visit[c].user
  <2>1. at[c] = "lock" /\ u \in Holders
    BY <1>4, VisitFields DEF LockUser
  <2>2. acct' \in [Holders -> Account]
    <3>1. acct[u] \in Account
      BY <1>1, <2>1
    <3>2. [acct[u] EXCEPT !.lockedUntil = IF Present(u) THEN now + LockTime ELSE @] \in Account
      BY <1>1, <3>1 DEF Account
    <3> QED BY <1>1, <1>4, <2>1, <3>2 DEF LockUser
  <2>3. wrong' \in [Holders -> Wrong]
    BY <1>1, <1>4, <2>1 DEF LockUser, Lose, Wrong
  <2> QED BY <1>4, <2>1, <2>2, <2>3, CalmT DEF LockUser, Leave, Go, Doing
<1>5. CASE UpdateLastLogin(c)
  <2> DEFINE u == visit[c].user
  <2>1. at[c] = "login" /\ u \in Holders
    BY <1>5, VisitFields DEF UpdateLastLogin
  <2>2. acct' \in [Holders -> Account]
    <3>1. acct[u] \in Account
      BY <1>1, <2>1
    <3>2. [acct[u] EXCEPT !.failed = 0, !.lockedUntil = 0] \in Account
      BY <3>1 DEF Account
    <3> QED BY <1>1, <1>5, <2>1, <3>2 DEF UpdateLastLogin
  <2>3. wrong' \in [Holders -> Wrong]
    <3> DEFINE w == [count |-> 0, last |-> 0, serial |-> \A e \in Doors \ {c} : ~SigningIn(e, u)]
    <3>1. w \in Wrong /\ [wrong[u] EXCEPT !.serial = FALSE] \in Wrong
      BY <1>1, <2>1 DEF Wrong
    <3>2. wrong' = [wrong EXCEPT ![u] = w] \/ wrong' = [wrong EXCEPT ![u].serial = FALSE]
      BY <1>5 DEF UpdateLastLogin, Lose
    <3> HIDE DEF w
    <3> QED BY <1>1, <2>1, <3>1, <3>2
  <2> QED BY <1>5, <2>1, <2>2, <2>3, CalmT DEF UpdateLastLogin, Go, Doing, Leads
<1>6. CASE FindUser(c)
  <2>1. at[c] = "user" /\ UNCHANGED <<tokens, now, visits, cuts, acct, wrong>>
    BY <1>6 DEF FindUser, Go, Leave
  <2>2. CASE acct[visit[c].user].status = "active"
    BY <1>1, <1>6, <2>1, <2>2, CalmT DEF FindUser, Go, Doing, Leads
  <2>3. CASE acct[visit[c].user].status # "active"
    BY <1>1, <1>6, <2>1, <2>3, CalmT DEF FindUser, Leave, Go, Doing
  <2> QED BY <2>2, <2>3
<1>7. CASE Abandon(c)
  <2>1. at[c] # "idle" /\ visit[c].user \in Holders
    BY <1>7, VisitFields DEF Abandon
  <2>2. wrong' \in [Holders -> Wrong]
    BY <1>1, <1>7, <2>1 DEF Abandon, Lose, Wrong
  <2> QED BY <1>1, <1>7, <2>1, <2>2, CalmT DEF Abandon, Leave, Go, Doing
<1> QED BY <1>2, <1>3, <1>4, <1>5, <1>6, <1>7

\* A call begins.
LEMMA EnterT ==
    ASSUME TInv, NEW c \in Doors, NEW l \in Doing \ {"idle"}, NEW v \in Visit,
           Enter(c, l, v), Parent(c)', wrong' \in [Holders -> Wrong]
    PROVE  TInv'
<1>1. SessionsOK'
  <2>1. visits' \in 0 .. MaxVisits
    BY DEF Enter, Counted, TInv, SessionsOK
  <2>2. at' \in [Doors -> Doing] /\ visit' \in [Doors -> Visit \cup {NoVisit}]
    BY DEF Enter, TInv, SessionsOK
  <2>3. \A d \in Doors : at'[d] = "idle" <=> visit'[d] = NoVisit
    BY DEF Enter, TInv, SessionsOK
  <2> QED BY <2>1, <2>2, <2>3 DEF Enter, TInv, SessionsOK
<1>2. ASSUME NEW d \in Doors PROVE Parent(d)'
  <2>1. CASE d = c
    BY <2>1
  <2>2. CASE d # c
    <3>1. visit'[d] = visit[d] /\ at'[d] = at[d] /\ tokens' = tokens
      BY <2>2 DEF Enter, TInv, SessionsOK
    <3> QED BY <3>1 DEF TInv, Parent, Issued
  <2> QED BY <2>1, <2>2
<1> QED BY <1>1, <1>2 DEF TInv

\* What a call starts from.
LEMMA ComesVisit ==
    ASSUME TInv, NEW u \in Holders, NEW op \in {"signIn", "google", "refresh", "switch"}
    PROVE  Comes(op, u) \in Visit
BY DEF TInv, SessionsOK, Comes, Visit, Account

LEMMA ExchangeVisit ==
    ASSUME TInv, NEW t \in Tokens, NEW d \in Doors, RefreshToken(d, t)
    PROVE  Exchange(t) \in Visit /\ Enter(d, "user", Exchange(t)) /\ Usable(t)
<1>1. Usable(t) /\ Issued(t)
  BY DEF RefreshToken, Usable
<1>2. acct[tokens[t].user].failed \in Nat
  BY <1>1, TokenFields DEF TInv, SessionsOK, Account
<1>3. Exchange(t) \in Visit
  BY <1>1, <1>2, TokenFields DEF Exchange, Visit
<1>4. Enter(d, "user", Exchange(t))
  BY DEF RefreshToken
<1> QED BY <1>1, <1>3, <1>4

LEMMA OverlapsWrong ==
    ASSUME TInv, NEW u \in Holders, Overlaps(u)
    PROVE  wrong' \in [Holders -> Wrong]
<1> DEFINE b == wrong[u].serial /\ \A d \in Doors : ~SigningIn(d, u)
<1>1. wrong \in [Holders -> Wrong] /\ wrong[u] \in Wrong
  BY DEF TInv, SessionsOK
<1>2. wrong' = [wrong EXCEPT ![u].serial = b]
  BY DEF Overlaps
<1>3. b \in BOOLEAN
  OBVIOUS
<1> HIDE DEF b
<1>4. [wrong[u] EXCEPT !.serial = b] \in Wrong
  BY <1>1, <1>3 DEF Wrong
<1> QED BY <1>1, <1>2, <1>4

\* The calls that begin, with what they begin from.
Begins(c, l, v) ==
    /\ v \in Visit /\ Enter(c, l, v)
    /\ \/ v.parent = NoToken /\ ~v.late /\ v.root = cuts[v.user] /\ l # "user"
       \/ /\ v.parent \in Tokens /\ Usable(v.parent) /\ l = "user"
          /\ v.user = tokens[v.parent].user
          /\ v.root = tokens[v.parent].root /\ v.late = tokens[v.parent].late

LEMMA BeginT ==
    ASSUME TInv, NEW c \in Doors,
           \/ \E u \in Holders : SignIn(c, u) \/ GoogleSignIn(c, u) \/ SwitchCompany(c, u)
           \/ \E t \in Tokens : RefreshToken(c, t)
    PROVE  TInv' /\ \E l \in Doing, v \in Visit : Begins(c, l, v)
<1>1. ASSUME NEW u \in Holders, NEW op \in {"signIn", "google", "switch"},
             NEW l \in {"password", "login", "insert"}, Enter(c, l, Comes(op, u)),
             wrong' \in [Holders -> Wrong], l = "password" => op = "signIn"
      PROVE  TInv' /\ Begins(c, l, Comes(op, u))
  <2>1. Comes(op, u) \in Visit
    BY ComesVisit
  <2>2. visit'[c] = Comes(op, u) /\ at'[c] = l
    BY <1>1 DEF Enter, TInv, SessionsOK
  <2>3. Parent(c)'
    BY <1>1, <2>2 DEF Parent, Comes
  <2>4. l \in Doing \ {"idle"}
    BY DEF Doing
  <2>5. TInv'
    BY <1>1, <2>1, <2>3, <2>4, EnterT
  <2>6. Begins(c, l, Comes(op, u))
    BY <1>1, <2>1 DEF Begins, Comes
  <2> QED BY <2>5, <2>6
<1>2. wrong \in [Holders -> Wrong]
  BY DEF TInv, SessionsOK
<1>3. ASSUME NEW u \in Holders, SignIn(c, u)
      PROVE  TInv' /\ Begins(c, "password", Comes("signIn", u))
  BY <1>1, <1>3, OverlapsWrong DEF SignIn
<1>4. ASSUME NEW u \in Holders, GoogleSignIn(c, u)
      PROVE  TInv' /\ Begins(c, "login", Comes("google", u))
  BY <1>1, <1>4, OverlapsWrong DEF GoogleSignIn
<1>5. ASSUME NEW u \in Holders, SwitchCompany(c, u)
      PROVE  TInv' /\ Begins(c, "insert", Comes("switch", u))
  BY <1>1, <1>2, <1>5 DEF SwitchCompany
<1>6. ASSUME NEW t \in Tokens, RefreshToken(c, t)
      PROVE  TInv' /\ Begins(c, "user", Exchange(t))
  <2>1. Exchange(t) \in Visit /\ Enter(c, "user", Exchange(t)) /\ Usable(t)
    BY <1>6, ExchangeVisit
  <2>2. visit'[c] = Exchange(t) /\ at'[c] = "user" /\ tokens' = tokens
    BY <2>1 DEF Enter, TInv, SessionsOK
  <2>3. Parent(c)'
    BY <2>1, <2>2 DEF Parent, Exchange, Usable, Issued
  <2>4. wrong' \in [Holders -> Wrong]
    BY <1>2, <1>6 DEF RefreshToken
  <2>5. TInv'
    BY <2>1, <2>3, <2>4, EnterT DEF Doing
  <2>6. Begins(c, "user", Exchange(t))
    BY <2>1 DEF Begins, Exchange
  <2> QED BY <2>5, <2>6
<1>7. {"password", "login", "insert", "user"} \subseteq Doing
  BY DEF Doing
<1> QED BY <1>3, <1>4, <1>5, <1>6, <1>7 DEF Begins

\* The other steps: calls end, go on or are marked, rows change as Kept says.
Moves(d) ==
    \/ visit'[d] = NoVisit /\ at'[d] = "idle"
    \/ visit[d] = NoVisit /\ visit'[d] = NoVisit /\ at'[d] = at[d]
    \/ Marked(d, visit'[d]) /\ Leads(at[d], at'[d]) /\ at'[d] # "idle"

LEMMA MovesT ==
    ASSUME TInv, \A d \in Doors : Moves(d), \A t \in Tokens : Issued(t) => Kept(t),
           tokens' \in [Tokens -> Token \cup {NoToken}], at' \in [Doors -> Doing],
           DOMAIN visit' = Doors, visit' = [d \in Doors |-> visit'[d]],
           acct' \in [Holders -> Account], wrong' \in [Holders -> Wrong],
           cuts' \in [Holders -> Nat], now' \in 0 .. MaxNow, visits' \in 0 .. MaxVisits
    PROVE  TInv'
<1>1. ASSUME NEW d \in Doors
      PROVE  /\ visit'[d] \in Visit \cup {NoVisit} /\ Parent(d)'
             /\ at'[d] = "idle" <=> visit'[d] = NoVisit
  <2>1. CASE visit'[d] = NoVisit /\ at'[d] = "idle"
    BY <2>1, ParentIdle
  <2>2. CASE visit[d] = NoVisit /\ visit'[d] = NoVisit /\ at'[d] = at[d]
    BY <2>2, ParentIdle DEF TInv, SessionsOK
  <2>3. CASE Marked(d, visit'[d]) /\ Leads(at[d], at'[d]) /\ at'[d] # "idle"
    <3>1. Goes(d)
      BY <2>3, MarkedGoes
    <3>2. Parent(d)'
      BY <2>3, <3>1, ParentGoes
    <3> QED BY <2>3, <3>1, <3>2 DEF Goes
  <2> QED BY <2>1, <2>2, <2>3 DEF Moves
<1>2. visit' \in [Doors -> Visit \cup {NoVisit}]
  BY <1>1
<1> QED BY <1>1, <1>2 DEF TInv, SessionsOK

LEMMA RaceVisit ==
    ASSUME NEW v \in Visit
    PROVE  [v EXCEPT !.raced = TRUE] \in Visit /\ v # NoVisit
BY DEF Visit

LEMMA RevokedKept ==
    ASSUME TInv, NEW t \in Tokens, Issued(t),
           tokens'[t] = tokens[t] \/ tokens'[t] = [tokens[t] EXCEPT !.revoked = TRUE]
    PROVE  Kept(t)
BY TokenFields DEF Kept, Token

LEMMA SelfKept ==
    ASSUME TInv, tokens' = tokens
    PROVE  \A t \in Tokens : Issued(t) => Kept(t)
BY RevokedKept

LEMMA VisitsRise ==
    ASSUME TInv, Counted
    PROVE  visits' \in 0 .. MaxVisits
BY DEF TInv, SessionsOK, Counted

LEMMA TypeParts ==
    ASSUME TInv
    PROVE  /\ acct \in [Holders -> Account] /\ tokens \in [Tokens -> Token \cup {NoToken}]
           /\ now \in 0 .. MaxNow /\ at \in [Doors -> Doing]
           /\ visit \in [Doors -> Visit \cup {NoVisit}] /\ visits \in 0 .. MaxVisits
           /\ wrong \in [Holders -> Wrong] /\ cuts \in [Holders -> Nat]
           /\ \A d \in Doors : at[d] = "idle" <=> visit[d] = NoVisit
BY DEF TInv, SessionsOK

LEMMA StillMoves ==
    ASSUME TInv, NEW d \in Doors, visit'[d] = visit[d], at'[d] = at[d]
    PROVE  Moves(d)
BY DEF Moves, Marked, Leads, TInv, SessionsOK

LEMMA RevokeT ==
    ASSUME TInv, NEW c \in Doors, Revoke(c)
    PROVE  /\ TInv' /\ \A d \in Doors : Moves(d)
           /\ \A t \in Tokens : Issued(t) => Kept(t)
           /\ \A t \in Tokens : ~Issued(t) => tokens'[t] = NoToken
<1>1. /\ at[c] = "revoke" /\ visit[c] \in Visit /\ visit[c] # NoVisit
      /\ visit[c].parent \in Tokens /\ Issued(visit[c].parent)
  BY VisitFields DEF Revoke, TInv, Parent
<1>2. at' = [at EXCEPT ![c] = "insert"] /\ UNCHANGED <<acct, now, visits, wrong, cuts>>
  BY DEF Revoke, Go
<1>3. /\ DOMAIN visit' = Doors /\ visit' = [d \in Doors |-> visit'[d]]
      /\ visit'[c] # NoVisit
      /\ \A d \in Doors :
            \/ visit'[d] = visit[d]
            \/ visit[d] # NoVisit /\ visit'[d] = [visit[d] EXCEPT !.raced = TRUE]
  BY <1>1, TypeParts, RaceVisit DEF Revoke, Disturbed
<1>4. \A t \in Tokens : \/ tokens'[t] = tokens[t]
                        \/ Issued(t) /\ tokens'[t] = [tokens[t] EXCEPT !.revoked = TRUE]
  BY <1>1, TypeParts DEF Revoke
<1>5. \A t \in Tokens : Issued(t) => Kept(t)
  BY <1>4, RevokedKept
<1>6. tokens' \in [Tokens -> Token \cup {NoToken}]
  BY <1>1, <1>5, TypeParts DEF Revoke, Kept
<1>7. ASSUME NEW d \in Doors PROVE Moves(d)
  <2>1. Leads(at[d], at'[d])
    BY <1>1, <1>2, TypeParts DEF Leads
  <2>2. CASE visit[d] # NoVisit
    <3>1. Marked(d, visit'[d])
      BY <1>3, <2>2, TypeParts DEF Marked
    <3>2. at'[d] # "idle"
      BY <1>2, <2>2, TypeParts
    <3> QED BY <2>1, <3>1, <3>2 DEF Moves
  <2>3. CASE visit[d] = NoVisit
    BY <1>1, <1>2, <1>3, <2>3, TypeParts DEF Moves
  <2> QED BY <2>2, <2>3
<1>8. TInv'
  BY <1>2, <1>3, <1>5, <1>6, <1>7, MovesT, TypeParts DEF Doing
<1> QED BY <1>4, <1>5, <1>7, <1>8 DEF Issued

\* The row an insert adds.
NewToken(v, t) ==
    [user |-> v.user, revoked |-> FALSE, expires |-> now + Expiry,
     parent |-> v.parent, root |-> v.root, late |-> v.late, raced |-> v.raced,
     first |-> IF v.parent = NoToken THEN t ELSE tokens[v.parent].first]

LEMMA NewTokenType ==
    ASSUME TInv, NEW c \in Doors, at[c] = "insert", NEW t \in Tokens
    PROVE  NewToken(visit[c], t) \in Token /\ NewToken(visit[c], t) # NoToken
<1>1. visit[c].parent # NoToken => visit[c].parent \in Tokens /\ Issued(visit[c].parent)
  BY VisitFields DEF TInv, Parent
<1>2. (IF visit[c].parent = NoToken THEN t ELSE tokens[visit[c].parent].first) \in Tokens
  BY <1>1, TokenFields
<1>3. NewToken(visit[c], t) \in Token
  BY <1>2, VisitFields, TypeParts DEF NewToken, Token
<1> QED BY <1>3

LEMMA InsertT ==
    ASSUME TInv, NEW c \in Doors, Insert(c)
    PROVE  /\ TInv' /\ \A d \in Doors : Moves(d)
           /\ \A t \in Tokens : Issued(t) => tokens'[t] = tokens[t]
           /\ \A t \in Tokens : ~Issued(t) =>
                 tokens'[t] = NoToken \/ tokens'[t] = NewToken(visit[c], t)
           /\ \A s, t \in Tokens : s # t /\ ~Issued(s) /\ ~Issued(t) =>
                 tokens'[s] = NoToken \/ tokens'[t] = NoToken
           /\ visit'[c] = NoVisit
           /\ \A d \in Doors \ {c} : visit[d] # NoVisit /\ visit[d].user = visit[c].user
                                    => visit'[d] = [visit[d] EXCEPT !.raced = TRUE]
           /\ UNCHANGED cuts
<1> DEFINE v == visit[c]
<1>1. at[c] = "insert" /\ v \in Visit /\ v # NoVisit
  BY VisitFields DEF Insert
<1>2. PICK n \in Tokens : ~Issued(n) /\ tokens' = [tokens EXCEPT ![n] = NewToken(v, n)]
  BY DEF Insert, NewToken
<1>3. at' = [at EXCEPT ![c] = "idle"] /\ UNCHANGED <<acct, now, visits, wrong, cuts>>
  BY DEF Insert, Go
<1>4. visit' = [Disturbed(c, v.user) EXCEPT ![c] = NoVisit]
  BY DEF Insert
<1>5. NewToken(v, n) \in Token
  BY <1>1, NewTokenType
<1>6. /\ DOMAIN visit' = Doors /\ visit' = [d \in Doors |-> visit'[d]]
      /\ visit'[c] = NoVisit
      /\ \A d \in Doors \ {c} :
            \/ visit'[d] = visit[d] /\ (visit[d] = NoVisit \/ visit[d].user # v.user)
            \/ visit[d] # NoVisit /\ visit'[d] = [visit[d] EXCEPT !.raced = TRUE]
  BY <1>1, <1>4, TypeParts DEF Disturbed
<1>7. tokens' \in [Tokens -> Token \cup {NoToken}]
  BY <1>2, <1>5, TypeParts
<1>8. \A t \in Tokens : Issued(t) => tokens'[t] = tokens[t]
  BY <1>2, TypeParts
<1>9. \A t \in Tokens : Issued(t) => Kept(t)
  BY <1>8, RevokedKept
<1>10. ASSUME NEW d \in Doors PROVE Moves(d)
  <2>1. CASE d = c
    BY <1>3, <1>6, <2>1, TypeParts DEF Moves
  <2>2. CASE d # c /\ visit[d] # NoVisit
    <3>1. Marked(d, visit'[d])
      BY <1>6, <2>2, TypeParts DEF Marked
    <3>2. at'[d] = at[d] /\ at[d] # "idle"
      BY <1>3, <2>2, TypeParts
    <3> QED BY <3>1, <3>2 DEF Moves, Leads
  <2>3. CASE d # c /\ visit[d] = NoVisit
    <3>1. visit'[d] = visit[d]
      BY <1>6, <2>3
    <3>2. at'[d] = at[d]
      BY <1>3, <2>3, TypeParts
    <3> QED BY <3>1, <3>2, StillMoves
  <2> QED BY <2>1, <2>2, <2>3
<1>11. TInv'
  BY <1>3, <1>6, <1>7, <1>9, <1>10, MovesT, TypeParts DEF Doing
<1>12. \A t \in Tokens : ~Issued(t) => tokens'[t] = IF t = n THEN NewToken(v, n) ELSE NoToken
  BY <1>2, TypeParts DEF Issued
<1> QED BY <1>3, <1>6, <1>8, <1>10, <1>11, <1>12

LEMMA LogoutT ==
    ASSUME TInv, NEW r \in Tokens, Logout(r)
    PROVE  /\ TInv' /\ \A d \in Doors : Moves(d)
           /\ \A t \in Tokens : Issued(t) => Kept(t)
           /\ \A t \in Tokens : ~Issued(t) => tokens'[t] = NoToken
           /\ UNCHANGED <<cuts, at>>
<1>1. Issued(r) /\ UNCHANGED <<acct, now, at, wrong, cuts>>
  BY DEF Logout
<1>2. \A t \in Tokens : \/ tokens'[t] = tokens[t]
                        \/ Issued(t) /\ tokens'[t] = [tokens[t] EXCEPT !.revoked = TRUE]
  BY <1>1, TypeParts DEF Logout
<1>3. \A t \in Tokens : Issued(t) => Kept(t)
  BY <1>2, RevokedKept
<1>4. tokens' \in [Tokens -> Token \cup {NoToken}]
  BY <1>1, <1>3, TypeParts DEF Logout, Kept
<1>5. /\ DOMAIN visit' = Doors /\ visit' = [d \in Doors |-> visit'[d]]
      /\ \A d \in Doors :
            \/ visit'[d] = visit[d]
            \/ visit[d] # NoVisit /\ visit'[d] = [visit[d] EXCEPT !.raced = TRUE]
  BY TypeParts DEF Logout
<1>6. ASSUME NEW d \in Doors PROVE Moves(d)
  <2>1. CASE visit[d] # NoVisit
    <3>1. Marked(d, visit'[d])
      BY <1>5, <2>1, TypeParts DEF Marked
    <3> QED BY <1>1, <2>1, <3>1, TypeParts DEF Moves, Leads
  <2>2. CASE visit[d] = NoVisit
    BY <1>1, <1>5, <2>2, StillMoves
  <2> QED BY <2>1, <2>2
<1>7. TInv'
  BY <1>1, <1>3, <1>4, <1>5, <1>6, MovesT, TypeParts, VisitsRise DEF Logout
<1> QED BY <1>1, <1>2, <1>3, <1>6, <1>7 DEF Issued

LEMMA LogoutAllT ==
    ASSUME TInv, NEW u \in Holders, LogoutAll(u)
    PROVE  /\ TInv' /\ \A d \in Doors : Moves(d)
           /\ \A t \in Tokens : Issued(t) => Kept(t)
           /\ \A t \in Tokens : ~Issued(t) => tokens'[t] = NoToken
           /\ \A t \in Tokens : Issued(t) /\ tokens[t].user = u => tokens'[t].revoked
           /\ \A d \in Doors : visit[d] # NoVisit /\ visit[d].user = u => visit'[d].late
           /\ \A x \in Holders \ {u} : cuts'[x] = cuts[x]
           /\ UNCHANGED at
<1>1. UNCHANGED <<acct, now, at, wrong>> /\ cuts' = [cuts EXCEPT ![u] = @ + 1]
  BY DEF LogoutAll
<1>2. \A t \in Tokens :
         /\ tokens'[t] = tokens[t] \/ tokens'[t] = [tokens[t] EXCEPT !.revoked = TRUE]
         /\ ~Issued(t) => tokens'[t] = tokens[t]
         /\ Issued(t) /\ tokens[t].user = u
            => tokens'[t] = [tokens[t] EXCEPT !.revoked = TRUE]
  BY DEF LogoutAll
<1>3. \A t \in Tokens : Issued(t) => Kept(t)
  BY <1>2, RevokedKept
<1>4. tokens' \in [Tokens -> Token \cup {NoToken}]
  <2>1. \A t \in Tokens : tokens'[t] \in Token \cup {NoToken}
    BY <1>2, <1>3, TypeParts DEF Kept, Issued
  <2>2. tokens' = [t \in Tokens |-> tokens'[t]]
    BY DEF LogoutAll
  <2> QED BY <2>1, <2>2
<1>5. /\ DOMAIN visit' = Doors /\ visit' = [d \in Doors |-> visit'[d]]
      /\ \A d \in Doors :
            \/ visit'[d] = visit[d] /\ (visit[d] = NoVisit \/ visit[d].user # u)
            \/ visit[d] # NoVisit /\ visit'[d] = [visit[d] EXCEPT !.raced = TRUE, !.late = TRUE]
  BY TypeParts DEF LogoutAll
<1>6. ASSUME NEW d \in Doors PROVE Moves(d)
  <2>1. CASE visit[d] # NoVisit
    <3>1. Marked(d, visit'[d])
      BY <1>5, <2>1, TypeParts DEF Marked
    <3> QED BY <1>1, <2>1, <3>1, TypeParts DEF Moves, Leads
  <2>2. CASE visit[d] = NoVisit
    BY <1>1, <1>5, <2>2, StillMoves
  <2> QED BY <2>1, <2>2
<1>7. cuts' \in [Holders -> Nat]
  BY <1>1, TypeParts
<1>8. TInv'
  BY <1>1, <1>3, <1>4, <1>5, <1>6, <1>7, MovesT, TypeParts, VisitsRise DEF LogoutAll
<1>9. \A t \in Tokens : Issued(t) /\ tokens[t].user = u => tokens'[t].revoked
  BY <1>2, TokenFields DEF Token
<1>10. ASSUME NEW d \in Doors, visit[d] # NoVisit, visit[d].user = u
       PROVE  visit'[d].late
  <2>1. visit[d] \in Visit /\ visit'[d] = [visit[d] EXCEPT !.raced = TRUE, !.late = TRUE]
    BY <1>5, <1>10, TypeParts
  <2> QED BY <2>1 DEF Visit
<1>11. \A x \in Holders \ {u} : cuts'[x] = cuts[x]
  BY <1>1, TypeParts
<1> QED BY <1>1, <1>2, <1>3, <1>6, <1>8, <1>9, <1>10, <1>11 DEF Issued

\* The steps of no call.
LEMMA OutsideT ==
    ASSUME TInv, Tick \/ \E u \in Holders : SetStatus(u)
    PROVE  TInv' /\ Calm /\ \A d \in Doors : visit'[d] = visit[d] /\ at'[d] = at[d]
<1>1. UNCHANGED <<tokens, at, visit, wrong, cuts>>
  BY DEF Tick, SetStatus
<1>2. Calm
  BY <1>1 DEF Calm, Leads
<1>3. acct' \in [Holders -> Account] /\ now' \in 0 .. MaxNow /\ visits' \in 0 .. MaxVisits
  <2>1. CASE Tick
    BY <2>1, TypeParts DEF Tick
  <2>2. ASSUME NEW u \in Holders, SetStatus(u)
        PROVE  acct' \in [Holders -> Account]
    <3>1. PICK s \in {"active", "inactive", "deleted"} : acct' = [acct EXCEPT ![u].status = s]
      BY <2>2 DEF SetStatus
    <3>2. [acct[u] EXCEPT !.status = s] \in Account
      BY TypeParts DEF Account
    <3> QED BY <3>1, <3>2, TypeParts
  <2>3. CASE \E u \in Holders : SetStatus(u)
    BY <2>2, <2>3, TypeParts, VisitsRise DEF SetStatus
  <2> QED BY <2>1, <2>3
<1>4. SessionsOK'
  BY <1>1, <1>3, TypeParts DEF SessionsOK
<1>5. \A d \in Doors : Parent(d)'
  BY <1>1 DEF TInv, Parent, Issued
<1> QED BY <1>1, <1>2, <1>4, <1>5 DEF TInv

\* Every step is one of these.
LEMMA StepKinds ==
    ASSUME TInv, [SessionsNext]_sessionVars
    PROVE  /\ TInv'
           /\ \/ Calm
              \/ \E c \in Doors, l \in Doing, v \in Visit : Begins(c, l, v)
              \/ \E c \in Doors : Revoke(c) \/ Insert(c)
              \/ \E t \in Tokens : Logout(t)
              \/ \E u \in Holders : LogoutAll(u)
<1>1. CASE UNCHANGED sessionVars
  <2>1. Calm
    BY <1>1 DEF sessionVars, Calm, Leads
  <2>2. TInv'
    BY <1>1 DEF sessionVars, TInv, SessionsOK, Parent, Issued
  <2> QED BY <2>1, <2>2
<1>2. CASE \E c \in Doors : SessionCall(c)
  BY <1>2, BeginT, StatementCalm, RevokeT, InsertT DEF SessionCall
<1>3. CASE \E t \in Tokens : Logout(t)
  BY <1>3, LogoutT
<1>4. CASE \E u \in Holders : LogoutAll(u)
  BY <1>4, LogoutAllT
<1>5. CASE Tick \/ \E u \in Holders : SetStatus(u)
  BY <1>5, OutsideT
<1> QED BY <1>1, <1>2, <1>3, <1>4, <1>5 DEF SessionsNext

\* A call that has begun has its statement to execute, an exchanged token is
\* one issued to the user, and every row keeps its shape.
THEOREM SessionsTypeOK == SessionsSpec => []SessionsOK
<1>1. SessionsSpec => []TInv
  BY TInit, StepKinds, PTL DEF SessionsSpec
<1>2. TInv => SessionsOK
  BY DEF TInv
<1> QED BY <1>1, <1>2, PTL

---------------------------------------------------------------------------
(* LogoutAll: the count of LogoutAlls a valid chain carries is the current  *)
(* one, in its token as in the call that will issue the next.              *)

TokenCurrent(t) ==
    Issued(t) /\ ~tokens[t].revoked /\ ~tokens[t].late => tokens[t].root = cuts[tokens[t].user]

VisitCurrent(d) ==
    visit[d] # NoVisit /\ ~visit[d].late => visit[d].root = cuts[visit[d].user]

LInv == (\A t \in Tokens : TokenCurrent(t)) /\ (\A d \in Doors : VisitCurrent(d))

LEMMA MovesGoes ==
    ASSUME NEW d \in Doors, Moves(d), visit'[d] # NoVisit
    PROVE  Goes(d) /\ Leads(at[d], at'[d]) /\ at'[d] # "idle" /\ visit[d] # NoVisit
BY MarkedGoes DEF Moves, Goes

LEMMA KeptCurrent ==
    ASSUME NEW t \in Tokens, TokenCurrent(t), Issued(t), Kept(t), cuts' = cuts
    PROVE  TokenCurrent(t)'
BY DEF TokenCurrent, Kept

LEMMA MovesCurrent ==
    ASSUME NEW d \in Doors, VisitCurrent(d), Moves(d), cuts' = cuts
    PROVE  VisitCurrent(d)'
<1>1. CASE visit'[d] = NoVisit
  BY <1>1 DEF VisitCurrent
<1>2. CASE visit'[d] # NoVisit
  BY <1>2, MovesGoes DEF VisitCurrent, Goes
<1> QED BY <1>1, <1>2

LEMMA LStep ==
    ASSUME TInv, LInv, [SessionsNext]_sessionVars
    PROVE  LInv'
<1>1. CASE Calm
  <2>1. \A t \in Tokens : TokenCurrent(t)'
    BY <1>1 DEF Calm, LInv, TokenCurrent, Issued
  <2>2. \A d \in Doors : VisitCurrent(d)'
    BY <1>1 DEF Calm, LInv, VisitCurrent
  <2> QED BY <2>1, <2>2 DEF LInv
<1>2. ASSUME NEW c \in Doors, NEW l \in Doing, NEW v \in Visit, Begins(c, l, v)
      PROVE  LInv'
  <2>1. UNCHANGED <<tokens, cuts>> /\ visit' = [visit EXCEPT ![c] = v]
    BY <1>2 DEF Begins, Enter
  <2>2. \A t \in Tokens : TokenCurrent(t)'
    BY <2>1 DEF LInv, TokenCurrent, Issued
  <2>3. ~v.late => v.root = cuts[v.user]
    BY <1>2 DEF Begins, LInv, TokenCurrent, Usable
  <2>4. \A d \in Doors : VisitCurrent(d)'
    BY <2>1, <2>3, TypeParts DEF LInv, VisitCurrent
  <2> QED BY <2>2, <2>4 DEF LInv
<1>3. ASSUME NEW c \in Doors, Revoke(c) PROVE LInv'
  <2>1. cuts' = cuts
    BY <1>3 DEF Revoke, Go
  <2>2. \A t \in Tokens : TokenCurrent(t)'
    BY <1>3, <2>1, RevokeT, KeptCurrent DEF LInv, TokenCurrent, Issued
  <2>3. \A d \in Doors : VisitCurrent(d)'
    BY <1>3, <2>1, RevokeT, MovesCurrent DEF LInv
  <2> QED BY <2>2, <2>3 DEF LInv
<1>4. ASSUME NEW c \in Doors, Insert(c) PROVE LInv'
  <2>1. cuts' = cuts /\ visit[c] \in Visit /\ visit[c] # NoVisit
    BY <1>4, InsertT, VisitFields DEF Insert
  <2>2. ASSUME NEW t \in Tokens PROVE TokenCurrent(t)'
    <3>1. CASE Issued(t)
      BY <1>4, <2>1, <3>1, InsertT DEF LInv, TokenCurrent, Issued
    <3>2. CASE ~Issued(t) /\ tokens'[t] = NewToken(visit[c], t)
      BY <2>1, <3>2 DEF LInv, TokenCurrent, VisitCurrent, NewToken
    <3>3. CASE ~Issued(t) /\ tokens'[t] = NoToken
      BY <3>3 DEF TokenCurrent, Issued
    <3> QED BY <1>4, <3>1, <3>2, <3>3, InsertT
  <2>3. \A d \in Doors : VisitCurrent(d)'
    BY <1>4, <2>1, InsertT, MovesCurrent DEF LInv
  <2> QED BY <2>2, <2>3 DEF LInv
<1>5. ASSUME NEW r \in Tokens, Logout(r) PROVE LInv'
  <2>1. \A t \in Tokens : TokenCurrent(t)'
    BY <1>5, LogoutT, KeptCurrent DEF LInv, TokenCurrent, Issued
  <2>2. \A d \in Doors : VisitCurrent(d)'
    BY <1>5, LogoutT, MovesCurrent DEF LInv
  <2> QED BY <2>1, <2>2 DEF LInv
<1>6. ASSUME NEW u \in Holders, LogoutAll(u) PROVE LInv'
  <2>1. ASSUME NEW t \in Tokens PROVE TokenCurrent(t)'
    <3>1. CASE ~Issued(t)
      BY <1>6, <3>1, LogoutAllT DEF TokenCurrent, Issued
    <3>2. CASE Issued(t) /\ tokens[t].user = u
      BY <1>6, <3>2, LogoutAllT DEF TokenCurrent
    <3>3. CASE Issued(t) /\ tokens[t].user # u
      <4>1. tokens[t].user \in Holders \ {u}
        BY <3>3, TokenFields
      <4> QED BY <1>6, <3>3, <4>1, LogoutAllT DEF LInv, TokenCurrent, Kept
    <3> QED BY <3>1, <3>2, <3>3
  <2>2. ASSUME NEW d \in Doors, visit'[d] # NoVisit PROVE VisitCurrent(d)'
    <3>1. Goes(d) /\ visit[d] # NoVisit /\ Moves(d)
      BY <1>6, <2>2, LogoutAllT, MovesGoes
    <3>2. CASE visit[d].user = u
      BY <1>6, <3>1, <3>2, LogoutAllT DEF VisitCurrent
    <3>3. CASE visit[d].user # u
      <4>1. visit[d].user \in Holders \ {u}
        BY <3>1, <3>3 DEF Goes, Visit
      <4> QED BY <1>6, <3>1, <4>1, LogoutAllT DEF LInv, VisitCurrent, Goes
    <3> QED BY <3>2, <3>3
  <2>3. \A d \in Doors : VisitCurrent(d)'
    BY <2>2 DEF VisitCurrent
  <2> QED BY <2>1, <2>3 DEF LInv
<1> QED BY <1>1, <1>2, <1>3, <1>4, <1>5, <1>6, StepKinds

\* LogoutAll ends every session but those of the calls it overlapped, however
\* many tokens, refreshes and calls there are (AuthService.LogoutAll).
THEOREM SessionsLogoutAll == SessionsSpec => []LogoutAllHolds
<1>1. SessionsInit => TInv /\ LInv
  BY TInit DEF SessionsInit, LInv, TokenCurrent, VisitCurrent, Issued
<1>2. SessionsSpec => [](TInv /\ LInv)
  BY <1>1, StepKinds, LStep, PTL DEF SessionsSpec
<1>3. LInv => LogoutAllHolds
  BY DEF LInv, TokenCurrent, LogoutAllHolds, Usable
<1> QED BY <1>2, <1>3, PTL

---------------------------------------------------------------------------
(* Rotation: unless the call that issued it was raced, a token comes after  *)
(* the revocation of its parent, and every other exchange of that parent    *)
(* has been raced by it.                                                    *)

TokenSpent(t) ==
    Issued(t) /\ tokens[t].parent # NoToken
    => /\ Issued(tokens[t].parent)
       /\ ~tokens[t].raced => tokens[tokens[t].parent].revoked

VisitSpent(d) ==
    at[d] = "insert" /\ visit[d].parent # NoToken /\ ~visit[d].raced
    => tokens[visit[d].parent].revoked

VisitLate(t, d) ==
    /\ Issued(t) /\ tokens[t].parent # NoToken /\ ~tokens[t].raced
    /\ visit[d] # NoVisit /\ visit[d].parent = tokens[t].parent
    => visit[d].raced

ExchangedOnce ==
    \A s, t \in Tokens :
        s # t /\ Issued(s) /\ Issued(t) /\ tokens[s].parent = tokens[t].parent
            /\ tokens[s].parent # NoToken
        => tokens[s].raced \/ tokens[t].raced

RInv ==
    /\ \A t \in Tokens : TokenSpent(t)
    /\ \A d \in Doors : VisitSpent(d)
    /\ \A t \in Tokens, d \in Doors : VisitLate(t, d)
    /\ ExchangedOnce

LEMMA KeptRotated ==
    ASSUME TInv, RInv, \A t \in Tokens : Issued(t) => Kept(t),
           \A t \in Tokens : ~Issued(t) => tokens'[t] = NoToken,
           \A d \in Doors : Moves(d),
           \A d \in Doors : at[d] # "insert" /\ at'[d] = "insert" => VisitSpent(d)'
    PROVE  RInv'
<1>1. \A t \in Tokens : Issued(t)' <=> Issued(t)
  BY DEF Kept, Issued, Token
<1>2. ASSUME NEW t \in Tokens PROVE TokenSpent(t)'
  <2>1. CASE Issued(t) /\ tokens[t].parent # NoToken
    <3>1. Kept(t) /\ tokens[t].parent \in Tokens /\ Issued(tokens[t].parent)
      BY <2>1, TokenFields DEF RInv, TokenSpent
    <3>2. Kept(tokens[t].parent)
      BY <3>1
    <3> QED BY <1>1, <2>1, <3>1, <3>2 DEF RInv, TokenSpent, Kept
  <2>2. CASE ~(Issued(t) /\ tokens[t].parent # NoToken)
    BY <1>1, <2>2 DEF TokenSpent, Kept
  <2> QED BY <2>1, <2>2
<1>3. ASSUME NEW d \in Doors, at[d] = "insert", at'[d] = "insert", visit'[d].parent # NoToken,
             ~visit'[d].raced
      PROVE  tokens'[visit'[d].parent].revoked
  <2>1. visit'[d] # NoVisit
    BY <1>3, TypeParts, MarkedGoes DEF Moves, Goes
  <2>2. Goes(d) /\ visit[d] # NoVisit
    BY <2>1, MovesGoes
  <2>3. /\ visit[d].parent = visit'[d].parent /\ ~visit[d].raced
        /\ visit[d].parent \in Tokens /\ Issued(visit[d].parent)
    BY <1>3, <2>2 DEF Goes, Visit, TInv, Parent
  <2> QED BY <1>3, <2>3 DEF RInv, VisitSpent, Kept
<1>4. \A d \in Doors : VisitSpent(d)'
  BY <1>3 DEF VisitSpent
<1>5. ASSUME NEW t \in Tokens, NEW d \in Doors PROVE VisitLate(t, d)'
  <2>1. CASE Issued(t) /\ visit'[d] # NoVisit
    BY <2>1, MovesGoes DEF RInv, VisitLate, Kept, Goes
  <2>2. CASE ~(Issued(t) /\ visit'[d] # NoVisit)
    BY <1>1, <2>2 DEF VisitLate
  <2> QED BY <2>1, <2>2
<1>6. ExchangedOnce'
  BY <1>1 DEF RInv, ExchangedOnce, Kept
<1> QED BY <1>2, <1>4, <1>5, <1>6 DEF RInv

LEMMA InsertRotated ==
    ASSUME TInv, RInv, NEW c \in Doors, Insert(c)
    PROVE  RInv'
<1> DEFINE v == visit[c]
           New(t) == ~Issued(t) /\ tokens'[t] = NewToken(v, t)
<1>1. at[c] = "insert" /\ v \in Visit /\ v # NoVisit
  BY VisitFields DEF Insert
<1>2. v.parent # NoToken
      => /\ v.parent \in Tokens /\ Issued(v.parent) /\ tokens[v.parent].user = v.user
         /\ ~v.raced => tokens[v.parent].revoked
  BY <1>1, VisitFields DEF TInv, Parent, RInv, VisitSpent
<1>3. \A t \in Tokens : Issued(t) => tokens'[t] = tokens[t] /\ Issued(t)'
  BY InsertT DEF Issued
<1>4. \A t \in Tokens : Issued(t)' => Issued(t) \/ New(t)
  BY InsertT DEF Issued
<1>5. \A s, t \in Tokens : New(s) /\ New(t) => s = t
  <2>1. \A t \in Tokens : NewToken(v, t) # NoToken
    BY <1>1, NewTokenType
  <2> QED BY <2>1, InsertT
<1>6. ASSUME NEW t \in Tokens, New(t)
      PROVE  tokens'[t].parent = v.parent /\ tokens'[t].raced = v.raced
  BY <1>6 DEF NewToken
<1>7. ASSUME NEW d \in Doors, visit'[d] # NoVisit
      PROVE  Goes(d) /\ visit[d] # NoVisit /\ d # c
  BY <1>7, InsertT, MovesGoes
<1>8. ASSUME NEW t \in Tokens PROVE TokenSpent(t)'
  <2>1. CASE Issued(t)
    <3>1. tokens[t].parent \in Tokens \cup {NoToken}
      BY <2>1, TokenFields
    <3> QED BY <1>3, <2>1, <3>1 DEF RInv, TokenSpent
  <2>2. CASE New(t)
    BY <1>2, <1>3, <1>6, <2>2 DEF TokenSpent
  <2> QED BY <1>4, <2>1, <2>2 DEF TokenSpent
<1>9. ASSUME NEW d \in Doors PROVE VisitSpent(d)'
  <2> SUFFICES ASSUME at'[d] = "insert", visit'[d].parent # NoToken, ~visit'[d].raced
               PROVE  tokens'[visit'[d].parent].revoked
    BY DEF VisitSpent
  <2>1. d # c /\ at[d] = "insert"
    BY <1>1, TypeParts DEF Insert, Go
  <2>2. visit[d] # NoVisit /\ visit'[d] # NoVisit
    BY <2>1, InsertT, TypeParts DEF TInv, SessionsOK
  <2>3. /\ visit[d].parent = visit'[d].parent /\ ~visit[d].raced
        /\ visit[d].parent \in Tokens /\ Issued(visit[d].parent)
    BY <1>7, <2>1, <2>2, VisitFields DEF Goes, TInv, Parent
  <2> QED BY <1>3, <2>1, <2>3 DEF RInv, VisitSpent
<1>10. ASSUME NEW t \in Tokens, NEW d \in Doors PROVE VisitLate(t, d)'
  <2> SUFFICES ASSUME Issued(t)', tokens'[t].parent # NoToken, ~tokens'[t].raced,
                      visit'[d] # NoVisit, visit'[d].parent = tokens'[t].parent
               PROVE  visit'[d].raced
    BY DEF VisitLate
  <2>1. Goes(d) /\ visit[d] # NoVisit /\ d # c
    BY <1>7
  <2>2. CASE Issued(t)
    BY <1>3, <2>1, <2>2 DEF RInv, VisitLate, Goes
  <2>3. CASE New(t)
    <3>1. visit[d].parent = v.parent /\ v.parent # NoToken
      BY <1>6, <2>1, <2>3 DEF Goes
    <3>2. visit[d].user = v.user
      BY <1>2, <2>1, <3>1 DEF TInv, Parent
    <3>3. visit'[d] = [visit[d] EXCEPT !.raced = TRUE] /\ visit[d] \in Visit
      BY <2>1, <3>2, InsertT DEF Goes
    <3> QED BY <3>3 DEF Visit
  <2> QED BY <1>4, <2>2, <2>3
<1>11. ASSUME NEW s \in Tokens, NEW t \in Tokens, s # t, Issued(s)', Issued(t)',
              tokens'[s].parent = tokens'[t].parent, tokens'[s].parent # NoToken
       PROVE  tokens'[s].raced \/ tokens'[t].raced
  <2>1. CASE Issued(s) /\ Issued(t)
    BY <1>3, <1>11, <2>1 DEF RInv, ExchangedOnce
  <2>2. CASE Issued(s) /\ New(t)
    BY <1>1, <1>3, <1>6, <1>11, <2>2 DEF RInv, VisitLate
  <2>3. CASE New(s) /\ Issued(t)
    BY <1>1, <1>3, <1>6, <1>11, <2>3 DEF RInv, VisitLate
  <2> QED BY <1>4, <1>5, <1>11, <2>1, <2>2, <2>3
<1>12. ExchangedOnce'
  BY <1>11 DEF ExchangedOnce, Issued
<1> QED BY <1>8, <1>9, <1>10, <1>12 DEF RInv

LEMMA RStep ==
    ASSUME TInv, RInv, [SessionsNext]_sessionVars
    PROVE  RInv'
<1>1. CASE Calm
  <2>1. tokens' = tokens
    BY <1>1 DEF Calm
  <2>2. \A t \in Tokens : TokenSpent(t)'
    BY <2>1 DEF RInv, TokenSpent, Issued
  <2>3. ASSUME NEW d \in Doors, at'[d] = "insert"
        PROVE  VisitSpent(d)'
    <3>1. visit'[d] = visit[d] /\ at[d] \in {"insert", "login"}
      BY <1>1, <2>3 DEF Calm
    <3>2. CASE at[d] = "login"
      BY <3>1, <3>2 DEF VisitSpent, TInv, Parent
    <3>3. CASE at[d] = "insert"
      BY <2>1, <3>1, <3>3 DEF RInv, VisitSpent
    <3> QED BY <3>1, <3>2, <3>3
  <2>4. \A t \in Tokens, d \in Doors : VisitLate(t, d)'
    BY <1>1, <2>1 DEF RInv, VisitLate, Calm, Issued
  <2>5. ExchangedOnce'
    BY <2>1 DEF RInv, ExchangedOnce, Issued
  <2> QED BY <2>2, <2>3, <2>4, <2>5 DEF RInv, VisitSpent
<1>2. ASSUME NEW c \in Doors, NEW l \in Doing, NEW v \in Visit, Begins(c, l, v)
      PROVE  RInv'
  <2>1. /\ tokens' = tokens /\ visit' = [visit EXCEPT ![c] = v]
        /\ at' = [at EXCEPT ![c] = l]
        /\ v.parent # NoToken => /\ l = "user" /\ v.parent \in Tokens
                                 /\ ~tokens[v.parent].revoked
    BY <1>2 DEF Begins, Enter, Usable
  <2>2. \A t \in Tokens : TokenSpent(t)'
    BY <2>1 DEF RInv, TokenSpent, Issued
  <2>3. ASSUME NEW d \in Doors PROVE VisitSpent(d)'
    <3>1. CASE d = c
      BY <2>1, <3>1, TypeParts DEF VisitSpent
    <3>2. CASE d # c
      BY <2>1, <3>2, TypeParts DEF RInv, VisitSpent
    <3> QED BY <3>1, <3>2
  <2>4. ASSUME NEW t \in Tokens, NEW d \in Doors PROVE VisitLate(t, d)'
    <3>1. CASE d = c
      BY <2>1, <3>1, TypeParts DEF RInv, TokenSpent, VisitLate, Issued
    <3>2. CASE d # c
      BY <2>1, <3>2, TypeParts DEF RInv, VisitLate, Issued
    <3> QED BY <3>1, <3>2
  <2>5. ExchangedOnce'
    BY <2>1 DEF RInv, ExchangedOnce, Issued
  <2> QED BY <2>2, <2>3, <2>4, <2>5 DEF RInv
<1>3. ASSUME NEW c \in Doors, Revoke(c) PROVE RInv'
  <2>1. \A d \in Doors : at[d] # "insert" /\ at'[d] = "insert" => d = c
    BY <1>3, TypeParts DEF Revoke, Go
  <2>2. VisitSpent(c)'
    <3>1. /\ visit[c] \in Visit /\ visit[c].parent \in Tokens /\ Issued(visit[c].parent)
      BY <1>3, VisitFields DEF Revoke, TInv, Parent
    <3>2. CASE tokens' = [tokens EXCEPT ![visit[c].parent].revoked = TRUE]
               /\ visit' = Disturbed(c, visit[c].user)
      <4>1. visit'[c] = visit[c]
        BY <3>2 DEF Disturbed
      <4>2. tokens'[visit[c].parent].revoked
        BY <3>1, <3>2, TypeParts, TokenFields DEF Token
      <4> QED BY <4>1, <4>2 DEF VisitSpent
    <3>3. CASE visit' = [visit EXCEPT ![c].raced = TRUE]
      BY <3>1, <3>3, TypeParts DEF VisitSpent, Visit
    <3> QED BY <1>3, <3>2, <3>3 DEF Revoke
  <2> QED BY <1>3, <2>1, <2>2, RevokeT, KeptRotated
<1>4. ASSUME NEW c \in Doors, Insert(c) PROVE RInv'
  BY <1>4, InsertRotated
<1>5. ASSUME NEW r \in Tokens, Logout(r) PROVE RInv'
  BY <1>5, LogoutT, KeptRotated
<1>6. ASSUME NEW u \in Holders, LogoutAll(u) PROVE RInv'
  BY <1>6, LogoutAllT, KeptRotated
<1> QED BY <1>1, <1>2, <1>3, <1>4, <1>5, <1>6, StepKinds

---------------------------------------------------------------------------
(* Chains: of the tokens of one sign-in one at most is valid, or one unraced *)
(* call is about to issue the next; a call that has not come to its         *)
(* revocation and is not raced still has a valid token to exchange.         *)

Valid(t) == Issued(t) /\ ~tokens[t].revoked

ChainKnown(t) ==
    Issued(t) => /\ Issued(tokens[t].first)
                 /\ tokens[tokens[t].first].user = tokens[t].user

Exchanges(d) == visit[d] # NoVisit /\ visit[d].parent # NoToken /\ ~visit[d].raced

StillValid(d) ==
    Exchanges(d) /\ at[d] # "insert" => ~tokens[visit[d].parent].revoked

OnlyHeir(d) ==
    Exchanges(d) /\ at[d] = "insert" =>
        \A t \in Tokens : Valid(t) /\ tokens[t].first = tokens[visit[d].parent].first
                          => Disputed(tokens[t].first)

OneValid ==
    \A s, t \in Tokens :
        s # t /\ Valid(s) /\ Valid(t) /\ tokens[s].first = tokens[t].first
        => Disputed(tokens[s].first)

CInv ==
    /\ \A t \in Tokens : ChainKnown(t)
    /\ \A d \in Doors : StillValid(d) /\ OnlyHeir(d)
    /\ OneValid

\* A token on its way to being exchanged is known, and so is its chain.
LEMMA ParentKnown ==
    ASSUME TInv, NEW d \in Doors, visit[d] # NoVisit, visit[d].parent # NoToken
    PROVE  /\ visit[d].parent \in Tokens /\ Issued(visit[d].parent)
           /\ tokens[visit[d].parent].user = visit[d].user
           /\ tokens[visit[d].parent].first \in Tokens
<1>1. visit[d].parent \in Tokens /\ Issued(visit[d].parent)
      /\ tokens[visit[d].parent].user = visit[d].user
  BY VisitFields, TypeParts DEF TInv, Parent
<1> QED BY <1>1, TokenFields

\* A disputed chain stays disputed.
LEMMA StaysDisputed ==
    ASSUME \A r \in Tokens : Issued(r) => Issued(r)' /\ tokens'[r].raced = tokens[r].raced
                                          /\ tokens'[r].first = tokens[r].first,
           NEW s \in Tokens, NEW t \in Tokens,
           Disputed(tokens[s].first), tokens'[t].first = tokens[s].first
    PROVE  Disputed(tokens[t].first)'
BY DEF Disputed

\* What a step does to a call it does not end.
LEMMA MovesExchange ==
    ASSUME TInv, NEW d \in Doors, Moves(d), Exchanges(d)'
    PROVE  /\ Exchanges(d) /\ visit'[d].parent = visit[d].parent
           /\ Leads(at[d], at'[d]) /\ visit[d].parent # NoToken /\ visit[d] # NoVisit
<1>1. visit'[d] # NoVisit /\ visit'[d].parent # NoToken /\ ~visit'[d].raced
  BY DEF Exchanges
<1>2. Goes(d) /\ visit[d] # NoVisit
  BY <1>1, MovesGoes
<1>3. Leads(at[d], at'[d])
  BY <1>1 DEF Moves
<1> QED BY <1>1, <1>2, <1>3 DEF Exchanges, Goes

\* Tokens may be revoked, but none that an undisturbed call is to exchange.
LEMMA KeptChains ==
    ASSUME TInv, CInv, \A t \in Tokens : Issued(t) => Kept(t),
           \A t \in Tokens : ~Issued(t) => tokens'[t] = NoToken,
           \A d \in Doors : Moves(d),
           \A d \in Doors : Exchanges(d)' /\ at'[d] # "insert" =>
               tokens'[visit[d].parent].revoked = tokens[visit[d].parent].revoked,
           \A d \in Doors : at[d] # "insert" /\ at'[d] = "insert" => OnlyHeir(d)'
    PROVE  CInv'
<1>1. \A t \in Tokens : Issued(t)' <=> Issued(t)
  BY DEF Kept, Issued, Token
<1>2. \A s, t \in Tokens : Disputed(tokens[s].first) /\ tokens'[t].first = tokens[s].first
                           => Disputed(tokens[t].first)'
  BY <1>1, StaysDisputed DEF Kept
<1>3. \A t \in Tokens : Valid(t)' => Valid(t)
  BY <1>1 DEF Valid, Kept, Token
<1>4. ASSUME NEW t \in Tokens PROVE ChainKnown(t)'
  <2> SUFFICES ASSUME Issued(t)' PROVE ChainKnown(t)'
    BY DEF ChainKnown
  <2>1. tokens[t].first \in Tokens /\ Issued(t) /\ Issued(tokens[t].first)
        /\ tokens[tokens[t].first].user = tokens[t].user
    BY <1>1, TokenFields DEF CInv, ChainKnown
  <2>2. Kept(t) /\ Kept(tokens[t].first)
    BY <2>1
  <2> QED BY <1>1, <2>1, <2>2 DEF ChainKnown, Kept
<1>5. ASSUME NEW d \in Doors, Exchanges(d)'
      PROVE  /\ Exchanges(d) /\ visit'[d].parent = visit[d].parent /\ Leads(at[d], at'[d])
             /\ visit[d].parent \in Tokens /\ Kept(visit[d].parent)
  BY <1>5, MovesExchange, ParentKnown
<1>6. ASSUME NEW d \in Doors PROVE StillValid(d)'
  <2> SUFFICES ASSUME Exchanges(d)', at'[d] # "insert"
               PROVE  ~tokens'[visit'[d].parent].revoked
    BY DEF StillValid
  <2>1. at[d] # "insert"
    BY <1>5 DEF Leads
  <2> QED BY <1>5, <2>1 DEF CInv, StillValid
<1>7. ASSUME NEW d \in Doors PROVE OnlyHeir(d)'
  <2>1. CASE at[d] = "insert"
    <3> SUFFICES ASSUME Exchanges(d)', at'[d] = "insert", NEW t \in Tokens, Valid(t)',
                        tokens'[t].first = tokens'[visit'[d].parent].first
                 PROVE  Disputed(tokens[t].first)'
      BY DEF OnlyHeir
    <3>1. Valid(t) /\ tokens'[t].first = tokens[t].first
      BY <1>3 DEF Valid, Kept
    <3>2. tokens[t].first = tokens[visit[d].parent].first
      BY <1>5, <3>1 DEF Kept
    <3>3. Disputed(tokens[t].first)
      BY <1>5, <2>1, <3>1, <3>2 DEF CInv, OnlyHeir
    <3> QED BY <1>2, <3>1, <3>3
  <2>2. CASE at[d] # "insert"
    BY <2>2 DEF OnlyHeir
  <2> QED BY <2>1, <2>2
<1>8. ASSUME NEW s \in Tokens, NEW t \in Tokens, s # t, Valid(s)', Valid(t)',
             tokens'[s].first = tokens'[t].first
      PROVE  Disputed(tokens[s].first)'
  <2>1. Valid(s) /\ Valid(t) /\ tokens'[s].first = tokens[s].first
        /\ tokens[s].first = tokens[t].first
    BY <1>3, <1>8 DEF Valid, Kept
  <2>2. Disputed(tokens[s].first)
    BY <1>8, <2>1 DEF CInv, OneValid
  <2> QED BY <1>2, <2>1, <2>2
<1>9. OneValid'
  BY <1>8 DEF OneValid
<1> QED BY <1>4, <1>6, <1>7, <1>9 DEF CInv

LEMMA InsertChains ==
    ASSUME TInv, CInv, NEW c \in Doors, Insert(c)
    PROVE  CInv'
<1> DEFINE v == visit[c]
           New(t) == ~Issued(t) /\ tokens'[t] = NewToken(v, t)
<1>1. at[c] = "insert" /\ v \in Visit /\ v # NoVisit
  BY VisitFields DEF Insert
<1>2. \A t \in Tokens : Issued(t) => tokens'[t] = tokens[t] /\ Issued(t)'
  BY InsertT DEF Issued
<1>3. \A t \in Tokens : Issued(t)' => Issued(t) \/ New(t)
  BY InsertT DEF Issued
<1>4. \A s, t \in Tokens : New(s) /\ New(t) => s = t
  <2>1. \A t \in Tokens : NewToken(v, t) # NoToken
    BY <1>1, NewTokenType
  <2> QED BY <2>1, InsertT
<1>5. \A s, t \in Tokens : Disputed(tokens[s].first) /\ tokens'[t].first = tokens[s].first
                           => Disputed(tokens[t].first)'
  BY <1>2, StaysDisputed
<1>6. ASSUME NEW t \in Tokens, New(t)
      PROVE  /\ Issued(t)' /\ tokens'[t].user = v.user /\ tokens'[t].raced = v.raced
             /\ tokens'[t].first = IF v.parent = NoToken THEN t ELSE tokens[v.parent].first
  <2>1. NewToken(v, t) # NoToken
    BY <1>1, NewTokenType
  <2> QED BY <1>6, <2>1 DEF NewToken, Issued
<1>7. v.parent # NoToken
      => /\ v.parent \in Tokens /\ Issued(v.parent) /\ tokens[v.parent].user = v.user
         /\ tokens[v.parent].first \in Tokens /\ Issued(tokens[v.parent].first)
         /\ tokens[tokens[v.parent].first].user = v.user
  BY <1>1, ParentKnown DEF CInv, ChainKnown
<1>8. ASSUME NEW t \in Tokens PROVE ChainKnown(t)'
  <2>1. CASE Issued(t)
    <3>1. tokens[t].first \in Tokens
      BY <2>1, TokenFields
    <3> QED BY <1>2, <2>1, <3>1 DEF CInv, ChainKnown
  <2>2. CASE New(t)
    BY <1>2, <1>6, <1>7, <2>2 DEF ChainKnown
  <2> QED BY <1>3, <2>1, <2>2 DEF ChainKnown
<1>9. ASSUME NEW d \in Doors, Exchanges(d)'
      PROVE  /\ Exchanges(d) /\ visit'[d].parent = visit[d].parent /\ d # c
             /\ at'[d] = at[d] /\ visit[d].user # v.user
             /\ visit[d].parent \in Tokens /\ Issued(visit[d].parent)
             /\ tokens[visit[d].parent].user = visit[d].user
  <2>1. Exchanges(d) /\ visit'[d].parent = visit[d].parent /\ visit[d] # NoVisit
        /\ visit[d].parent # NoToken
    BY <1>9, InsertT, MovesExchange
  <2>2. d # c
    BY <1>9, InsertT DEF Exchanges
  <2>3. at'[d] = at[d]
    BY <2>2, TypeParts DEF Insert, Go
  <2>4. visit[d].user # v.user
    <3>1. CASE visit[d].user = v.user
      <4>1. visit'[d] = [visit[d] EXCEPT !.raced = TRUE] /\ visit[d] \in Visit
        BY <2>1, <2>2, <3>1, InsertT, TypeParts
      <4>2. visit'[d].raced
        BY <4>1 DEF Visit
      <4> QED BY <1>9, <4>2 DEF Exchanges
    <3> QED BY <3>1
  <2> QED BY <2>1, <2>2, <2>3, <2>4, ParentKnown
<1>10. \A d \in Doors : StillValid(d)'
  BY <1>2, <1>9 DEF CInv, StillValid
<1>11. ASSUME NEW d \in Doors PROVE OnlyHeir(d)'
  <2> SUFFICES ASSUME Exchanges(d)', at'[d] = "insert", NEW t \in Tokens, Valid(t)',
                      tokens'[t].first = tokens'[visit'[d].parent].first
               PROVE  Disputed(tokens[t].first)'
    BY DEF OnlyHeir
  <2>1. tokens'[visit'[d].parent] = tokens[visit[d].parent]
    BY <1>2, <1>9
  <2>2. CASE Issued(t)
    <3>1. tokens'[t] = tokens[t] /\ Valid(t)
      BY <1>2, <2>2 DEF Valid
    <3>2. Disputed(tokens[t].first)
      BY <1>9, <2>1, <3>1 DEF CInv, OnlyHeir
    <3> QED BY <1>5, <3>1, <3>2
  <2>3. CASE New(t)
    \* The chain of d is another user's.
    <3>1. tokens[tokens[visit[d].parent].first].user = visit[d].user
          /\ Issued(tokens[visit[d].parent].first)
      BY <1>9 DEF CInv, ChainKnown
    <3>2. tokens'[t].first = tokens[visit[d].parent].first
      BY <2>1
    <3>3. CASE v.parent = NoToken
      BY <1>6, <2>3, <3>1, <3>2, <3>3
    <3>4. CASE v.parent # NoToken
      BY <1>6, <1>7, <1>9, <2>3, <3>1, <3>2, <3>4
    <3> QED BY <3>3, <3>4
  <2> QED BY <1>3, <2>2, <2>3 DEF Valid
<1>12. ASSUME NEW s \in Tokens, NEW t \in Tokens, Issued(s), New(t), Valid(s)',
              tokens'[s].first = tokens'[t].first
       PROVE  Disputed(tokens[s].first)'
  <2>1. tokens'[s] = tokens[s] /\ Valid(s) /\ tokens[s].first \in Tokens
        /\ Issued(tokens[s].first)
    BY <1>2, <1>12, TokenFields DEF Valid, CInv, ChainKnown
  <2>2. v.parent # NoToken /\ tokens[s].first = tokens[v.parent].first
    BY <1>6, <1>12, <2>1
  <2>3. CASE v.raced
    <3>1. Issued(t)' /\ tokens'[t].raced /\ tokens'[t].first = tokens'[s].first
      BY <1>6, <1>12, <2>3
    <3> QED BY <3>1 DEF Disputed
  <2>4. CASE ~v.raced
    <3>1. Disputed(tokens[s].first)
      BY <1>1, <2>1, <2>2, <2>4 DEF CInv, OnlyHeir, Exchanges
    <3> QED BY <1>5, <2>1, <3>1
  <2> QED BY <2>3, <2>4
<1>13. ASSUME NEW s \in Tokens, NEW t \in Tokens, s # t, Valid(s)', Valid(t)',
              tokens'[s].first = tokens'[t].first
       PROVE  Disputed(tokens[s].first)'
  <2>1. CASE Issued(s) /\ Issued(t)
    <3>1. tokens'[s] = tokens[s] /\ tokens'[t] = tokens[t] /\ Valid(s) /\ Valid(t)
      BY <1>2, <1>13, <2>1 DEF Valid
    <3>2. Disputed(tokens[s].first)
      BY <1>13, <3>1 DEF CInv, OneValid
    <3> QED BY <1>5, <3>1, <3>2
  <2>2. CASE Issued(s) /\ New(t)
    BY <1>12, <1>13, <2>2
  <2>3. CASE New(s) /\ Issued(t)
    <3>1. Disputed(tokens[t].first)'
      BY <1>12, <1>13, <2>3
    <3> QED BY <1>13, <3>1
  <2> QED BY <1>3, <1>4, <1>13, <2>1, <2>2, <2>3 DEF Valid
<1>14. OneValid'
  BY <1>13 DEF OneValid
<1> QED BY <1>8, <1>10, <1>11, <1>14 DEF CInv

\* The call that revokes a token is the heir of its chain: the token was the
\* valid one, and is not any more.
LEMMA RevokeChains ==
    ASSUME TInv, CInv, NEW c \in Doors, Revoke(c)
    PROVE  CInv'
<1> DEFINE p == visit[c].parent
<1>1. /\ at[c] = "revoke" /\ visit[c] \in Visit /\ visit[c] # NoVisit /\ p # NoToken
      /\ p \in Tokens /\ Issued(p) /\ tokens[p].user = visit[c].user
  BY VisitFields, ParentKnown DEF Revoke, TInv, Parent
<1>2. at' = [at EXCEPT ![c] = "insert"]
  BY DEF Revoke, Go
<1>3. \/ /\ tokens' = [tokens EXCEPT ![p].revoked = TRUE]
         /\ visit' = Disturbed(c, visit[c].user)
      \/ tokens' = tokens /\ visit' = [visit EXCEPT ![c].raced = TRUE]
  BY DEF Revoke
<1>4. ASSUME NEW d \in Doors, Exchanges(d)', at'[d] # "insert"
      PROVE  tokens'[visit[d].parent].revoked = tokens[visit[d].parent].revoked
  <2>1. d # c
    BY <1>2, <1>4, TypeParts
  <2>2. Exchanges(d) /\ visit[d] # NoVisit /\ visit[d].parent # NoToken
    BY <1>4, RevokeT, MovesExchange
  <2>3. CASE tokens' = tokens
    BY <2>3
  <2>4. CASE /\ tokens' = [tokens EXCEPT ![p].revoked = TRUE]
             /\ visit' = Disturbed(c, visit[c].user)
    <3>1. visit[d].user # visit[c].user
      <4>1. CASE visit[d].user = visit[c].user
        <5>1. visit'[d] = [visit[d] EXCEPT !.raced = TRUE] /\ visit[d] \in Visit
          BY <2>1, <2>2, <2>4, <4>1, TypeParts DEF Disturbed
        <5>2. visit'[d].raced
          BY <5>1 DEF Visit
        <5> QED BY <1>4, <5>2 DEF Exchanges
      <4> QED BY <4>1
    <3>2. visit[d].parent # p /\ visit[d].parent \in Tokens
      BY <1>1, <2>2, <3>1, ParentKnown
    <3> QED BY <2>4, <3>2, TypeParts
  <2> QED BY <1>3, <2>3, <2>4
<1>5. \A d \in Doors : at[d] # "insert" /\ at'[d] = "insert" => d = c
  BY <1>2, TypeParts
<1>6. OnlyHeir(c)'
  <2> SUFFICES ASSUME Exchanges(c)', NEW t \in Tokens, Valid(t)',
                      tokens'[t].first = tokens'[visit'[c].parent].first
               PROVE  Disputed(tokens[t].first)'
    BY DEF OnlyHeir
  <2>1. Exchanges(c) /\ visit'[c].parent = p
    BY RevokeT, MovesExchange
  <2>2. /\ tokens' = [tokens EXCEPT ![p].revoked = TRUE]
    <3>1. CASE visit' = [visit EXCEPT ![c].raced = TRUE]
      <4>1. visit'[c].raced
        BY <1>1, <3>1, TypeParts DEF Visit
      <4> QED BY <4>1 DEF Exchanges
    <3> QED BY <1>3, <3>1
  <2>3. Valid(p)
    BY <1>1, <2>1 DEF CInv, StillValid, Valid
  <2>4. tokens'[p].revoked /\ tokens'[p].first = tokens[p].first
    BY <1>1, <2>2, TypeParts, TokenFields DEF Token
  <2>5. t # p /\ tokens'[t] = tokens[t] /\ Valid(t)
    BY <2>2, <2>4, TypeParts DEF Valid, Issued
  <2>6. Disputed(tokens[t].first)
    BY <1>1, <2>1, <2>3, <2>4, <2>5 DEF CInv, OneValid
  <2>7. \A s \in Tokens : Issued(s) => Issued(s)' /\ Kept(s)
    BY RevokeT DEF Kept, Issued, Token
  <2> QED BY <2>5, <2>6, <2>7, StaysDisputed DEF Kept
<1> QED BY <1>4, <1>5, <1>6, RevokeT, KeptChains

LEMMA LogoutChains ==
    ASSUME TInv, CInv,
           \/ \E r \in Tokens : Logout(r)
           \/ \E u \in Holders : LogoutAll(u)
    PROVE  CInv'
<1>1. UNCHANGED at
  BY DEF Logout, LogoutAll
<1>2. ASSUME NEW r \in Tokens, Logout(r), NEW d \in Doors, Exchanges(d)'
      PROVE  tokens'[visit[d].parent].revoked = tokens[visit[d].parent].revoked
  <2>1. visit[d] # NoVisit /\ visit[d].parent # NoToken
    BY <1>2, LogoutT, MovesExchange
  <2>2. visit[d].user # tokens[r].user
    <3>1. CASE visit[d].user = tokens[r].user
      <4>1. visit'[d] = [visit[d] EXCEPT !.raced = TRUE] /\ visit[d] \in Visit
        BY <1>2, <2>1, <3>1, TypeParts DEF Logout
      <4>2. visit'[d].raced
        BY <4>1 DEF Visit
      <4> QED BY <1>2, <4>2 DEF Exchanges
    <3> QED BY <3>1
  <2>3. visit[d].parent # r /\ visit[d].parent \in Tokens
    BY <2>1, <2>2, ParentKnown
  <2> QED BY <1>2, <2>3, TypeParts DEF Logout
<1>3. ASSUME NEW u \in Holders, LogoutAll(u), NEW d \in Doors, Exchanges(d)'
      PROVE  tokens'[visit[d].parent].revoked = tokens[visit[d].parent].revoked
  <2>1. visit[d] # NoVisit /\ visit[d].parent # NoToken
    BY <1>3, LogoutAllT, MovesExchange
  <2>2. visit[d].user # u
    <3>1. CASE visit[d].user = u
      <4>1. visit'[d] = [visit[d] EXCEPT !.raced = TRUE, !.late = TRUE]
        BY <1>3, <2>1, <3>1 DEF LogoutAll
      <4>2. visit'[d].raced
        BY <2>1, <4>1, TypeParts DEF Visit
      <4> QED BY <1>3, <4>2 DEF Exchanges
    <3> QED BY <3>1
  <2>3. visit[d].parent \in Tokens /\ tokens[visit[d].parent].user # u
    BY <2>1, <2>2, ParentKnown
  <2> QED BY <1>3, <2>3 DEF LogoutAll
<1>4. CASE \E r \in Tokens : Logout(r)
  BY <1>1, <1>2, <1>4, LogoutT, KeptChains
<1>5. CASE \E u \in Holders : LogoutAll(u)
  BY <1>1, <1>3, <1>5, LogoutAllT, KeptChains
<1> QED BY <1>4, <1>5

LEMMA CStep ==
    ASSUME TInv, CInv, [SessionsNext]_sessionVars
    PROVE  CInv'
<1>1. CASE Calm
  <2>1. tokens' = tokens
    BY <1>1 DEF Calm
  <2>2. \A t \in Tokens : Disputed(tokens[t].first) => Disputed(tokens[t].first)'
    BY <2>1 DEF Disputed, Issued
  <2>3. ASSUME NEW d \in Doors, Exchanges(d)'
        PROVE  /\ Exchanges(d) /\ visit'[d] = visit[d]
               /\ at'[d] = "insert" <=> at[d] = "insert"
    <3>1. /\ visit'[d] = visit[d] /\ Leads(at[d], at'[d])
          /\ at'[d] = "insert" => at[d] \in {"insert", "login"}
      BY <1>1, <2>3 DEF Calm, Exchanges
    <3>2. Exchanges(d)
      BY <2>3, <3>1 DEF Exchanges
    <3>3. at[d] # "login"
      BY <3>2 DEF TInv, Parent, Exchanges
    <3> QED BY <3>1, <3>2, <3>3 DEF Leads
  <2>4. \A d \in Doors : StillValid(d)' /\ OnlyHeir(d)'
    BY <2>1, <2>2, <2>3 DEF CInv, StillValid, OnlyHeir, Valid, Issued
  <2>5. (\A t \in Tokens : ChainKnown(t)') /\ OneValid'
    BY <2>1, <2>2 DEF CInv, ChainKnown, OneValid, Valid, Issued
  <2> QED BY <2>4, <2>5 DEF CInv
<1>2. ASSUME NEW c \in Doors, NEW l \in Doing, NEW v \in Visit, Begins(c, l, v)
      PROVE  CInv'
  <2>1. /\ tokens' = tokens /\ visit' = [visit EXCEPT ![c] = v]
        /\ at' = [at EXCEPT ![c] = l]
        /\ v.parent # NoToken => /\ l = "user" /\ v.parent \in Tokens
                                 /\ ~tokens[v.parent].revoked
    BY <1>2 DEF Begins, Enter, Usable
  <2>2. \A t \in Tokens : Disputed(tokens[t].first) => Disputed(tokens[t].first)'
    BY <2>1 DEF Disputed, Issued
  <2>3. ASSUME NEW d \in Doors PROVE StillValid(d)' /\ OnlyHeir(d)'
    <3>1. CASE d = c
      BY <2>1, <3>1, TypeParts DEF StillValid, OnlyHeir, Exchanges
    <3>2. CASE d # c
      BY <2>1, <2>2, <3>2, TypeParts DEF CInv, StillValid, OnlyHeir, Exchanges, Valid, Issued
    <3> QED BY <3>1, <3>2
  <2>4. (\A t \in Tokens : ChainKnown(t)') /\ OneValid'
    BY <2>1, <2>2 DEF CInv, ChainKnown, OneValid, Valid, Issued
  <2> QED BY <2>3, <2>4 DEF CInv
<1> QED BY <1>1, <1>2, InsertChains, RevokeChains, LogoutChains, StepKinds

\* A refresh token is exchanged once unless the exchanges raced or a
\* revocation was lost, and a sign-in has one valid token at a time
\* (AuthService.RefreshToken).
THEOREM SessionsRotation == SessionsSpec => []RotatedOnce
<1>1. SessionsInit => TInv /\ RInv /\ CInv
  <2> SUFFICES ASSUME SessionsInit PROVE TInv /\ RInv /\ CInv
    OBVIOUS
  <2>1. /\ \A t \in Tokens : ~Issued(t)
        /\ \A d \in Doors : at[d] = "idle" /\ visit[d] = NoVisit
    BY DEF SessionsInit, Issued
  <2>2. RInv
    BY <2>1 DEF RInv, TokenSpent, VisitSpent, VisitLate, ExchangedOnce
  <2>3. CInv
    BY <2>1 DEF CInv, ChainKnown, StillValid, OnlyHeir, OneValid, Exchanges, Valid
  <2> QED BY <2>2, <2>3, TInit
<1>2. SessionsSpec => [](TInv /\ RInv /\ CInv)
  BY <1>1, StepKinds, RStep, CStep, PTL DEF SessionsSpec
<1>3. RInv /\ CInv => RotatedOnce
  BY DEF RInv, CInv, ExchangedOnce, OneValid, Valid, RotatedOnce
<1> QED BY <1>2, <1>3, PTL

---------------------------------------------------------------------------
(* The lock: as long as sign-ins of a user come one at a time, the count    *)
(* each has read is the number of wrong passwords, so that the one that     *)
(* reaches MaxFailedLoginAttempts goes on to lock the account.              *)

Guessing == {"password", "increment"}

Counts(u) ==
    /\ acct[u].failed = wrong[u].count
    /\ \A d \in Doors : SigningIn(d, u) /\ at[d] \in Guessing => visit[d].failed = acct[u].failed
    /\ wrong[u].count >= MaxFailed /\ (\A d \in Doors : SigningIn(d, u) => at[d] # "lock")
       => acct[u].lockedUntil >= wrong[u].last + LockTime

Alone(u) == \A d, e \in Doors : SigningIn(d, u) /\ SigningIn(e, u) => d = e

K(u) ==
    /\ wrong[u].last <= now
    /\ wrong[u].serial => Alone(u)
    /\ wrong[u].serial /\ Present(u) => Counts(u)

WInv == \A u \in Holders : K(u)

\* What a step means to the sign-ins of a user it is not about.
Still(d, u) ==
    /\ SigningIn(d, u)' => /\ SigningIn(d, u) /\ visit'[d].failed = visit[d].failed
                           /\ at'[d] \in Guessing => at[d] \in Guessing
    /\ SigningIn(d, u) /\ at[d] = "lock" => SigningIn(d, u)' /\ at'[d] = "lock"

LEMMA StillSame ==
    ASSUME NEW d \in Doors, NEW u \in Holders, visit'[d] = visit[d], at'[d] = at[d]
    PROVE  Still(d, u)
BY DEF Still, SigningIn

LEMMA StillOther ==
    ASSUME NEW d \in Doors, NEW u \in Holders, visit[d].user # u,
           at'[d] = "idle" \/ visit'[d].user = visit[d].user
    PROVE  Still(d, u)
BY DEF Still, SigningIn

LEMMA StillMoved ==
    ASSUME TInv, NEW d \in Doors, NEW u \in Holders, Moves(d),
           at'[d] = at[d] \/ at[d] \in {"revoke", "insert"}
    PROVE  Still(d, u)
<1>1. CASE visit'[d] # NoVisit
  BY <1>1, MovesGoes DEF Still, SigningIn, Goes, Leads, Guessing
<1>2. CASE visit'[d] = NoVisit
  <2>1. at'[d] = "idle" /\ at[d] # "lock"
    <3>1. visit[d] = NoVisit => at[d] = "idle"
      BY TypeParts
    <3>2. ~Marked(d, visit'[d])
      BY <1>2, MarkedGoes DEF Goes
    <3>3. at'[d] = "idle"
      BY <1>2, <3>1, <3>2 DEF Moves
    <3> QED BY <3>3
  <2> QED BY <2>1 DEF Still, SigningIn
<1> QED BY <1>1, <1>2

LEMMA KFrame ==
    ASSUME NEW u \in Holders, K(u), wrong'[u] = wrong[u], wrong[u].last \in Nat,
           now \in Nat, now' \in Nat, now <= now',
           acct'[u].failed = acct[u].failed, acct'[u].lockedUntil = acct[u].lockedUntil,
           Present(u)' => Present(u), \A d \in Doors : Still(d, u)
    PROVE  K(u)'
<1>1. Alone(u) => Alone(u)'
  BY DEF Alone, Still
<1>2. Counts(u) => Counts(u)'
  BY DEF Counts, Still
<1>3. wrong'[u].last <= now'
  BY DEF K
<1> QED BY <1>1, <1>2, <1>3 DEF K

LEMMA KLost ==
    ASSUME TInv, NEW u \in Holders, K(u), Lose(u), now' = now
    PROVE  K(u)'
<1>1. wrong[u] \in Wrong /\ wrong'[u] = [wrong[u] EXCEPT !.serial = FALSE]
  BY TypeParts DEF Lose
<1>2. ~wrong'[u].serial /\ wrong'[u].last = wrong[u].last
  BY <1>1 DEF Wrong
<1> QED BY <1>2 DEF K

LEMMA Numbers ==
    ASSUME TInv, NEW u \in Holders
    PROVE  /\ acct[u].failed \in Nat /\ acct[u].lockedUntil \in Nat /\ now \in Nat
           /\ wrong[u].count \in Nat /\ wrong[u].last \in Nat /\ wrong[u].serial \in BOOLEAN
BY TypeParts DEF Account, Wrong

\* A statement of a call leaves the other users alone.
LEMMA KOther ==
    ASSUME TInv, NEW c \in Doors, NEW u \in Holders, K(u), visit[c].user # u,
           NEW l \in Doing, at' = [at EXCEPT ![c] = l],
           visit' = visit \/ (l = "idle" /\ visit' = [visit EXCEPT ![c] = NoVisit]),
           acct'[u] = acct[u], wrong'[u] = wrong[u], now' = now
    PROVE  K(u)'
<1>1. ASSUME NEW d \in Doors PROVE Still(d, u)
  <2>1. CASE d = c
    BY <2>1, StillOther, TypeParts
  <2>2. CASE d # c
    BY <2>2, StillSame, TypeParts
  <2> QED BY <2>1, <2>2
<1>2. Present(u)' => Present(u)
  BY DEF Present
<1> QED BY <1>1, <1>2, KFrame, Numbers

LEMMA KIncrement ==
    ASSUME TInv, WInv, NEW c \in Doors, IncrementFailedLogin(c), NEW u \in Holders
    PROVE  K(u)'
<1>1. /\ at[c] = "increment" /\ visit[c].user \in Holders /\ visit[c].op = "signIn"
      /\ visit[c].failed \in Nat
  BY VisitFields DEF IncrementFailedLogin, TInv, Parent
<1>2. PICK l \in {"lock", "idle"} :
         /\ at' = [at EXCEPT ![c] = l] /\ (l = "lock" <=> Exceeds(c)) /\ now' = now
         /\ l = "lock" => visit' = visit
         /\ l = "idle" => visit' = [visit EXCEPT ![c] = NoVisit]
  BY DEF IncrementFailedLogin, AfterIncrement, Leave, Go
<1>3. CASE visit[c].user # u
  <2>1. acct'[u] = acct[u] /\ wrong'[u] = wrong[u]
    BY <1>1, <1>3, TypeParts DEF IncrementFailedLogin, Lose
  <2> QED BY <1>2, <1>3, <2>1, KOther DEF WInv, Doing
<1>4. CASE visit[c].user = u /\ Lose(u)
  BY <1>2, <1>4, KLost DEF WInv
<1>5. CASE /\ visit[c].user = u
           /\ acct' = [acct EXCEPT ![u].failed = IF Present(u) THEN @ + 1 ELSE @]
           /\ wrong' = [wrong EXCEPT ![u] = [count |-> @.count + 1, last |-> now, serial |-> @.serial]]
  <2>1. /\ wrong'[u].count = wrong[u].count + 1 /\ wrong'[u].last = now
        /\ wrong'[u].serial = wrong[u].serial
    BY <1>5, TypeParts
  <2>2. /\ acct'[u].status = acct[u].status
        /\ acct'[u].failed = IF Present(u) THEN acct[u].failed + 1 ELSE acct[u].failed
        /\ acct'[u].lockedUntil = acct[u].lockedUntil
    BY <1>5, TypeParts DEF Account
  <2>3. SigningIn(c, u)
    BY <1>1, <1>5 DEF SigningIn
  <2>4. ASSUME NEW d \in Doors, SigningIn(d, u)'
        PROVE  SigningIn(d, u) /\ at'[d] = (IF d = c THEN "lock" ELSE at[d])
    BY <1>2, <2>3, <2>4, TypeParts DEF SigningIn
  <2>5. K(u)
    BY DEF WInv
  <2>6. Alone(u) => Alone(u)'
    BY <2>4 DEF Alone
  <2>7. ASSUME wrong[u].serial, Present(u), Alone(u), Counts(u)
        PROVE  Counts(u)'
    <3>1. acct'[u].failed = wrong'[u].count
      BY <2>1, <2>2, <2>7 DEF Counts
    <3>2. \A d \in Doors : SigningIn(d, u)' => d = c /\ at'[d] = "lock"
      BY <2>3, <2>4, <2>7 DEF Alone
    <3>3. visit[c].failed = wrong[u].count
      BY <1>1, <2>3, <2>7 DEF Counts, Guessing
    <3>4. Exceeds(c) <=> wrong[u].count + 1 >= MaxFailed
      BY <3>3 DEF Exceeds
    <3>5. CASE Exceeds(c)
      <4>1. SigningIn(c, u)' /\ at'[c] = "lock"
        BY <1>1, <1>2, <1>5, <3>5, TypeParts DEF SigningIn
      <4> QED BY <3>1, <3>2, <4>1 DEF Counts, Guessing
    <3>6. CASE ~Exceeds(c)
      BY <2>1, <3>1, <3>2, <3>4, <3>6 DEF Counts, Guessing
    <3> QED BY <3>5, <3>6
  <2>8. wrong'[u].last <= now'
    BY <1>2, <2>1, Numbers
  <2>9. Present(u)' <=> Present(u)
    BY <2>2 DEF Present
  <2> QED BY <2>1, <2>5, <2>6, <2>7, <2>8, <2>9 DEF K
<1> QED BY <1>3, <1>4, <1>5 DEF IncrementFailedLogin

LEMMA KLock ==
    ASSUME TInv, WInv, NEW c \in Doors, LockUser(c), NEW u \in Holders
    PROVE  K(u)'
<1>1. at[c] = "lock" /\ visit[c].user \in Holders /\ visit[c].op = "signIn"
  BY VisitFields DEF LockUser, TInv, Parent
<1>2. /\ at' = [at EXCEPT ![c] = "idle"] /\ visit' = [visit EXCEPT ![c] = NoVisit]
      /\ now' = now
  BY DEF LockUser, Leave, Go
<1>3. CASE visit[c].user # u
  <2>1. acct'[u] = acct[u] /\ wrong'[u] = wrong[u]
    BY <1>1, <1>3, TypeParts DEF LockUser, Lose
  <2> QED BY <1>2, <1>3, <2>1, KOther DEF WInv, Doing
<1>4. CASE visit[c].user = u /\ Lose(u)
  BY <1>2, <1>4, KLost DEF WInv
<1>5. CASE /\ visit[c].user = u /\ wrong' = wrong
           /\ acct' = [acct EXCEPT ![u].lockedUntil = IF Present(u) THEN now + LockTime ELSE @]
  <2>1. /\ acct'[u].status = acct[u].status /\ acct'[u].failed = acct[u].failed
        /\ Present(u) => acct'[u].lockedUntil = now + LockTime
    BY <1>5, TypeParts DEF Account
  <2>2. SigningIn(c, u)
    BY <1>1, <1>5 DEF SigningIn
  <2>3. ASSUME NEW d \in Doors, SigningIn(d, u)'
        PROVE  SigningIn(d, u) /\ d # c
    BY <1>2, <2>3, TypeParts DEF SigningIn
  <2>4. K(u)
    BY DEF WInv
  <2>5. Alone(u) => Alone(u)' /\ \A d \in Doors : ~SigningIn(d, u)'
    BY <2>2, <2>3 DEF Alone
  <2>6. ASSUME wrong[u].serial, Present(u), Alone(u), Counts(u)
        PROVE  Counts(u)'
    <3>1. acct'[u].failed = wrong'[u].count
      BY <1>5, <2>1, <2>6 DEF Counts
    <3>2. acct'[u].lockedUntil >= wrong'[u].last + LockTime
      BY <1>5, <2>1, <2>4, <2>6, Numbers DEF K
    <3> QED BY <2>5, <2>6, <3>1, <3>2 DEF Counts
  <2>7. Present(u)' <=> Present(u)
    BY <2>1 DEF Present
  <2> QED BY <1>2, <1>5, <2>4, <2>5, <2>6, <2>7 DEF K
<1> QED BY <1>3, <1>4, <1>5 DEF LockUser

LEMMA KLogin ==
    ASSUME TInv, WInv, NEW c \in Doors, UpdateLastLogin(c), NEW u \in Holders
    PROVE  K(u)'
<1>1. at[c] = "login" /\ visit[c].user \in Holders
  BY VisitFields DEF UpdateLastLogin
<1>2. at' = [at EXCEPT ![c] = "insert"] /\ visit' = visit /\ now' = now
  BY DEF UpdateLastLogin, Go
<1>3. CASE visit[c].user # u
  <2>1. acct'[u] = acct[u] /\ wrong'[u] = wrong[u]
    BY <1>1, <1>3, TypeParts DEF UpdateLastLogin, Lose
  <2> QED BY <1>2, <1>3, <2>1, KOther DEF WInv, Doing
<1>4. CASE visit[c].user = u /\ Lose(u)
  BY <1>2, <1>4, KLost DEF WInv
<1> DEFINE only == \A e \in Doors \ {c} : ~SigningIn(e, u)
<1>5. CASE /\ visit[c].user = u
           /\ acct' = [acct EXCEPT ![u].failed = 0, ![u].lockedUntil = 0]
           /\ wrong' = [wrong EXCEPT ![u] = [count |-> 0, last |-> 0, serial |-> only]]
  <2>1. wrong'[u].count = 0 /\ wrong'[u].last = 0 /\ wrong'[u].serial = only
    BY <1>5, TypeParts
  <2>2. acct'[u].failed = 0
    BY <1>5, TypeParts DEF Account
  <2>3. ASSUME only, NEW d \in Doors, SigningIn(d, u)'
        PROVE  d = c /\ at'[d] = "insert"
    BY <1>2, <2>3, TypeParts DEF SigningIn
  <2>4. only => Alone(u)' /\ Counts(u)'
    BY <2>1, <2>2, <2>3 DEF Alone, Counts, Guessing
  <2>5. wrong'[u].last <= now'
    BY <1>2, <2>1, Numbers
  <2> QED BY <2>1, <2>4, <2>5 DEF K
<1> QED BY <1>3, <1>4, <1>5 DEF UpdateLastLogin

\* A step that touches neither accounts nor their history.
LEMMA KQuiet ==
    ASSUME TInv, WInv, UNCHANGED <<acct, wrong, now>>, NEW u \in Holders,
           \A d \in Doors : Still(d, u)
    PROVE  K(u)'
<1>1. Present(u)' => Present(u)
  BY DEF Present
<1> QED BY <1>1, KFrame, Numbers DEF WInv

LEMMA KBegin ==
    ASSUME TInv, WInv, NEW c \in Doors, NEW x \in Holders, NEW u \in Holders,
           NEW op \in {"signIn", "google"}, NEW l \in {"password", "login"},
           Enter(c, l, Comes(op, x)), Overlaps(x)
    PROVE  K(u)'
<1>1. /\ at[c] = "idle" /\ at' = [at EXCEPT ![c] = l]
      /\ visit' = [visit EXCEPT ![c] = Comes(op, x)] /\ UNCHANGED <<acct, now>>
  BY DEF Enter
<1>2. \A d \in Doors \ {c} : Still(d, u)
  BY <1>1, StillSame, TypeParts
<1>3. Comes(op, x).user = x /\ Comes(op, x).failed = acct[x].failed
  BY DEF Comes
<1>4. ~SigningIn(c, u)
  BY <1>1 DEF SigningIn
<1>5. CASE x # u
  <2>1. Still(c, u)
    BY <1>1, <1>3, <1>4, <1>5, TypeParts DEF Still, SigningIn
  <2>2. wrong'[u] = wrong[u]
    BY <1>5, TypeParts DEF Overlaps
  <2>3. Present(u)' => Present(u)
    BY <1>1 DEF Present
  <2> QED BY <1>1, <1>2, <2>1, <2>2, <2>3, KFrame, Numbers DEF WInv
<1>6. CASE x = u
  <2> DEFINE quiet == \A d \in Doors : ~SigningIn(d, u)
  <2>1. /\ wrong'[u].count = wrong[u].count /\ wrong'[u].last = wrong[u].last
        /\ wrong'[u].serial = (wrong[u].serial /\ quiet)
    <3> DEFINE b == wrong[u].serial /\ quiet
    <3>1. wrong' = [wrong EXCEPT ![u].serial = b] /\ wrong[u] \in Wrong
      BY <1>6, TypeParts DEF Overlaps
    <3> HIDE DEF b
    <3>2. /\ wrong'[u].count = wrong[u].count /\ wrong'[u].last = wrong[u].last
          /\ wrong'[u].serial = b
      BY <3>1, TypeParts DEF Wrong
    <3> QED BY <3>2 DEF b
  <2>2. K(u)
    BY DEF WInv
  <2>3. ASSUME quiet, NEW d \in Doors, SigningIn(d, u)'
        PROVE  d = c /\ at'[d] # "lock" /\ visit'[d].failed = acct[u].failed
    <3>1. d = c
      BY <1>1, <2>3, TypeParts DEF SigningIn
    <3> QED BY <1>1, <1>3, <1>6, <3>1, TypeParts
  <2>4. quiet => Alone(u)'
    BY <2>3 DEF Alone
  <2>5. ASSUME wrong[u].serial, quiet, Counts(u) PROVE Counts(u)'
    <3>1. acct[u].lockedUntil >= wrong[u].last + LockTime \/ ~(wrong[u].count >= MaxFailed)
      BY <2>5 DEF Counts
    <3> QED BY <1>1, <2>1, <2>3, <2>5, <3>1 DEF Counts
  <2>6. Present(u)' <=> Present(u)
    BY <1>1 DEF Present
  <2> QED BY <1>1, <2>1, <2>2, <2>4, <2>5, <2>6 DEF K
<1> QED BY <1>5, <1>6

\* A switch or a refresh is no sign-in.
LEMMA KEnter ==
    ASSUME TInv, WInv, NEW c \in Doors, NEW u \in Holders, NEW l, NEW v,
           Enter(c, l, v), v.op \in {"refresh", "switch"}, wrong' = wrong
    PROVE  K(u)'
<1>1. /\ at[c] = "idle" /\ at' = [at EXCEPT ![c] = l] /\ visit' = [visit EXCEPT ![c] = v]
      /\ UNCHANGED <<acct, now>>
  BY DEF Enter
<1>2. \A d \in Doors \ {c} : Still(d, u)
  BY <1>1, StillSame, TypeParts
<1>3. Still(c, u)
  BY <1>1, TypeParts DEF Still, SigningIn
<1> QED BY <1>1, <1>2, <1>3, KQuiet

LEMMA KCall ==
    ASSUME TInv, WInv, NEW c \in Doors, SessionCall(c), NEW u \in Holders
    PROVE  K(u)'
<1>1. CASE \E x \in Holders : SignIn(c, x) \/ GoogleSignIn(c, x)
  BY <1>1, KBegin DEF SignIn, GoogleSignIn
<1>2. CASE \E x \in Holders : SwitchCompany(c, x)
  BY <1>2, KEnter DEF SwitchCompany, Comes
<1>3. CASE \E t \in Tokens : RefreshToken(c, t)
  BY <1>3, KEnter DEF RefreshToken, Exchange
<1>4. CASE ComparePassword(c)
  <2>1. PICK l \in {"login", "increment"} : at' = [at EXCEPT ![c] = l]
    BY <1>4 DEF ComparePassword, Go
  <2>2. at[c] = "password" /\ UNCHANGED <<acct, wrong, visit, now>>
    BY <1>4 DEF ComparePassword, Go
  <2>3. \A d \in Doors : Still(d, u)
    BY <2>1, <2>2, TypeParts DEF Still, SigningIn, Guessing
  <2> QED BY <2>2, <2>3, KQuiet
<1>5. CASE IncrementFailedLogin(c)
  BY <1>5, KIncrement
<1>6. CASE LockUser(c)
  BY <1>6, KLock
<1>7. CASE UpdateLastLogin(c)
  BY <1>7, KLogin
<1>8. CASE FindUser(c)
  <2>1. PICK l \in {"revoke", "idle"} :
           /\ at[c] = "user" /\ at' = [at EXCEPT ![c] = l] /\ UNCHANGED <<acct, wrong, now>>
           /\ l = "revoke" => visit' = visit
           /\ l = "idle" => visit' = [visit EXCEPT ![c] = NoVisit]
    BY <1>8 DEF FindUser, Leave, Go
  <2>2. Still(c, u)
    BY <2>1, TypeParts DEF Still, SigningIn, Guessing
  <2>3. \A d \in Doors \ {c} : Still(d, u)
    BY <2>1, StillSame, TypeParts
  <2> QED BY <2>1, <2>2, <2>3, KQuiet
<1>9. CASE Revoke(c)
  <2>1. \A d \in Doors : Moves(d)
    BY <1>9, RevokeT
  <2>2. /\ at[c] = "revoke" /\ UNCHANGED <<acct, wrong, now>>
        /\ \A d \in Doors \ {c} : at'[d] = at[d]
    BY <1>9, TypeParts DEF Revoke, Go
  <2> QED BY <2>1, <2>2, StillMoved, KQuiet
<1>10. CASE Insert(c)
  <2>1. \A d \in Doors : Moves(d)
    BY <1>10, InsertT
  <2>2. /\ at[c] = "insert" /\ UNCHANGED <<acct, wrong, now>>
        /\ \A d \in Doors \ {c} : at'[d] = at[d]
    BY <1>10, TypeParts DEF Insert, Go
  <2> QED BY <2>1, <2>2, StillMoved, KQuiet
<1>11. CASE Abandon(c)
  <2>1. /\ visit[c].user \in Holders /\ UNCHANGED <<acct, now>> /\ Lose(visit[c].user)
        /\ at' = [at EXCEPT ![c] = "idle"] /\ visit' = [visit EXCEPT ![c] = NoVisit]
    BY <1>11, VisitFields DEF Abandon, Leave, Go
  <2>2. CASE visit[c].user = u
    BY <2>1, <2>2, KLost DEF WInv
  <2>3. CASE visit[c].user # u
    <3>1. wrong'[u] = wrong[u]
      BY <2>1, <2>3, TypeParts DEF Lose
    <3> QED BY <2>1, <2>3, <3>1, KOther DEF WInv, Doing
  <2> QED BY <2>2, <2>3
<1> QED BY <1>1, <1>2, <1>3, <1>4, <1>5, <1>6, <1>7, <1>8, <1>9, <1>10, <1>11 DEF SessionCall

LEMMA KStep ==
    ASSUME TInv, WInv, [SessionsNext]_sessionVars
    PROVE  WInv'
<1> SUFFICES ASSUME NEW u \in Holders PROVE K(u)'
  BY DEF WInv
<1>1. CASE UNCHANGED sessionVars
  BY <1>1, StillSame, KQuiet DEF sessionVars
<1>2. CASE \E c \in Doors : SessionCall(c)
  BY <1>2, KCall
<1>3. ASSUME NEW r \in Tokens, Logout(r) PROVE K(u)'
  <2>1. (\A d \in Doors : Moves(d) /\ at'[d] = at[d]) /\ UNCHANGED <<acct, wrong, now>>
    BY <1>3, LogoutT DEF Logout
  <2> QED BY <2>1, StillMoved, KQuiet
<1>4. ASSUME NEW x \in Holders, LogoutAll(x) PROVE K(u)'
  <2>1. (\A d \in Doors : Moves(d) /\ at'[d] = at[d]) /\ UNCHANGED <<acct, wrong, now>>
    BY <1>4, LogoutAllT DEF LogoutAll
  <2> QED BY <2>1, StillMoved, KQuiet
<1>5. ASSUME NEW x \in Holders, SetStatus(x) PROVE K(u)'
  <2>1. /\ UNCHANGED <<wrong, now>> /\ \A d \in Doors : Still(d, u)
    BY <1>5, StillSame DEF SetStatus
  <2>2. acct'[u].failed = acct[u].failed /\ acct'[u].lockedUntil = acct[u].lockedUntil
    BY <1>5, TypeParts DEF SetStatus, Account
  <2>3. Present(u)' => Present(u)
    <3>1. CASE u = x
      BY <1>5, <3>1 DEF SetStatus
    <3>2. CASE u # x
      BY <1>5, <3>2, TypeParts DEF SetStatus, Present
    <3> QED BY <3>1, <3>2
  <2> QED BY <2>1, <2>2, <2>3, KFrame, Numbers DEF WInv
<1>6. CASE Tick
  <2>1. /\ UNCHANGED <<wrong, acct>> /\ now' = now + 1 /\ \A d \in Doors : Still(d, u)
    BY <1>6, StillSame DEF Tick
  <2>2. Present(u)' => Present(u)
    BY <2>1 DEF Present
  <2> QED BY <2>1, <2>2, KFrame, Numbers DEF WInv
<1> QED BY <1>1, <1>2, <1>3, <1>4, <1>5, <1>6 DEF SessionsNext

\* MaxFailedLoginAttempts wrong passwords in a row, one at a time, lock the
\* account for LockDuration from the last of them (AuthService.SignIn).
THEOREM SessionsLock == SessionsSpec => []LockHolds
<1>1. SessionsInit => TInv /\ WInv
  <2> SUFFICES ASSUME SessionsInit PROVE TInv /\ WInv
    OBVIOUS
  <2>1. ASSUME NEW u \in Holders PROVE K(u)
    BY DEF SessionsInit, K, Alone, Counts, SigningIn
  <2> QED BY <2>1, TInit DEF WInv
<1>2. SessionsSpec => [](TInv /\ WInv)
  BY <1>1, StepKinds, KStep, PTL DEF SessionsSpec
<1>3. WInv => LockHolds
  BY DEF WInv, K, Counts, LockHolds
<1> QED BY <1>2, <1>3, PTL

=============================================================================
