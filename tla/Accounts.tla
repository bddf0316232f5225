------------------------------ MODULE Accounts ------------------------------
(***************************************************************************)
(* How users come to be and change: AuthService.SignUp, SignInWithGoogle   *)
(* and UserService.  Sign-up inserts a user, his client, company,          *)
(* membership and branch one by one, without a transaction; uniqueness of  *)
(* e-mail, user name and slug is probed first and decided by partial       *)
(* unique indexes.  Update and UpdateMe write back the row they read.      *)
(*                                                                         *)
(* E-mails, user names and slugs are values compared for equality; a slug  *)
(* spells the user name it derives from.  Of a Google account the model    *)
(* keeps its id and e-mail.  Full name, phone and avatar are left out.     *)
(***************************************************************************)
EXTENDS Integers, FiniteSets

CONSTANTS
    UserIds,     \* ids of users; bounds the users ever inserted
    Emails, Names,
    Googles,     \* Google accounts
    Servers,     \* goroutines serving calls, one at a time each
    EmailOf,     \* Google account -> its e-mail
    NameOf,      \* e-mail -> the user name derived from it
    MaxAllocs,   \* candidates tried for a user name or slug
    MaxActs,     \* bounds the calls ever begun
    Breaks,      \* whether statements may fail
    NoUser, NoName, NoAct, NoLink

ASSUME GoogleAssumption == EmailOf \in [Googles -> Emails] /\ NameOf \in [Emails -> Names]
ASSUME ActsAssumption == MaxAllocs \in Nat \ {0} /\ MaxActs \in Nat /\ Breaks \in BOOLEAN

VARIABLES
    users,     \* core.users: id -> row
    slugs,     \* user -> slug of the client he owns
    rows,      \* user -> what else of his own tenant exists
    identity,  \* core.user_identities: Google account -> link
    todo,      \* server -> the statement its call executes next
    act,       \* server -> what its call was asked and has read
    acts       \* calls begun so far

accountVars == <<users, slugs, rows, identity, todo, act, acts>>

\* password: which one is set; a user that Google brought has none.
Passwords == {"none", "first", "second"}
User == [email : Emails, name : Names, active : BOOLEAN, password : Passwords, deleted : BOOLEAN]
Fields == {"email", "name", "active", "password"}
Tenant == {"company", "member", "branch"}

\* own: linked by the call that created the user (history).
Link == [user : UserIds, own : BOOLEAN]

\* row: what is to be inserted or written; cand: the name or slug probed;
\* asked: fields the request sets; touched: fields of the user other calls
\* have written since the call began (history).
Act == [op : {"signUp", "google", "create", "update", "updateMe", "delete", "password", "client"},
        user : UserIds \cup {NoUser}, row : User, cand : Names \cup {NoName},
        tries : 0 .. MaxAllocs, google : Googles \cup {NoLink},
        asked : SUBSET Fields, touched : SUBSET Fields]

Todo == {"idle", "email", "name", "username", "user", "slug", "client", "reslug", "company", "member",
         "branch", "identity", "resume", "byEmail", "write", "delete", "password", "done"}

ASSUME NothingAssumed ==
    /\ NoUser \notin User \cup UserIds
    /\ NoName \notin Names
    /\ NoAct \notin Act
    /\ NoLink \notin Link \cup Googles

-----------------------------------------------------------------------------
\* WHERE deleted_at IS NULL
Lives(table, i) == table[i] # NoUser /\ ~table[i].deleted

\* users_email_active_key, users_username_active_key
UniqueUsers(table) ==
    \A i, j \in UserIds :
        i # j /\ Lives(table, i) /\ Lives(table, j)
        => table[i].email # table[j].email /\ table[i].name # table[j].name

EmailExists(e, self) == \E i \in UserIds \ {self} : Lives(users, i) /\ users[i].email = e

UsernameExists(n, self) == \E i \in UserIds \ {self} : Lives(users, i) /\ users[i].name = n

Used(row, self) == EmailExists(row.email, self) \/ UsernameExists(row.name, self)

SlugExists(n) == \E i \in UserIds : slugs[i] = n

NewUser(e, n) == [email |-> e, name |-> n, active |-> TRUE, password |-> "first", deleted |-> FALSE]

\* Some users have their tenant from before, or belong to another's.
AccountsInit ==
    /\ users \in [UserIds -> {NoUser} \cup {NewUser(e, NameOf[e]) : e \in Emails}]
    /\ UniqueUsers(users)
    /\ \E owners \in SUBSET {i \in UserIds : users[i] # NoUser} :
          /\ slugs = [i \in UserIds |-> IF i \in owners THEN users[i].name ELSE NoName]
          /\ rows = [i \in UserIds |-> CASE i \in owners -> Tenant
                                         [] users[i] # NoUser /\ i \notin owners -> {"member"}
                                         [] OTHER -> {}]
    /\ identity = [g \in Googles |-> NoLink]
    /\ todo = [s \in Servers |-> "idle"]
    /\ act = [s \in Servers |-> NoAct]
    /\ acts = 0

-----------------------------------------------------------------------------
(* Calls. *)

Call(s, label, a) ==
    /\ todo[s] = "idle"
    /\ acts < MaxActs
    /\ acts' = acts + 1
    /\ todo' = [todo EXCEPT ![s] = label]
    /\ act' = [act EXCEPT ![s] = a]
    /\ UNCHANGED <<users, slugs, rows, identity>>

Asks(op, i, row, asked) ==
    [op |-> op, user |-> i, row |-> row, cand |-> NoName, tries |-> 0, google |-> NoLink,
     asked |-> asked, touched |-> {}]

\* SignUp, or UserService.Create by an admin.
BeginNewUser(s) ==
    \E op \in {"signUp", "create"}, e \in Emails, n \in Names :
        Call(s, "email", Asks(op, NoUser, NewUser(e, n), Fields))

\* FindByID, then the fields of the request that differ over the row it returns.
BeginUpdateUser(s) ==
    \E i \in UserIds, asked \in SUBSET {"email", "name", "active"},
       e \in Emails, n \in Names, active \in BOOLEAN :
        /\ Lives(users, i)
        /\ "email" \in asked <=> e # users[i].email
        /\ "name" \in asked <=> n # users[i].name
        /\ "active" \in asked <=> active # users[i].active
        /\ Call(s, "email", Asks("update", i, [users[i] EXCEPT !.email = e, !.name = n,
                                                              !.active = active], asked))

\* Mutant: the profile form switches the user on.
BeginUpdateMeActive(s) ==
    \E i \in UserIds :
        Lives(users, i) /\ Call(s, "write", Asks("updateMe", i, [users[i] EXCEPT !.active = TRUE], {}))

BeginUpdateMe(s) ==
    \E i \in UserIds :
        Lives(users, i) /\ Call(s, "write", Asks("updateMe", i, users[i], {}))

BeginDeleteUser(s) ==
    \E i \in UserIds : Lives(users, i) /\ Call(s, "delete", Asks("delete", i, users[i], {}))

\* The current password was right; without one it never is.
BeginChangePassword(s) ==
    \E i \in UserIds :
        /\ Lives(users, i) /\ users[i].password # "none"
        /\ \E p \in Passwords \ {"none", users[i].password} :
              Call(s, "password", Asks("password", i, [users[i] EXCEPT !.password = p], {"password"}))

\* FindBySlug found none.
BeginUpdateClient(s) ==
    \E i \in UserIds, n \in Names :
        /\ slugs[i] # NoName
        /\ ~SlugExists(n)
        /\ Call(s, "reslug", [Asks("client", i, users[i], {}) EXCEPT !.cand = n])

\* FindByProvider
BeginGoogle(s) ==
    \E g \in Googles :
        LET row == [NewUser(EmailOf[g], NameOf[EmailOf[g]]) EXCEPT !.password = "none"]
            k == [Asks("google", NoUser, row, Fields) EXCEPT !.google = g]
        IN  IF identity[g] # NoLink
            THEN Call(s, "resume", [k EXCEPT !.user = identity[g].user])
            ELSE Call(s, "byEmail", k)

-----------------------------------------------------------------------------
(* Statements. *)

Then(s, label) ==
    /\ todo' = [todo EXCEPT ![s] = label]
    /\ UNCHANGED acts

Quit(s) ==
    /\ Then(s, "idle")
    /\ act' = [act EXCEPT ![s] = NoAct]

Probe(s, label, exists, next) ==
    /\ todo[s] = label
    /\ IF exists THEN Quit(s) ELSE Then(s, next) /\ UNCHANGED act
    /\ UNCHANGED <<users, slugs, rows, identity>>

\* An update probes only what it changes.
Asked(s, f) == f \in act[s].asked

After(s) == IF act[s].op = "update" THEN "write" ELSE "user"

CheckEmail(s) ==
    Probe(s, "email", Asked(s, "email") /\ EmailExists(act[s].row.email, act[s].user), "name")

CheckUsername(s) ==
    Probe(s, "name", Asked(s, "name") /\ UsernameExists(act[s].row.name, act[s].user), After(s))

\* A candidate that is used is replaced by one with a random suffix.
Allocate(s, label, base, used, next) ==
    /\ todo[s] = label
    /\ LET cand == IF act[s].cand = NoName THEN base ELSE act[s].cand
       IN  \/ /\ cand \notin used
              /\ act' = [act EXCEPT ![s].cand = cand, ![s].tries = 0]
              /\ Then(s, next)
           \/ /\ cand \in used
              /\ act[s].tries + 1 < MaxAllocs
              /\ \E n \in Names \ {base} : act' = [act EXCEPT ![s].cand = n, ![s].tries = @ + 1]
              /\ Then(s, label)
           \/ /\ cand \in used
              /\ act[s].tries + 1 = MaxAllocs
              /\ Quit(s)
    /\ UNCHANGED <<users, slugs, rows, identity>>

\* allocateUsernameFromEmail
AllocateUsername(s) ==
    Allocate(s, "username", act[s].row.name,
             {users[i].name : i \in {j \in UserIds : Lives(users, j)}}, "user")

\* allocateSlug
AllocateSlug(s) ==
    Allocate(s, "slug", act[s].row.name, {slugs[i] : i \in UserIds}, "client")

\* The statement writes those fields of user i: history of the other calls.
Touch(s, i, fields, mine) ==
    act' = [r \in Servers |-> IF r = s THEN mine
                              ELSE IF act[r] # NoAct /\ act[r].user = i
                              THEN [act[r] EXCEPT !.touched = @ \cup fields]
                              ELSE act[r]]

\* The statement leaves core.users so, or the indexes refuse it.
PutUser(s, table, next) ==
    /\ UniqueUsers(table)
    /\ users' = table
    /\ Then(s, next)

Inserted(s) ==
    IF act[s].cand = NoName THEN act[s].row ELSE [act[s].row EXCEPT !.name = act[s].cand]

\* The admin's call commits the memberships with the user.
InsertUser(s) ==
    /\ todo[s] = "user"
    /\ \E i \in UserIds :
          /\ users[i] = NoUser
          /\ PutUser(s, [users EXCEPT ![i] = Inserted(s)],
                     IF act[s].op = "create" THEN "done" ELSE "slug")
          /\ act' = [act EXCEPT ![s].user = i, ![s].row = Inserted(s), ![s].cand = NoName]
          /\ rows' = [rows EXCEPT ![i] = IF act[s].op = "create" THEN {"member"} ELSE {}]
    /\ UNCHANGED <<slugs, identity>>

\* UPDATE of e-mail, name and the active flag, unless the user was deleted.
WriteUser(s) ==
    /\ todo[s] = "write"
    /\ LET i == act[s].user
           row == [act[s].row EXCEPT !.password = users[i].password, !.deleted = FALSE]
       IN  IF Lives(users, i)
           THEN /\ PutUser(s, [users EXCEPT ![i] = row], "done")
                /\ Touch(s, i, {f \in Fields : users[i][f] # row[f]}, act[s])
           ELSE UNCHANGED <<users, act>> /\ Then(s, "done")
    /\ UNCHANGED <<slugs, rows, identity>>

UpdatePassword(s) ==
    /\ todo[s] = "password"
    /\ LET i == act[s].user
       IN  IF Lives(users, i)
           THEN /\ PutUser(s, [users EXCEPT ![i].password = act[s].row.password], "done")
                /\ Touch(s, i, {"password"}, act[s])
           ELSE UNCHANGED <<users, act>> /\ Then(s, "done")
    /\ UNCHANGED <<slugs, rows, identity>>

SoftDeleteUser(s) ==
    /\ todo[s] = "delete"
    /\ users' = [users EXCEPT ![act[s].user].deleted = TRUE]
    /\ Then(s, "done")
    /\ UNCHANGED <<slugs, rows, identity, act>>

\* Mutant: the slug is trusted since it was allocated.
InsertClientAnyway(s) ==
    /\ todo[s] = "client"
    /\ slugs' = [slugs EXCEPT ![act[s].user] = act[s].cand]
    /\ Then(s, "company")
    /\ UNCHANGED <<users, rows, identity, act>>

\* clients_slug_active_key
InsertClient(s) ==
    /\ todo[s] = "client"
    /\ ~SlugExists(act[s].cand)
    /\ slugs' = [slugs EXCEPT ![act[s].user] = act[s].cand]
    /\ Then(s, "company")
    /\ UNCHANGED <<users, rows, identity, act>>

\* ClientService.Update
UpdateSlug(s) ==
    /\ todo[s] = "reslug"
    /\ ~SlugExists(act[s].cand)
    /\ slugs' = [slugs EXCEPT ![act[s].user] = act[s].cand]
    /\ Then(s, "done")
    /\ UNCHANGED <<users, rows, identity, act>>

\* Mutant: the identity is linked before the branch exists.
NextRowEarly(s) ==
    [company |-> "member", member |-> IF act[s].op = "google" THEN "identity" ELSE "branch",
     branch |-> "done"]

NextRow(s) ==
    [company |-> "member", member |-> "branch",
     branch |-> IF act[s].op = "google" THEN "identity" ELSE "done"]

\* Company, membership and default branch, in this order.
InsertRow(s) ==
    /\ todo[s] \in Tenant
    /\ rows' = [rows EXCEPT ![act[s].user] = @ \cup {todo[s]}]
    /\ Then(s, NextRow(s)[todo[s]])
    /\ UNCHANGED <<users, slugs, identity, act>>

\* The user the identity names, if he still may sign in.
ResumeGoogle(s) ==
    /\ todo[s] = "resume"
    /\ IF Lives(users, act[s].user) /\ users[act[s].user].active
       THEN Then(s, "done") /\ UNCHANGED act
       ELSE Quit(s)
    /\ UNCHANGED <<users, slugs, rows, identity>>

\* FindByEmail: an active user is linked, an unknown one provisioned.
FindByEmail(s) ==
    /\ todo[s] = "byEmail"
    /\ LET found == {i \in UserIds : Lives(users, i) /\ users[i].email = act[s].row.email}
       IN  IF found = {}
           THEN Then(s, "username") /\ UNCHANGED act
           ELSE \E i \in found :
                   IF users[i].active
                   THEN Then(s, "identity") /\ act' = [act EXCEPT ![s].user = i, ![s].asked = {}]
                   ELSE Quit(s)
    /\ UNCHANGED <<users, slugs, rows, identity>>

Creates(s) == act[s].asked = Fields

\* UNIQUE (provider, provider_user_id)
LinkIdentity(s) ==
    /\ todo[s] = "identity"
    /\ LET g == act[s].google
       IN  /\ identity[g] = NoLink
           /\ identity' = [identity EXCEPT ![g] =
                              [user |-> act[s].user, own |-> Creates(s)]]
    /\ Then(s, "done")
    /\ UNCHANGED <<users, slugs, rows, act>>

\* A unique index refuses the row; every call returns the error.
Refused(s) ==
    /\ \/ todo[s] = "user" /\ Used(Inserted(s), NoUser)
       \/ todo[s] = "write" /\ Lives(users, act[s].user) /\ Used(act[s].row, act[s].user)
       \/ todo[s] \in {"client", "reslug"} /\ SlugExists(act[s].cand)
       \/ todo[s] = "identity" /\ identity[act[s].google] # NoLink
    /\ Quit(s)
    /\ UNCHANGED <<users, slugs, rows, identity>>

\* The call answers, or a statement fails; nothing done is undone.
EndCall(s) ==
    /\ todo[s] = "done" \/ (Breaks /\ todo[s] # "idle")
    /\ Quit(s)
    /\ UNCHANGED <<users, slugs, rows, identity>>

AccountCall(s) ==
    \/ BeginNewUser(s) \/ BeginUpdateUser(s) \/ BeginUpdateMe(s) \/ BeginDeleteUser(s)
    \/ BeginChangePassword(s) \/ BeginUpdateClient(s) \/ BeginGoogle(s)

AccountStep(s) ==
    \/ CheckEmail(s) \/ CheckUsername(s) \/ AllocateUsername(s) \/ InsertUser(s)
    \/ AllocateSlug(s) \/ InsertClient(s) \/ UpdateSlug(s) \/ InsertRow(s) \/ ResumeGoogle(s) \/ FindByEmail(s)
    \/ LinkIdentity(s) \/ WriteUser(s) \/ UpdatePassword(s) \/ SoftDeleteUser(s)
    \/ Refused(s) \/ EndCall(s)

AccountsNext == \E s \in Servers : AccountCall(s) \/ AccountStep(s)

AccountsSpec == AccountsInit /\ [][AccountsNext]_accountVars

-----------------------------------------------------------------------------
(* Properties *)

\* Shape, and the unique indexes: no two live users share an e-mail or a user
\* name, no two clients a slug (migrations 000002 and 000012).
AccountsOK ==
    /\ users \in [UserIds -> User \cup {NoUser}]
    /\ UniqueUsers(users)
    /\ slugs \in [UserIds -> Names \cup {NoName}]
    /\ \A i, j \in UserIds : i # j /\ slugs[i] # NoName => slugs[i] # slugs[j]
    /\ rows \in [UserIds -> SUBSET Tenant]
    /\ identity \in [Googles -> Link \cup {NoLink}]
    /\ todo \in [Servers -> Todo]
    /\ act \in [Servers -> Act \cup {NoAct}]
    /\ acts \in 0 .. MaxActs

\* A Google sign-in that answers has signed in the user its account is linked
\* to, also when several first sign-ins overlapped; and a sign-in that created
\* the user links him only with client, company, membership and branch in
\* place ("so a failure in earlier provisioning doesn't leave an orphan
\* identity row", auth.service.go:1090; linkGoogleIdentity).
GoogleAccountHolds ==
    /\ \A s \in Servers : todo[s] = "done" /\ act[s].op = "google" =>
          identity[act[s].google] # NoLink /\ identity[act[s].google].user = act[s].user
    /\ \A g \in Googles : identity[g] # NoLink /\ identity[g].own =>
          rows[identity[g].user] = Tenant /\ slugs[identity[g].user] # NoName

\* A write that its request did not ask for undoes only what another call
\* wrote since the row was read: alone, an update of the profile neither
\* reactivates a user nor restores his e-mail, name or password, and nothing
\* brings a deleted user back (UserService.Update, UpdateMe, ChangePassword).
NoSilentUndo ==
    [][\A s \in Servers, i \in UserIds :
          /\ users[i] # NoUser /\ users'[i] # users[i]
          /\ todo[s] # "idle" /\ todo'[s] # todo[s]
          => /\ users[i].deleted => users'[i].deleted
             /\ \A f \in Fields : users'[i][f] # users[i][f] =>
                   f \in act[s].asked \cup act[s].touched]_accountVars
=============================================================================
