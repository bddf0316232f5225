--------------------------- MODULE Access_proofs ---------------------------
(***************************************************************************)
(* AccountsOK, GoogleAccountHolds and NoSilentUndo for any users, e-mails, *)
(* Google accounts, calls and requests; KeysOK and KeyScopeHolds for any   *)
(* keys, permissions, calls and requests; TypeOK of the two together with  *)
(* Sessions.                                                               *)
(***************************************************************************)
EXTENDS Access, Sessions_proofs

-----------------------------------------------------------------------------
(* Accounts. *)

USE GoogleAssumption, ActsAssumption, NothingAssumed

\* What a call is when it is about to execute statement t.
Fits(t, k) ==
    /\ k.op = "google" => k.google \in Googles
    /\ t \in {"username", "resume", "byEmail", "identity"} => k.op = "google"
    /\ t \in {"username", "byEmail", "user", "slug", "client"} \cup Tenant => k.asked = Fields
    /\ t \in {"email", "name"} => k.op = "update" \/ (k.op \in {"signUp", "create"} /\ k.asked = Fields)
    /\ t \in {"slug", "client", "resume", "write", "delete", "password", "reslug", "identity"}
             \cup Tenant => k.user # NoUser
    /\ t \in {"email", "name"} /\ k.op = "update" => k.user # NoUser
    /\ t \in {"client", "reslug"} => k.cand # NoName
    /\ t = "write" => k.op \in {"update", "updateMe"}
    /\ t = "password" => k.asked = {"password"}
    /\ t \in {"delete", "password", "reslug"} => k.op # "google"

\* How far it has come with the tenant and the link.
Reached(t, k) ==
    /\ k.user # NoUser => users[k.user] # NoUser
    /\ t \in Tenant => slugs[k.user] # NoName
    /\ t \in {"member", "branch"} => "company" \in rows[k.user]
    /\ t = "branch" => "member" \in rows[k.user]
    /\ t = "identity" /\ k.asked = Fields => slugs[k.user] # NoName /\ rows[k.user] = Tenant
    /\ t = "resume" \/ (t = "done" /\ k.op = "google")
          => identity[k.google] # NoLink /\ identity[k.google].user = k.user

\* The row to be written differs from the row it replaces only where it was
\* asked to, or where another call wrote meanwhile.
Differs(t, k) ==
    t \in {"email", "name", "write"} /\ k.op \in {"update", "updateMe"} =>
        /\ k.row.email # users[k.user].email => "email" \in k.asked \cup k.touched
        /\ k.row.name # users[k.user].name => "name" \in k.asked \cup k.touched
        /\ k.row.active # users[k.user].active => "active" \in k.asked \cup k.touched

ServerOK(s) ==
    /\ todo[s] \in Todo
    /\ act[s] \in Act \cup {NoAct}
    /\ todo[s] = "idle" <=> act[s] = NoAct
    /\ todo[s] # "idle" => /\ Fits(todo[s], act[s])
                           /\ Reached(todo[s], act[s])
                           /\ Differs(todo[s], act[s])

Base ==
    /\ users \in [UserIds -> User \cup {NoUser}]
    /\ UniqueUsers(users)
    /\ slugs \in [UserIds -> Names \cup {NoName}]
    /\ \A i, j \in UserIds : i # j /\ slugs[i] # NoName => slugs[i] # slugs[j]
    /\ \A i \in UserIds : slugs[i] # NoName => users[i] # NoUser
    /\ rows \in [UserIds -> SUBSET Tenant]
    /\ identity \in [Googles -> Link \cup {NoLink}]
    /\ \A g \in Googles : identity[g] # NoLink =>
          /\ users[identity[g].user] # NoUser
          /\ identity[g].own => rows[identity[g].user] = Tenant /\ slugs[identity[g].user] # NoName
    /\ DOMAIN todo = Servers /\ todo = [s \in Servers |-> todo[s]]
    /\ DOMAIN act = Servers /\ act = [s \in Servers |-> act[s]]
    /\ acts \in 0 .. MaxActs

AInv == Base /\ \A s \in Servers : ServerOK(s)

LEMMA AInvImplies == AInv => AccountsOK /\ GoogleAccountHolds
<1> SUFFICES ASSUME AInv PROVE AccountsOK /\ GoogleAccountHolds
  OBVIOUS
<1>1. todo \in [Servers -> Todo] /\ act \in [Servers -> Act \cup {NoAct}]
  BY DEF AInv, Base, ServerOK
<1>2. AccountsOK
  BY <1>1 DEF AInv, Base, AccountsOK
<1>3. GoogleAccountHolds
  BY DEF AInv, Base, ServerOK, Reached, GoogleAccountHolds
<1> QED BY <1>2, <1>3

-----------------------------------------------------------------------------
(* What a step leaves of the other calls. *)

\* Rows once inserted stay rows, and links stay as they are.
Grow ==
    /\ \A i \in UserIds : users[i] # NoUser => users'[i] # NoUser /\ rows[i] \subseteq rows'[i]
    /\ \A i \in UserIds : slugs[i] # NoName => slugs'[i] # NoName
    /\ \A g \in Googles : identity[g] # NoLink => identity'[g] = identity[g]

\* The fields of user i that a call may write back, except those in T.
SameUser(i, T) ==
    /\ users'[i].email # users[i].email => "email" \in T
    /\ users'[i].name # users[i].name => "name" \in T
    /\ users'[i].active # users[i].active => "active" \in T

\* The call of r only learns which fields of its user were written.
Apart(r) ==
    /\ todo'[r] = todo[r]
    /\ \/ /\ act'[r] = act[r]
          /\ act[r] # NoAct /\ act[r].user # NoUser => SameUser(act[r].user, {})
       \/ \E T \in SUBSET Fields :
             /\ act[r] # NoAct /\ act'[r] = [act[r] EXCEPT !.touched = @ \cup T]
             /\ SameUser(act[r].user, T)

LEMMA OtherServer ==
    ASSUME AInv, Base', Grow, NEW r \in Servers, Apart(r)
    PROVE  ServerOK(r)'
<1>1. ServerOK(r) /\ Base
  BY DEF AInv
<1>2. CASE act[r] = NoAct
  BY <1>1, <1>2 DEF ServerOK, Apart, Act
<1>3. CASE act[r] # NoAct
  <2> DEFINE k == act[r]
             t == todo[r]
  <2>1. /\ k \in Act /\ t \in Todo /\ t # "idle" /\ todo'[r] = t
        /\ Fits(t, k) /\ Reached(t, k) /\ Differs(t, k)
    BY <1>1, <1>3 DEF ServerOK, Apart
  <2>2. PICK T \in SUBSET Fields :
            /\ (act'[r] = k /\ T = {}) \/ act'[r] = [k EXCEPT !.touched = @ \cup T]
            /\ k.user # NoUser => SameUser(k.user, T)
    <3>1. CASE act'[r] = k /\ (k.user # NoUser => SameUser(k.user, {}))
      <4>1. {} \in SUBSET Fields
        OBVIOUS
      <4> QED BY <3>1, <4>1
    <3>2. CASE \E T \in SUBSET Fields : /\ act'[r] = [k EXCEPT !.touched = @ \cup T]
                                        /\ SameUser(k.user, T)
      BY <3>2
    <3> QED BY <1>3, <3>1, <3>2 DEF Apart
  <2>m. PICK m : m = act'[r]
    OBVIOUS
  <2>f. /\ m \in Act /\ m.op = k.op /\ m.user = k.user /\ m.row = k.row /\ m.cand = k.cand
        /\ m.google = k.google /\ m.asked = k.asked /\ m.touched = k.touched \cup T
    BY <2>1, <2>2, <2>m DEF Act
  <2>3. Fits(t, m)
    BY <2>1, <2>f DEF Fits
  <2>4. k.user \in UserIds \cup {NoUser} /\ (k.op = "google" => k.google \in Googles)
    BY <2>1 DEF Act, Fits
  <2>5. Reached(t, m)'
    <3> USE <2>f, <2>4
    <3>1. m.user # NoUser => m.user \in UserIds /\ users[m.user] # NoUser /\ users'[m.user] # NoUser
      BY <2>1 DEF Reached, Grow
    <3>2. /\ m.user # NoUser => rows[m.user] \subseteq rows'[m.user] /\ rows'[m.user] \subseteq Tenant
          /\ m.user # NoUser /\ slugs[m.user] # NoName => slugs'[m.user] # NoName
      BY <3>1 DEF Grow, Base
    <3>3. t \in Tenant \cup {"identity"} => m.user # NoUser
      BY <2>3 DEF Fits
    <3>4. t = "resume" => m.op = "google"
      BY <2>3 DEF Fits
    <3>5. m.op = "google" /\ identity[m.google] # NoLink => identity'[m.google] = identity[m.google]
      BY DEF Grow
    <3> QED BY <2>1, <3>1, <3>2, <3>3, <3>4, <3>5 DEF Reached, Tenant
  <2>6. Differs(t, m)'
    <3>1. t \in {"email", "name", "write"} /\ k.op \in {"update", "updateMe"} => k.user # NoUser
      BY <2>1 DEF Fits
    <3>2. SUFFICES ASSUME t \in {"email", "name", "write"}, k.op \in {"update", "updateMe"}
                   PROVE  /\ m.row.email # users'[m.user].email => "email" \in m.asked \cup m.touched
                          /\ m.row.name # users'[m.user].name => "name" \in m.asked \cup m.touched
                          /\ m.row.active # users'[m.user].active => "active" \in m.asked \cup m.touched
      BY <2>1, <2>f DEF Differs
    <3>3. SameUser(k.user, T)
      BY <2>2, <3>1, <3>2
    <3> QED BY <2>1, <2>f, <3>2, <3>3 DEF Differs, SameUser
  <2> QED BY <2>1, <2>m, <2>f, <2>3, <2>5, <2>6 DEF ServerOK
<1> QED BY <1>2, <1>3

\* The tables may change; the call of s executes, the others stand by.
LEMMA ServersStep ==
    ASSUME AInv, Base', Grow, NEW s \in Servers, \A r \in Servers \ {s} : Apart(r), ServerOK(s)'
    PROVE  AInv'
<1>1. \A r \in Servers : ServerOK(r)'
  BY OtherServer
<1> QED BY <1>1 DEF AInv

\* A statement that reads, a call that begins and a call that ends.
LEMMA CalmStep ==
    ASSUME AInv, NEW s \in Servers, NEW l \in Todo, NEW k \in Act \cup {NoAct},
           todo' = [todo EXCEPT ![s] = l], act' = [act EXCEPT ![s] = k],
           acts' \in 0 .. MaxActs, UNCHANGED <<users, slugs, rows, identity>>,
           l = "idle" <=> k = NoAct,
           l # "idle" => Fits(l, k) /\ Reached(l, k) /\ Differs(l, k)
    PROVE  AInv'
<1>1. /\ todo'[s] = l /\ act'[s] = k
      /\ \A r \in Servers \ {s} : todo'[r] = todo[r] /\ act'[r] = act[r]
      /\ DOMAIN todo' = Servers /\ todo' = [r \in Servers |-> todo'[r]]
      /\ DOMAIN act' = Servers /\ act' = [r \in Servers |-> act'[r]]
  BY DEF AInv, Base
<1>2. Base'
  BY <1>1 DEF AInv, Base, UniqueUsers, Lives
<1>3. Grow
  BY DEF Grow
<1>4. \A r \in Servers \ {s} : Apart(r)
  BY <1>1 DEF Apart, SameUser
<1>5. ServerOK(s)'
  BY <1>1 DEF ServerOK, Reached, Differs
<1> QED BY <1>2, <1>3, <1>4, <1>5, ServersStep

-----------------------------------------------------------------------------
(* Calls that begin and end. *)

LEMMA AsksType ==
    ASSUME NEW op \in {"signUp", "google", "create", "update", "updateMe", "delete", "password",
                       "client"},
           NEW i \in UserIds \cup {NoUser}, NEW row \in User, NEW asked \in SUBSET Fields
    PROVE  LET k == Asks(op, i, row, asked) IN
           /\ k \in Act
           /\ k.op = op /\ k.user = i /\ k.row = row /\ k.asked = asked /\ k.cand = NoName
           /\ k.google = NoLink /\ k.touched = {}
BY DEF Asks, Act, Fields

LEMMA CallStep ==
    ASSUME AInv, NEW s \in Servers, NEW l \in Todo \ {"idle"}, NEW k \in Act, Call(s, l, k),
           Fits(l, k), Reached(l, k), Differs(l, k)
    PROVE  AInv'
<1>1. acts' \in 0 .. MaxActs
  BY DEF Call, AInv, Base
<1> QED BY <1>1, CalmStep DEF Call

LEMMA QuitStep ==
    ASSUME AInv, NEW s \in Servers, Quit(s), UNCHANGED <<users, slugs, rows, identity>>
    PROVE  AInv'
<1>1. acts' \in 0 .. MaxActs /\ "idle" \in Todo
  BY DEF Quit, Then, AInv, Base, Todo
<1> QED BY <1>1, CalmStep DEF Quit, Then

\* A row of the table that is not deleted.
LEMMA LiveUser ==
    ASSUME AInv, NEW i \in UserIds, Lives(users, i)
    PROVE  users[i] \in User /\ users[i] # NoUser /\ i # NoUser
BY DEF AInv, Base, Lives

LEMMA CallsBegin ==
    ASSUME AInv, NEW s \in Servers, AccountCall(s)
    PROVE  AInv'
<1> USE DEF Todo
<1>1. CASE BeginNewUser(s)
  <2>1. PICK op \in {"signUp", "create"}, e \in Emails, n \in Names :
             Call(s, "email", Asks(op, NoUser, NewUser(e, n), Fields))
    BY <1>1 DEF BeginNewUser
  <2>2. NewUser(e, n) \in User
    BY DEF NewUser, User, Passwords
  <2>3. PICK k \in Act : k = Asks(op, NoUser, NewUser(e, n), Fields) /\ k.op = op /\ k.user = NoUser
                         /\ k.asked = Fields
    BY <2>2, AsksType
  <2>4. Fits("email", k) /\ Reached("email", k) /\ Differs("email", k)
    BY <2>3 DEF Fits, Reached, Differs, Tenant
  <2> QED BY <2>1, <2>3, <2>4, CallStep
<1>2. CASE BeginUpdateUser(s)
  <2>1. PICK i \in UserIds, asked \in SUBSET {"email", "name", "active"},
             e \in Emails, n \in Names, active \in BOOLEAN :
            /\ Lives(users, i)
            /\ "email" \in asked <=> e # users[i].email
            /\ "name" \in asked <=> n # users[i].name
            /\ "active" \in asked <=> active # users[i].active
            /\ Call(s, "email", Asks("update", i, [users[i] EXCEPT !.email = e, !.name = n,
                                                                  !.active = active], asked))
    BY <1>2 DEF BeginUpdateUser
  <2>2. users[i] \in User /\ users[i] # NoUser /\ i # NoUser
    BY <2>1, LiveUser
  <2>3. PICK row \in User : /\ row = [users[i] EXCEPT !.email = e, !.name = n, !.active = active]
                            /\ row.email = e /\ row.name = n /\ row.active = active
    <3> DEFINE row == [users[i] EXCEPT !.email = e, !.name = n, !.active = active]
    <3>1. row \in User /\ row.email = e /\ row.name = n /\ row.active = active
      BY <2>2 DEF User
    <3> QED BY <3>1
  <2>4. PICK k \in Act : k = Asks("update", i, row, asked) /\ k.op = "update" /\ k.user = i
                         /\ k.row = row /\ k.asked = asked
    BY AsksType DEF Fields
  <2>5. Fits("email", k) /\ Reached("email", k)
    BY <2>2, <2>4 DEF Fits, Reached, Tenant
  <2>6. Differs("email", k)
    BY <2>1, <2>3, <2>4 DEF Differs
  <2> QED BY <2>1, <2>3, <2>4, <2>5, <2>6, CallStep
<1>3. CASE BeginUpdateMe(s) \/ BeginDeleteUser(s)
  <2>1. PICK i \in UserIds, op \in {"updateMe", "delete"} :
            Lives(users, i) /\ Call(s, IF op = "delete" THEN "delete" ELSE "write",
                                    Asks(op, i, users[i], {}))
    BY <1>3 DEF BeginUpdateMe, BeginDeleteUser
  <2>2. users[i] \in User /\ users[i] # NoUser /\ i # NoUser
    BY <2>1, LiveUser
  <2>3. PICK k \in Act : k = Asks(op, i, users[i], {}) /\ k.op = op /\ k.user = i /\ k.row = users[i]
    BY <2>2, AsksType
  <2>4. PICK l \in Todo \ {"idle"} : l = IF op = "delete" THEN "delete" ELSE "write"
    OBVIOUS
  <2>5. Fits(l, k) /\ Reached(l, k) /\ Differs(l, k)
    BY <2>2, <2>3, <2>4 DEF Fits, Reached, Differs, Tenant
  <2> QED BY <2>1, <2>3, <2>4, <2>5, CallStep
<1>4. CASE BeginChangePassword(s)
  <2>1. PICK i \in UserIds, p \in Passwords :
            /\ Lives(users, i)
            /\ Call(s, "password", Asks("password", i, [users[i] EXCEPT !.password = p], {"password"}))
    BY <1>4 DEF BeginChangePassword
  <2>2. users[i] \in User /\ users[i] # NoUser /\ i # NoUser
    BY <2>1, LiveUser
  <2>3. PICK row \in User : row = [users[i] EXCEPT !.password = p]
    BY <2>2 DEF User
  <2>4. PICK k \in Act : /\ k = Asks("password", i, row, {"password"})
                         /\ k.op = "password" /\ k.user = i /\ k.asked = {"password"}
    BY AsksType DEF Fields
  <2>5. Fits("password", k) /\ Reached("password", k) /\ Differs("password", k)
    BY <2>2, <2>4 DEF Fits, Reached, Differs, Tenant
  <2> QED BY <2>1, <2>3, <2>4, <2>5, CallStep
<1>5. CASE BeginUpdateClient(s)
  <2>1. PICK i \in UserIds, n \in Names :
            /\ slugs[i] # NoName
            /\ Call(s, "reslug", [Asks("client", i, users[i], {}) EXCEPT !.cand = n])
    BY <1>5 DEF BeginUpdateClient
  <2>2. users[i] \in User /\ users[i] # NoUser /\ i # NoUser
    BY <2>1 DEF AInv, Base
  <2>3. PICK j \in Act : j = Asks("client", i, users[i], {}) /\ j.op = "client" /\ j.user = i
    BY <2>2, AsksType
  <2>4. PICK k \in Act : k = [j EXCEPT !.cand = n] /\ k.op = "client" /\ k.user = i /\ k.cand = n
    <3> DEFINE k == [j EXCEPT !.cand = n]
    <3>1. k \in Act /\ k.op = "client" /\ k.user = i /\ k.cand = n
      BY <2>3 DEF Act
    <3> QED BY <3>1
  <2>5. Fits("reslug", k) /\ Reached("reslug", k) /\ Differs("reslug", k)
    BY <2>2, <2>4 DEF Fits, Reached, Differs, Tenant
  <2> QED BY <2>1, <2>3, <2>4, <2>5, CallStep
<1>6. CASE BeginGoogle(s)
  <2>1. PICK g \in Googles :
            LET row == [NewUser(EmailOf[g], NameOf[EmailOf[g]]) EXCEPT !.password = "none"]
                k == [Asks("google", NoUser, row, Fields) EXCEPT !.google = g]
            IN  IF identity[g] # NoLink
                THEN Call(s, "resume", [k EXCEPT !.user = identity[g].user])
                ELSE Call(s, "byEmail", k)
    BY <1>6 DEF BeginGoogle
  <2>2. PICK row \in User : row = [NewUser(EmailOf[g], NameOf[EmailOf[g]]) EXCEPT !.password = "none"]
    BY DEF NewUser, User, Passwords
  <2>3. PICK j \in Act : /\ j = Asks("google", NoUser, row, Fields)
                         /\ j.op = "google" /\ j.user = NoUser /\ j.asked = Fields
    BY AsksType
  <2>4. PICK k \in Act : /\ k = [j EXCEPT !.google = g]
                         /\ k.op = "google" /\ k.user = NoUser /\ k.asked = Fields /\ k.google = g
    <3> DEFINE k == [j EXCEPT !.google = g]
    <3>1. k \in Act /\ k.op = "google" /\ k.user = NoUser /\ k.asked = Fields /\ k.google = g
      BY <2>3 DEF Act
    <3> QED BY <3>1
  <2>5. CASE identity[g] = NoLink
    <3>1. Fits("byEmail", k) /\ Reached("byEmail", k) /\ Differs("byEmail", k)
      BY <2>4 DEF Fits, Reached, Differs, Tenant
    <3> QED BY <2>1, <2>2, <2>3, <2>4, <2>5, <3>1, CallStep
  <2>6. CASE identity[g] # NoLink
    <3>1. identity[g].user \in UserIds /\ users[identity[g].user] # NoUser
      BY <2>6 DEF AInv, Base, Link
    <3>2. PICK m \in Act : /\ m = [k EXCEPT !.user = identity[g].user]
                           /\ m.op = "google" /\ m.user = identity[g].user /\ m.google = g
      <4> DEFINE m == [k EXCEPT !.user = identity[g].user]
      <4>1. m \in Act /\ m.op = "google" /\ m.user = identity[g].user /\ m.google = g
        BY <2>4, <3>1 DEF Act
      <4> QED BY <4>1
    <3>3. Fits("resume", m) /\ Reached("resume", m) /\ Differs("resume", m)
      BY <2>6, <3>1, <3>2 DEF Fits, Reached, Differs, Tenant
    <3> QED BY <2>1, <2>2, <2>3, <2>4, <2>6, <3>2, <3>3, CallStep
  <2> QED BY <2>5, <2>6
<1> QED BY <1>1, <1>2, <1>3, <1>4, <1>5, <1>6 DEF AccountCall

-----------------------------------------------------------------------------
(* Statements that only read. *)

LEMMA Working ==
    ASSUME AInv, NEW s \in Servers, todo[s] # "idle"
    PROVE  /\ act[s] \in Act /\ act[s] # NoAct
           /\ Fits(todo[s], act[s]) /\ Reached(todo[s], act[s]) /\ Differs(todo[s], act[s])
BY DEF AInv, ServerOK

\* To the follow statement, without a word in the record of the call.
LEMMA ThenStep ==
    ASSUME AInv, NEW s \in Servers, todo[s] # "idle", NEW l \in Todo \ {"idle"}, Then(s, l),
           UNCHANGED <<act, users, slugs, rows, identity>>,
           Fits(l, act[s]), Reached(l, act[s]), Differs(l, act[s])
    PROVE  AInv'
<1>1. act[s] \in Act /\ act[s] # NoAct /\ acts' \in 0 .. MaxActs
  BY Working DEF Then, AInv, Base
<1>2. act' = [act EXCEPT ![s] = act[s]]
  BY DEF AInv, Base
<1> QED BY <1>1, <1>2, CalmStep DEF Then

LEMMA ProbesStep ==
    ASSUME AInv, NEW s \in Servers, CheckEmail(s) \/ CheckUsername(s)
    PROVE  AInv'
<1>1. CASE Quit(s)
  BY <1>1, QuitStep DEF CheckEmail, CheckUsername, Probe
<1>2. CASE ~Quit(s)
  <2>1. PICK l : /\ l = IF todo[s] = "email" THEN "name" ELSE After(s)
                 /\ Then(s, l) /\ todo[s] \in {"email", "name"}
                 /\ UNCHANGED <<act, users, slugs, rows, identity>>
    BY <1>2 DEF CheckEmail, CheckUsername, Probe
  <2>2. /\ act[s] \in Act
        /\ Fits(todo[s], act[s]) /\ Reached(todo[s], act[s]) /\ Differs(todo[s], act[s])
    BY <2>1, Working
  <2>3. l \in {"name", "write", "user"} /\ (l = "write" <=> l # "name" /\ act[s].op = "update")
    BY <2>1 DEF After
  <2>4. Fits(l, act[s]) /\ Reached(l, act[s]) /\ Differs(l, act[s])
    BY <2>1, <2>2, <2>3 DEF Fits, Reached, Differs, Tenant
  <2> QED BY <2>1, <2>3, <2>4, ThenStep DEF Todo
<1> QED BY <1>1, <1>2

LEMMA AllocatesStep ==
    ASSUME AInv, NEW s \in Servers, AllocateUsername(s) \/ AllocateSlug(s)
    PROVE  AInv'
<1>1. PICK label \in {"username", "slug"} : \E used :
          Allocate(s, label, act[s].row.name, used, IF label = "slug" THEN "client" ELSE "user")
  BY DEF AllocateUsername, AllocateSlug
<1> DEFINE k == act[s]
           cand == IF k.cand = NoName THEN k.row.name ELSE k.cand
           follow == IF label = "slug" THEN "client" ELSE "user"
<1>2. /\ todo[s] = label /\ k \in Act
      /\ Fits(label, k) /\ Reached(label, k) /\ Differs(label, k)
  BY <1>1, Working DEF Allocate
<1>3. cand \in Names /\ cand # NoName /\ k.tries \in 0 .. MaxAllocs
  BY <1>2 DEF Act, User
<1>4. UNCHANGED <<users, slugs, rows, identity>>
  BY <1>1 DEF Allocate
<1>5. CASE Quit(s)
  BY <1>4, <1>5, QuitStep
<1>6. ASSUME NEW n \in Names, NEW t \in 0 .. MaxAllocs, NEW l \in {"username", "slug", "client", "user"},
             act' = [act EXCEPT ![s].cand = n, ![s].tries = t], Then(s, l),
             l = label \/ l = follow
      PROVE  AInv'
  <2>1. PICK m : m = [k EXCEPT !.cand = n, !.tries = t]
    OBVIOUS
  <2>2. /\ m \in Act /\ m.op = k.op /\ m.user = k.user /\ m.row = k.row /\ m.cand = n
        /\ m.google = k.google /\ m.asked = k.asked /\ m.touched = k.touched
    BY <1>2, <2>1 DEF Act
  <2>3. act' = [act EXCEPT ![s] = m]
    BY <1>6, <2>1 DEF AInv, Base
  <2>4. Fits(l, m) /\ Reached(l, m) /\ Differs(l, m)
    BY <1>2, <1>6, <2>2 DEF Fits, Reached, Differs, Tenant
  <2>5. acts' \in 0 .. MaxActs /\ l \in Todo /\ l # "idle" /\ m # NoAct
        /\ todo' = [todo EXCEPT ![s] = l]
    BY <1>6, <2>2 DEF Then, AInv, Base, Todo
  <2> QED BY <1>4, <2>2, <2>3, <2>4, <2>5, CalmStep
<1>7. CASE ~Quit(s)
  <2>1. \/ act' = [act EXCEPT ![s].cand = cand, ![s].tries = 0] /\ Then(s, follow)
        \/ /\ k.tries + 1 < MaxAllocs /\ Then(s, label)
           /\ \E n \in Names : act' = [act EXCEPT ![s].cand = n, ![s].tries = @ + 1]
    BY <1>1, <1>7 DEF Allocate
  <2>2. CASE act' = [act EXCEPT ![s].cand = cand, ![s].tries = 0] /\ Then(s, follow)
    <3>1. PICK n \in Names, l \in {"client", "user"} : n = cand /\ l = follow
      BY <1>3
    <3>2. 0 \in 0 .. MaxAllocs
      OBVIOUS
    <3> HIDE DEF cand, follow
    <3> QED BY <1>6, <2>2, <3>1, <3>2
  <2>3. CASE /\ k.tries + 1 < MaxAllocs /\ Then(s, label)
             /\ \E n \in Names : act' = [act EXCEPT ![s].cand = n, ![s].tries = @ + 1]
    <3>1. PICK n \in Names : act' = [act EXCEPT ![s].cand = n, ![s].tries = @ + 1]
      BY <2>3
    <3>2. PICK t \in 0 .. MaxAllocs : t = k.tries + 1
      BY <1>3, <2>3
    <3>3. act' = [act EXCEPT ![s].cand = n, ![s].tries = t]
      BY <1>2, <3>1, <3>2 DEF Act
    <3> QED BY <1>6, <2>3, <3>3
  <2> QED BY <2>1, <2>2, <2>3
<1> QED BY <1>5, <1>7

LEMMA GoogleReadsStep ==
    ASSUME AInv, NEW s \in Servers, ResumeGoogle(s) \/ FindByEmail(s)
    PROVE  AInv'
<1> DEFINE k == act[s]
<1>1. /\ todo[s] \in {"resume", "byEmail"} /\ k \in Act
      /\ Fits(todo[s], k) /\ Reached(todo[s], k) /\ Differs(todo[s], k)
  BY Working DEF ResumeGoogle, FindByEmail
<1>2. UNCHANGED <<users, slugs, rows, identity>>
  BY DEF ResumeGoogle, FindByEmail
<1>3. CASE Quit(s)
  BY <1>2, <1>3, QuitStep
<1>4. CASE ResumeGoogle(s) /\ ~Quit(s)
  <2>1. Then(s, "done") /\ act' = act /\ todo[s] = "resume"
    BY <1>4 DEF ResumeGoogle
  <2>2. Fits("done", k) /\ Reached("done", k) /\ Differs("done", k)
    BY <1>1, <2>1 DEF Fits, Reached, Differs, Tenant
  <2> QED BY <1>1, <1>2, <2>1, <2>2, ThenStep DEF Todo
<1>5. CASE FindByEmail(s) /\ ~Quit(s)
  <2>1. todo[s] = "byEmail"
    BY <1>5 DEF FindByEmail
  <2>2. CASE Then(s, "username") /\ act' = act
    <3>1. Fits("username", k) /\ Reached("username", k) /\ Differs("username", k)
      BY <1>1, <2>1 DEF Fits, Reached, Differs, Tenant
    <3> QED BY <1>1, <1>2, <2>2, <3>1, ThenStep DEF Todo
  <2>3. CASE ~(Then(s, "username") /\ act' = act)
    <3>1. PICK i \in UserIds : /\ Lives(users, i)
                               /\ Then(s, "identity")
                               /\ act' = [act EXCEPT ![s].user = i, ![s].asked = {}]
      BY <1>5, <2>3 DEF FindByEmail
    <3>2. PICK m : m = [k EXCEPT !.user = i, !.asked = {}]
      OBVIOUS
    <3>3. m \in Act /\ m.op = k.op /\ m.user = i /\ m.google = k.google /\ m.asked = {}
      BY <1>1, <3>2 DEF Act, Fields
    <3>4. act' = [act EXCEPT ![s] = m]
      BY <3>1, <3>2 DEF AInv, Base
    <3>5. users[i] # NoUser /\ i # NoUser
      BY <3>1, LiveUser
    <3>6. Fits("identity", m) /\ Reached("identity", m) /\ Differs("identity", m)
      BY <1>1, <2>1, <3>3, <3>5 DEF Fits, Reached, Differs, Tenant, Fields
    <3>7. acts' \in 0 .. MaxActs /\ "identity" \in Todo /\ m # NoAct
          /\ todo' = [todo EXCEPT ![s] = "identity"]
      BY <3>1, <3>3 DEF Then, AInv, Base, Todo
    <3> QED BY <1>2, <3>3, <3>4, <3>6, <3>7, CalmStep
  <2> QED BY <2>2, <2>3
<1> QED BY <1>3, <1>4, <1>5

LEMMA EndsStep ==
    ASSUME AInv, NEW s \in Servers, Refused(s) \/ EndCall(s)
    PROVE  AInv'
BY QuitStep DEF Refused, EndCall

-----------------------------------------------------------------------------
(* Statements that write. *)

\* To the follow statement, all else in the tables.
LEMMA Proceeds ==
    ASSUME AInv, NEW s \in Servers, todo[s] # "idle", NEW l, Then(s, l)
    PROVE  /\ todo'[s] = l /\ todo' = [r \in Servers |-> todo'[r]] /\ DOMAIN todo' = Servers
           /\ \A r \in Servers \ {s} : todo'[r] = todo[r]
           /\ acts' \in 0 .. MaxActs
BY DEF AInv, Base, Then

LEMMA InsertUserStep ==
    ASSUME AInv, NEW s \in Servers, InsertUser(s)
    PROVE  AInv'
<1> DEFINE k == act[s]
<1>1. /\ todo[s] = "user" /\ k \in Act /\ k # NoAct /\ Base
      /\ Fits("user", k) /\ Reached("user", k) /\ Differs("user", k)
  BY Working DEF InsertUser, AInv
<1>2. PICK row : row = Inserted(s)
  OBVIOUS
<1>3. row \in User
  BY <1>1, <1>2 DEF Inserted, Act, User
<1>4. PICK i \in UserIds :
          /\ users[i] = NoUser
          /\ PutUser(s, [users EXCEPT ![i] = row], IF k.op = "create" THEN "done" ELSE "slug")
          /\ act' = [act EXCEPT ![s].user = i, ![s].row = row, ![s].cand = NoName]
          /\ rows' = [rows EXCEPT ![i] = IF k.op = "create" THEN {"member"} ELSE {}]
  BY <1>2 DEF InsertUser
<1>5. UNCHANGED <<slugs, identity>>
  BY DEF InsertUser
<1>6. PICK l : l = IF k.op = "create" THEN "done" ELSE "slug"
  OBVIOUS
<1>7. users' = [users EXCEPT ![i] = row] /\ UniqueUsers(users') /\ Then(s, l)
  BY <1>4, <1>6 DEF PutUser
<1>8. PICK m : m = [k EXCEPT !.user = i, !.row = row, !.cand = NoName]
  OBVIOUS
<1>9. /\ m \in Act /\ m.op = k.op /\ m.user = i /\ m.cand = NoName
      /\ m.google = k.google /\ m.asked = k.asked
  BY <1>1, <1>3, <1>8 DEF Act
<1>10. act' = [act EXCEPT ![s] = m]
  BY <1>1, <1>4, <1>8 DEF Base
<1>11. /\ act'[s] = m /\ DOMAIN act' = Servers /\ act' = [r \in Servers |-> act'[r]]
       /\ \A r \in Servers \ {s} : act'[r] = act[r]
  BY <1>1, <1>10 DEF Base
<1>12. /\ users'[i] = row /\ row # NoUser
       /\ \A j \in UserIds : j # i => users'[j] = users[j] /\ rows'[j] = rows[j]
  BY <1>1, <1>3, <1>4, <1>7 DEF Base
<1>13. Base'
  <2>1. users' \in [UserIds -> User \cup {NoUser}] /\ rows' \in [UserIds -> SUBSET Tenant]
    BY <1>1, <1>3, <1>4, <1>7 DEF Base, Tenant
  <2>2. \A g \in Googles : identity[g] # NoLink => identity[g].user \in UserIds /\ identity[g].user # i
    BY <1>1, <1>4 DEF Base, Link
  <2>3. \A g \in Googles : identity'[g] # NoLink =>
           /\ users'[identity'[g].user] # NoUser
           /\ identity'[g].own =>
                 rows'[identity'[g].user] = Tenant /\ slugs'[identity'[g].user] # NoName
    BY <1>1, <1>5, <1>12, <2>2 DEF Base
  <2>4. \A j \in UserIds : slugs'[j] # NoName => users'[j] # NoUser
    BY <1>1, <1>5, <1>12 DEF Base
  <2> QED BY <1>1, <1>5, <1>7, <1>11, <2>1, <2>3, <2>4, Proceeds DEF Base
<1>14. Grow
  BY <1>4, <1>5, <1>12 DEF Grow
<1>15. ASSUME NEW r \in Servers \ {s} PROVE Apart(r)
  <2>1. todo'[r] = todo[r] /\ act'[r] = act[r]
    BY <1>1, <1>7, <1>11, Proceeds
  <2>2. ASSUME act[r] # NoAct, act[r].user # NoUser PROVE SameUser(act[r].user, {})
    <3>1. act[r].user \in UserIds /\ users[act[r].user] # NoUser
      BY <2>2 DEF AInv, ServerOK, Reached, Act
    <3> QED BY <1>4, <1>12, <3>1 DEF SameUser
  <2> QED BY <2>1, <2>2 DEF Apart
<1>16. ServerOK(s)'
  <2>1. Fits(l, m)
    BY <1>1, <1>6, <1>9 DEF Fits, Tenant
  <2>2. Reached(l, m)'
    BY <1>1, <1>6, <1>9, <1>12 DEF Reached, Tenant, Fits
  <2>3. Differs(l, m)'
    BY <1>6 DEF Differs
  <2>4. todo'[s] = l /\ l \in Todo /\ l # "idle" /\ m # NoAct
    BY <1>1, <1>6, <1>7, <1>9, Proceeds DEF Todo
  <2> QED BY <1>9, <1>11, <2>1, <2>2, <2>3, <2>4 DEF ServerOK
<1> QED BY <1>13, <1>14, <1>15, <1>16, ServersStep

\* A statement that writes one user's row and tells the others.
LEMMA TouchStep ==
    ASSUME AInv, NEW s \in Servers, todo[s] # "idle", Then(s, "done"), act[s].op # "google",
           NEW i \in UserIds, users[i] # NoUser, NEW row \in User, users' = [users EXCEPT ![i] = row],
           UniqueUsers(users'), UNCHANGED <<slugs, rows, identity>>,
           NEW T \in SUBSET Fields, Touch(s, i, T, act[s]),
           row.email # users[i].email => "email" \in T,
           row.name # users[i].name => "name" \in T,
           row.active # users[i].active => "active" \in T
    PROVE  AInv'
<1>1. act[s] \in Act /\ act[s] # NoAct /\ Base /\ Fits(todo[s], act[s]) /\ Reached(todo[s], act[s])
  BY Working DEF AInv
<1>2. /\ users'[i] = row /\ row # NoUser
      /\ \A j \in UserIds : j # i => users'[j] = users[j]
      /\ users' \in [UserIds -> User \cup {NoUser}]
  BY <1>1 DEF Base
<1>3. \A j \in UserIds : users[j] # NoUser => users'[j] # NoUser
  BY <1>2
<1>4. /\ act'[s] = act[s] /\ DOMAIN act' = Servers /\ act' = [r \in Servers |-> act'[r]]
      /\ \A r \in Servers \ {s} : act'[r] = IF act[r] # NoAct /\ act[r].user = i
                                            THEN [act[r] EXCEPT !.touched = @ \cup T] ELSE act[r]
  BY DEF Touch
<1>5. Base'
  <2>1. \A g \in Googles : identity[g] # NoLink => identity[g].user \in UserIds
    BY <1>1 DEF Base, Link
  <2> QED BY <1>1, <1>2, <1>3, <1>4, <2>1, Proceeds DEF Base
<1>6. Grow
  BY <1>3 DEF Grow
<1>7. ASSUME NEW r \in Servers \ {s} PROVE Apart(r)
  <2>1. todo'[r] = todo[r]
    BY Proceeds
  <2>2. CASE act[r] # NoAct /\ act[r].user = i
    <3>1. SameUser(i, T)
      BY <1>2 DEF SameUser
    <3> QED BY <1>4, <2>1, <2>2, <3>1 DEF Apart
  <2>3. CASE ~(act[r] # NoAct /\ act[r].user = i)
    <3>1. act[r] # NoAct /\ act[r].user # NoUser => act[r].user \in UserIds
      BY DEF AInv, ServerOK, Act
    <3>2. act[r] # NoAct /\ act[r].user # NoUser => SameUser(act[r].user, {})
      BY <1>2, <2>3, <3>1 DEF SameUser
    <3> QED BY <1>4, <2>1, <2>3, <3>2 DEF Apart
  <2> QED BY <2>2, <2>3
<1>8. ServerOK(s)'
  <2>1. todo'[s] = "done"
    BY Proceeds
  <2>2. act[s].user \in UserIds \cup {NoUser}
    BY <1>1 DEF Act
  <2>3. Fits("done", act[s]) /\ Reached("done", act[s])' /\ Differs("done", act[s])'
    BY <1>1, <1>3, <1>4, <2>1, <2>2 DEF Fits, Reached, Differs, Tenant
  <2> QED BY <1>1, <1>4, <2>1, <2>3 DEF ServerOK, Todo
<1> QED BY <1>5, <1>6, <1>7, <1>8, ServersStep

LEMMA WriteUserStep ==
    ASSUME AInv, NEW s \in Servers, WriteUser(s) \/ UpdatePassword(s)
    PROVE  AInv'
<1> DEFINE i == act[s].user
<1>1. /\ todo[s] \in {"write", "password"} /\ act[s] \in Act /\ act[s] # NoAct /\ Base
      /\ Fits(todo[s], act[s]) /\ Reached(todo[s], act[s]) /\ Differs(todo[s], act[s])
  BY Working DEF WriteUser, UpdatePassword, AInv
<1>2. /\ act[s].op # "google" /\ i \in UserIds /\ users[i] # NoUser /\ users[i] \in User
      /\ act[s].row \in User /\ UNCHANGED <<slugs, rows, identity>>
  BY <1>1 DEF Fits, Reached, Act, Base, WriteUser, UpdatePassword
<1>3. CASE ~Lives(users, i)
  <2>1. Then(s, "done") /\ UNCHANGED <<users, act>>
    BY <1>3 DEF WriteUser, UpdatePassword
  <2>2. Fits("done", act[s]) /\ Reached("done", act[s]) /\ Differs("done", act[s])
    BY <1>1, <1>2 DEF Fits, Reached, Differs, Tenant
  <2> QED BY <1>1, <1>2, <2>1, <2>2, ThenStep DEF Todo
<1>4. CASE Lives(users, i) /\ WriteUser(s)
  <2>1. PICK row : row = [act[s].row EXCEPT !.password = users[i].password, !.deleted = FALSE]
    OBVIOUS
  <2>2. row \in User
    BY <1>2, <2>1 DEF User
  <2>3. PICK T : T = {f \in Fields : users[i][f] # row[f]}
    OBVIOUS
  <2>4. /\ users' = [users EXCEPT ![i] = row] /\ UniqueUsers(users') /\ Then(s, "done")
        /\ Touch(s, i, T, act[s])
    BY <1>4, <2>1, <2>3 DEF WriteUser, PutUser
  <2>5. /\ T \in SUBSET Fields
        /\ row.email # users[i].email => "email" \in T
        /\ row.name # users[i].name => "name" \in T
        /\ row.active # users[i].active => "active" \in T
    BY <2>3 DEF Fields
  <2> QED BY <1>1, <1>2, <2>2, <2>4, <2>5, TouchStep
<1>5. CASE Lives(users, i) /\ UpdatePassword(s)
  <2>1. PICK row : row = [users[i] EXCEPT !.password = act[s].row.password]
    OBVIOUS
  <2>2. row \in User /\ row.email = users[i].email /\ row.name = users[i].name
        /\ row.active = users[i].active
    BY <1>2, <2>1 DEF User
  <2>3. /\ users' = [users EXCEPT ![i] = row] /\ UniqueUsers(users') /\ Then(s, "done")
        /\ Touch(s, i, {"password"}, act[s])
    BY <1>1, <1>5, <2>1 DEF UpdatePassword, PutUser, Base
  <2>4. {"password"} \in SUBSET Fields
    BY DEF Fields
  <2> QED BY <1>1, <1>2, <2>2, <2>3, <2>4, TouchStep
<1> QED BY <1>3, <1>4, <1>5

\* A statement that leaves act, and in users only deletes.
LEMMA PlainWriteStep ==
    ASSUME AInv, NEW s \in Servers, todo[s] # "idle", NEW l \in Todo \ {"idle"}, Then(s, l),
           UNCHANGED act, Base', Grow,
           \A i \in UserIds : users[i] # NoUser => SameUser(i, {}),
           Fits(l, act[s]), Reached(l, act[s])', l \notin {"email", "name", "write"}
    PROVE  AInv'
<1>1. act[s] \in Act /\ act[s] # NoAct /\ todo'[s] = l
  BY Working, Proceeds
<1>2. ASSUME NEW r \in Servers \ {s} PROVE Apart(r)
  <2>1. todo'[r] = todo[r] /\ act'[r] = act[r]
    BY Proceeds
  <2>2. act[r] # NoAct /\ act[r].user # NoUser => act[r].user \in UserIds /\ users[act[r].user] # NoUser
    BY DEF AInv, ServerOK, Reached, Act
  <2> QED BY <2>1, <2>2 DEF Apart
<1>3. ServerOK(s)'
  BY <1>1 DEF ServerOK, Differs, Reached
<1> QED BY <1>2, <1>3, ServersStep

LEMMA SoftDeleteUserStep ==
    ASSUME AInv, NEW s \in Servers, SoftDeleteUser(s)
    PROVE  AInv'
<1> DEFINE i == act[s].user
<1>1. /\ todo[s] = "delete" /\ act[s] \in Act /\ Base
      /\ Fits("delete", act[s]) /\ Reached("delete", act[s])
  BY Working DEF SoftDeleteUser, AInv
<1>2. act[s].op # "google" /\ i \in UserIds /\ users[i] # NoUser /\ users[i] \in User
  BY <1>1 DEF Fits, Reached, Act, Base
<1>3. /\ users' = [users EXCEPT ![i].deleted = TRUE] /\ Then(s, "done")
      /\ UNCHANGED <<slugs, rows, identity, act>>
  BY DEF SoftDeleteUser
<1>4. /\ users'[i] \in User /\ users'[i].email = users[i].email /\ users'[i].name = users[i].name
      /\ users'[i].active = users[i].active /\ users'[i].deleted
  BY <1>1, <1>2, <1>3 DEF User, Base
<1>5. /\ \A j \in UserIds : j # i => users'[j] = users[j]
      /\ users' \in [UserIds -> User \cup {NoUser}]
  BY <1>1, <1>2, <1>3, <1>4 DEF Base
<1>6. users'[i] # NoUser
  BY <1>4
<1>7. UniqueUsers(users')
  BY <1>1, <1>2, <1>4, <1>5 DEF Base, UniqueUsers, Lives
<1>8. Base'
  <2>1. \A g \in Googles : identity[g] # NoLink => identity[g].user \in UserIds
    BY <1>1 DEF Base, Link
  <2>2. \A j \in UserIds : users[j] # NoUser => users'[j] # NoUser
    BY <1>5, <1>6
  <2> QED BY <1>1, <1>3, <1>5, <1>7, <2>1, <2>2, Proceeds DEF Base
<1>9. Grow /\ \A j \in UserIds : users[j] # NoUser => SameUser(j, {})
  BY <1>3, <1>4, <1>5, <1>6 DEF Grow, SameUser
<1>10. Fits("done", act[s]) /\ Reached("done", act[s])'
  BY <1>1, <1>2, <1>3, <1>6 DEF Fits, Reached, Tenant
<1> QED BY <1>1, <1>3, <1>8, <1>9, <1>10, PlainWriteStep DEF Todo

LEMMA SlugsStep ==
    ASSUME AInv, NEW s \in Servers, InsertClient(s) \/ UpdateSlug(s)
    PROVE  AInv'
<1> DEFINE i == act[s].user
           cand == act[s].cand
<1>1. /\ todo[s] \in {"client", "reslug"} /\ act[s] \in Act /\ Base
      /\ Fits(todo[s], act[s]) /\ Reached(todo[s], act[s])
  BY Working DEF InsertClient, UpdateSlug, AInv
<1>2. i \in UserIds /\ users[i] # NoUser /\ cand \in Names /\ cand # NoName
  BY <1>1 DEF Fits, Reached, Act
<1>3. /\ ~SlugExists(cand) /\ slugs' = [slugs EXCEPT ![i] = cand]
      /\ Then(s, IF todo[s] = "client" THEN "company" ELSE "done")
      /\ UNCHANGED <<users, rows, identity, act>>
  BY DEF InsertClient, UpdateSlug
<1>4. PICK l \in {"company", "done"} : l = IF todo[s] = "client" THEN "company" ELSE "done"
  OBVIOUS
<1>5. slugs'[i] = cand /\ \A j \in UserIds : j # i => slugs'[j] = slugs[j]
  BY <1>1, <1>2, <1>3 DEF Base
<1>6. /\ slugs' \in [UserIds -> Names \cup {NoName}]
      /\ \A j, k \in UserIds : j # k /\ slugs'[j] # NoName => slugs'[j] # slugs'[k]
      /\ \A j \in UserIds : slugs[j] # NoName => slugs'[j] # NoName
      /\ \A j \in UserIds : slugs'[j] # NoName => users[j] # NoUser
  <2>1. slugs' \in [UserIds -> Names \cup {NoName}]
    BY <1>1, <1>2, <1>3 DEF Base
  <2>2. \A j, k \in UserIds : j # k /\ slugs'[j] # NoName => slugs'[j] # slugs'[k]
    BY <1>1, <1>3, <1>5 DEF Base, SlugExists
  <2> QED BY <1>1, <1>2, <1>5, <2>1, <2>2 DEF Base
<1>7. Base'
  <2>1. \A g \in Googles : identity[g] # NoLink => identity[g].user \in UserIds
    BY <1>1 DEF Base, Link
  <2> QED BY <1>1, <1>3, <1>6, <2>1, Proceeds DEF Base, UniqueUsers, Lives
<1>8. Grow /\ \A j \in UserIds : users[j] # NoUser => SameUser(j, {})
  BY <1>3, <1>6 DEF Grow, SameUser
<1>9. Fits(l, act[s])
  BY <1>1, <1>4 DEF Fits, Tenant
<1>10. Reached(l, act[s])'
  BY <1>1, <1>2, <1>3, <1>4, <1>5 DEF Fits, Reached, Tenant
<1> QED BY <1>1, <1>3, <1>4, <1>7, <1>8, <1>9, <1>10, PlainWriteStep DEF Todo

LEMMA InsertRowStep ==
    ASSUME AInv, NEW s \in Servers, InsertRow(s)
    PROVE  AInv'
<1> DEFINE i == act[s].user
           t == todo[s]
<1>1. t \in Tenant /\ t # "idle" /\ act[s] \in Act /\ Base /\ Fits(t, act[s]) /\ Reached(t, act[s])
  <2>1. t # "idle"
    BY DEF InsertRow, Tenant
  <2> QED BY <2>1, Working DEF InsertRow, AInv
<1>2. i \in UserIds /\ users[i] # NoUser /\ slugs[i] # NoName /\ act[s].asked = Fields
  BY <1>1 DEF Fits, Reached, Act
<1>3. /\ rows' = [rows EXCEPT ![i] = @ \cup {t}] /\ Then(s, NextRow(s)[t])
      /\ UNCHANGED <<users, slugs, identity, act>>
  BY DEF InsertRow
<1>4. PICK l \in {"member", "branch", "identity", "done"} :
          /\ l = NextRow(s)[t]
          /\ t = "company" => l = "member"
          /\ t = "member" => l = "branch"
          /\ t = "branch" => l = IF act[s].op = "google" THEN "identity" ELSE "done"
  BY <1>1 DEF NextRow, Tenant
<1>5. /\ rows'[i] = rows[i] \cup {t} /\ \A j \in UserIds : j # i => rows'[j] = rows[j]
      /\ rows[i] \subseteq Tenant /\ rows' \in [UserIds -> SUBSET Tenant]
  BY <1>1, <1>2, <1>3 DEF Base
<1>6. Base'
  <2>1. \A g \in Googles : identity[g] # NoLink => identity[g].user \in UserIds
    BY <1>1 DEF Base, Link
  <2>2. \A j \in UserIds : rows[j] = Tenant => rows'[j] = Tenant
    BY <1>1, <1>5
  <2> QED BY <1>1, <1>3, <1>5, <2>1, <2>2, Proceeds DEF Base, UniqueUsers, Lives
<1>7. Grow /\ \A j \in UserIds : users[j] # NoUser => SameUser(j, {})
  BY <1>3, <1>5 DEF Grow, SameUser
<1>8. Fits(l, act[s])
  BY <1>1, <1>2, <1>4 DEF Fits, Tenant
<1>9. Reached(l, act[s])'
  BY <1>1, <1>2, <1>3, <1>4, <1>5 DEF Reached, Tenant
<1> QED BY <1>1, <1>3, <1>4, <1>6, <1>7, <1>8, <1>9, PlainWriteStep DEF Todo

LEMMA LinkIdentityStep ==
    ASSUME AInv, NEW s \in Servers, LinkIdentity(s)
    PROVE  AInv'
<1> DEFINE i == act[s].user
           g == act[s].google
<1>1. /\ todo[s] = "identity" /\ act[s] \in Act /\ Base
      /\ Fits("identity", act[s]) /\ Reached("identity", act[s])
  BY Working DEF LinkIdentity, AInv
<1>2. i \in UserIds /\ users[i] # NoUser /\ g \in Googles
  BY <1>1 DEF Fits, Reached, Act
<1>3. PICK link \in Link : /\ link = [user |-> i, own |-> Creates(s)]
                           /\ link.user = i /\ (link.own => act[s].asked = Fields)
  <2> DEFINE link == [user |-> i, own |-> Creates(s)]
  <2>1. Creates(s) \in BOOLEAN
    BY DEF Creates
  <2>2. link \in Link /\ link.user = i
    BY <1>2, <2>1 DEF Link
  <2>3. link.own => Creates(s)
    OBVIOUS
  <2>4. link.own => act[s].asked = Fields
    BY <2>3 DEF Creates
  <2> QED BY <2>2, <2>4
<1>4. /\ identity[g] = NoLink /\ identity' = [identity EXCEPT ![g] = link] /\ Then(s, "done")
      /\ UNCHANGED <<users, slugs, rows, act>>
  BY <1>3 DEF LinkIdentity
<1>5. /\ identity'[g] = link /\ link # NoLink /\ identity' \in [Googles -> Link \cup {NoLink}]
      /\ \A h \in Googles : h # g => identity'[h] = identity[h]
  BY <1>1, <1>2, <1>3, <1>4 DEF Base
<1>6. Base'
  <2>1. link.own => rows[i] = Tenant /\ slugs[i] # NoName
    BY <1>1, <1>3 DEF Reached
  <2>2. \A h \in Googles : identity'[h] # NoLink =>
           /\ users[identity'[h].user] # NoUser
           /\ identity'[h].own => rows[identity'[h].user] = Tenant /\ slugs[identity'[h].user] # NoName
    BY <1>1, <1>2, <1>3, <1>5, <2>1 DEF Base
  <2> QED BY <1>1, <1>4, <1>5, <2>2, Proceeds DEF Base, UniqueUsers, Lives
<1>7. Grow /\ \A j \in UserIds : users[j] # NoUser => SameUser(j, {})
  BY <1>4, <1>5 DEF Grow, SameUser
<1>8. Fits("done", act[s]) /\ Reached("done", act[s])'
  BY <1>1, <1>2, <1>3, <1>4, <1>5 DEF Fits, Reached, Tenant
<1> QED BY <1>1, <1>4, <1>6, <1>7, <1>8, PlainWriteStep DEF Todo

-----------------------------------------------------------------------------
(* Theorems. *)

LEMMA AInit == AccountsInit => AInv
<1> SUFFICES ASSUME AccountsInit PROVE AInv
  OBVIOUS
<1>1. PICK owners \in SUBSET {i \in UserIds : users[i] # NoUser} :
          /\ slugs = [i \in UserIds |-> IF i \in owners THEN users[i].name ELSE NoName]
          /\ rows = [i \in UserIds |-> CASE i \in owners -> Tenant
                                         [] users[i] # NoUser /\ i \notin owners -> {"member"}
                                         [] OTHER -> {}]
  BY DEF AccountsInit
<1>2. \A e \in Emails : NewUser(e, NameOf[e]) \in User
  BY DEF NewUser, User, Passwords
<1>3. users \in [UserIds -> User \cup {NoUser}] /\ UniqueUsers(users)
  BY <1>2 DEF AccountsInit
<1>4. \A i \in UserIds : users[i] # NoUser => users[i] \in User /\ ~users[i].deleted
  BY <1>2 DEF AccountsInit, NewUser
<1>5. \A i \in UserIds : users[i] # NoUser => users[i].name \in Names
  BY <1>4 DEF User
<1>6. slugs \in [UserIds -> Names \cup {NoName}]
  BY <1>1, <1>5
<1>7. \A i \in UserIds : slugs[i] # NoName => users[i] # NoUser /\ slugs[i] = users[i].name
  BY <1>1
<1>8. \A i, j \in UserIds : i # j /\ slugs[i] # NoName => slugs[i] # slugs[j]
  <2>1. ASSUME NEW i \in UserIds, NEW j \in UserIds, i # j, slugs[i] # NoName, slugs[i] = slugs[j]
        PROVE  FALSE
    BY <1>3, <1>4, <1>7, <2>1 DEF UniqueUsers, Lives
  <2> QED BY <2>1
<1>9. rows \in [UserIds -> SUBSET Tenant]
  <2>1. \A i \in UserIds : rows[i] \in SUBSET Tenant
    BY <1>1 DEF Tenant
  <2> QED BY <1>1, <2>1
<1>10. /\ identity = [g \in Googles |-> NoLink] /\ todo = [s \in Servers |-> "idle"]
       /\ act = [s \in Servers |-> NoAct] /\ acts = 0
  BY DEF AccountsInit
<1>11. Base
  BY <1>3, <1>6, <1>7, <1>8, <1>9, <1>10 DEF Base
<1>12. \A s \in Servers : ServerOK(s)
  BY <1>10 DEF ServerOK, Todo
<1> QED BY <1>11, <1>12 DEF AInv

LEMMA AStep ==
    ASSUME AInv, NEW s \in Servers, AccountStep(s)
    PROVE  AInv'
BY ProbesStep, AllocatesStep, GoogleReadsStep, EndsStep, InsertUserStep, WriteUserStep,
   SoftDeleteUserStep, SlugsStep, InsertRowStep, LinkIdentityStep DEF AccountStep

LEMMA ANext ==
    ASSUME AInv, [AccountsNext]_accountVars
    PROVE  AInv'
<1>1. CASE UNCHANGED accountVars
  <2>1. users' = users /\ slugs' = slugs /\ rows' = rows /\ identity' = identity
          /\ todo' = todo /\ act' = act /\ acts' = acts
    BY <1>1 DEF accountVars
  <2>2. Base'
    BY <2>1 DEF AInv, Base
  <2>3. ASSUME NEW s \in Servers PROVE ServerOK(s)'
    BY <2>1 DEF AInv, ServerOK, Reached, Differs
  <2> QED BY <2>2, <2>3 DEF AInv
<1>2. CASE AccountsNext
  BY <1>2, CallsBegin, AStep DEF AccountsNext
<1> QED BY <1>1, <1>2

LEMMA AInvariant == AccountsSpec => []AInv
<1> QED BY AInit, ANext, PTL DEF AccountsSpec

\* Shape, and the unique indexes on e-mails, user names and slugs, whatever
\* overlaps (migrations 000002 and 000012).
THEOREM AccountsTypeOK == AccountsSpec => []AccountsOK
<1> QED BY AInvImplies, AInvariant, PTL

\* A Google sign-in answers for the user its account is linked to, and a user
\* it created is linked when his tenant is complete (linkGoogleIdentity).
THEOREM AccountsGoogle == AccountsSpec => []GoogleAccountHolds
<1> QED BY AInvImplies, AInvariant, PTL

\* A call that begins writes nothing.
LEMMA CallLeaves ==
    ASSUME NEW r \in Servers, AccountCall(r)
    PROVE  users' = users
<1>1. CASE BeginNewUser(r)
  BY <1>1 DEF BeginNewUser, Call
<1>2. CASE BeginUpdateUser(r)
  BY <1>2 DEF BeginUpdateUser, Call
<1>3. CASE BeginUpdateMe(r) \/ BeginDeleteUser(r)
  BY <1>3 DEF BeginUpdateMe, BeginDeleteUser, Call
<1>4. CASE BeginChangePassword(r)
  BY <1>4 DEF BeginChangePassword, Call
<1>5. CASE BeginUpdateClient(r)
  BY <1>5 DEF BeginUpdateClient, Call
<1>6. CASE BeginGoogle(r)
  <2>1. \A l, k : Call(r, l, k) => users' = users
    BY DEF Call
  <2> QED BY <1>6, <2>1 DEF BeginGoogle
<1> QED BY <1>1, <1>2, <1>3, <1>4, <1>5, <1>6 DEF AccountCall

LEMMA UndoStep ==
    ASSUME AInv, AccountsNext, NEW s \in Servers, NEW i \in UserIds,
           users[i] # NoUser, users'[i] # users[i], todo[s] # "idle", todo'[s] # todo[s]
    PROVE  /\ users[i].deleted => users'[i].deleted
           /\ \A f \in Fields : users'[i][f] # users[i][f] => f \in act[s].asked \cup act[s].touched
<1>1. PICK r \in Servers : AccountStep(r)
  BY CallLeaves DEF AccountsNext
<1>2. users' # users
  OBVIOUS
<1>3. InsertUser(r) \/ WriteUser(r) \/ UpdatePassword(r) \/ SoftDeleteUser(r)
  BY <1>1, <1>2 DEF AccountStep, CheckEmail, CheckUsername, Probe, AllocateUsername, AllocateSlug,
     Allocate, InsertClient, UpdateSlug, InsertRow, ResumeGoogle, FindByEmail, LinkIdentity,
     Refused, EndCall
<1>4. /\ todo[r] \in {"user", "write", "password", "delete"} /\ act[r] \in Act /\ Base
      /\ Fits(todo[r], act[r]) /\ Reached(todo[r], act[r]) /\ Differs(todo[r], act[r])
  BY <1>3, Working DEF InsertUser, WriteUser, UpdatePassword, SoftDeleteUser, AInv
<1>5. r = s
  <2>1. \E l : Then(r, l)
    BY <1>3 DEF InsertUser, WriteUser, UpdatePassword, SoftDeleteUser, PutUser
  <2> QED BY <1>4, <2>1, Proceeds
<1>6. users[i] \in User
  BY <1>4 DEF Base
<1>7. ~InsertUser(s)
  <2>1. ASSUME InsertUser(s) PROVE FALSE
    <3>1. PICK j \in UserIds : users[j] = NoUser /\ users' = [users EXCEPT ![j] = Inserted(s)]
      BY <2>1 DEF InsertUser, PutUser
    <3> QED BY <1>4, <3>1 DEF Base
  <2> QED BY <2>1
<1> DEFINE k == act[s]
<1>8. k.user \in UserIds /\ users[k.user] # NoUser
  BY <1>3, <1>4, <1>5, <1>7 DEF Fits, Reached, Act, InsertUser, WriteUser, UpdatePassword, SoftDeleteUser
<1>9. CASE WriteUser(s)
  <2>1. PICK row : row = [k.row EXCEPT !.password = users[k.user].password, !.deleted = FALSE]
    OBVIOUS
  <2>2. /\ row.email = k.row.email /\ row.name = k.row.name /\ row.active = k.row.active
        /\ row.password = users[k.user].password /\ row \in User
    BY <1>4, <1>5, <1>8, <2>1 DEF Act, User, Base
  <2>3. Lives(users, k.user) /\ users' = [users EXCEPT ![k.user] = row]
    BY <1>2, <1>9, <2>1 DEF WriteUser, PutUser
  <2>4. i = k.user /\ users'[i] = row /\ ~users[i].deleted
    BY <1>4, <1>8, <2>3 DEF Base, Lives
  <2>5. k.op \in {"update", "updateMe"} /\ todo[s] = "write"
    BY <1>4, <1>5, <1>9 DEF Fits, WriteUser
  <2>6. /\ row.email # users[i].email => "email" \in k.asked \cup k.touched
        /\ row.name # users[i].name => "name" \in k.asked \cup k.touched
        /\ row.active # users[i].active => "active" \in k.asked \cup k.touched
    BY <1>4, <1>5, <2>2, <2>4, <2>5 DEF Differs
  <2> QED BY <2>2, <2>4, <2>6 DEF Fields
<1>10. CASE UpdatePassword(s)
  <2>1. Lives(users, k.user) /\ users' = [users EXCEPT ![k.user].password = k.row.password]
    BY <1>2, <1>10 DEF UpdatePassword, PutUser
  <2>2. i = k.user /\ users'[i] = [users[i] EXCEPT !.password = k.row.password] /\ ~users[i].deleted
    BY <1>4, <1>8, <2>1 DEF Base, Lives
  <2>3. k.asked = {"password"}
    BY <1>4, <1>5, <1>10 DEF Fits, UpdatePassword
  <2>4. /\ users'[i].email = users[i].email /\ users'[i].name = users[i].name
        /\ users'[i].active = users[i].active
    BY <1>6, <2>2 DEF User
  <2> QED BY <2>2, <2>3, <2>4 DEF Fields
<1>11. CASE SoftDeleteUser(s)
  <2>1. users' = [users EXCEPT ![k.user].deleted = TRUE]
    BY <1>11 DEF SoftDeleteUser
  <2>2. i = k.user /\ users'[i] = [users[i] EXCEPT !.deleted = TRUE]
    BY <1>4, <1>8, <2>1 DEF Base
  <2>3. /\ users'[i].email = users[i].email /\ users'[i].name = users[i].name
        /\ users'[i].active = users[i].active /\ users'[i].password = users[i].password
        /\ users'[i].deleted
    BY <1>6, <2>2 DEF User
  <2> QED BY <2>3 DEF Fields
<1> QED BY <1>3, <1>5, <1>7, <1>9, <1>10, <1>11

\* A write undoes only what its request sets or what was written since its
\* read, and no user comes back (UserService.Update, UpdateMe, ChangePassword).
THEOREM AccountsUndoNothing == AccountsSpec => NoSilentUndo
<1>1. AInv /\ [AccountsNext]_accountVars
      => [\A s \in Servers, i \in UserIds :
            /\ users[i] # NoUser /\ users'[i] # users[i]
            /\ todo[s] # "idle" /\ todo'[s] # todo[s]
            => /\ users[i].deleted => users'[i].deleted
               /\ \A f \in Fields : users'[i][f] # users[i][f] =>
                     f \in act[s].asked \cup act[s].touched]_accountVars
  BY UndoStep
<1> QED BY <1>1, AInvariant, PTL DEF AccountsSpec, NoSilentUndo

-----------------------------------------------------------------------------
(* API keys. *)

HIDE NothingAssumed
HIDE ActsAssumption
HIDE GoogleAssumption
USE NoKeyAssumption, KeyCallsAssumption

\* What a call has read is covered by its history, and a key once inserted
\* stays.
Remembers(c) ==
    next[c] # "idle" => /\ held \subseteq job[c].had
                        /\ cached \subseteq job[c].cache
                        /\ job[c].key # NoKey => keys[job[c].key] # NoKey

HasKey(c) == next[c] \in {"write", "revoke"} => job[c].key # NoKey

\* A scope about to be written has been checked, or was written before.
Checked(c) == next[c] \in {"insert", "write"} => job[c].scope \subseteq ever

\* A key with a scope never lets the request fall back to Redis.
Pinned(c) ==
    next[c] \in {"check", "passed"} =>
        IF job[c].scope # {}
        THEN ~job[c].nil /\ job[c].pinned \subseteq job[c].scope \cap job[c].had
        ELSE job[c].pinned \subseteq job[c].had

Passes(c) ==
    next[c] = "passed" =>
        IF job[c].scope # {}
        THEN job[c].need \subseteq job[c].scope \cap job[c].had
        ELSE job[c].need \subseteq job[c].had \cup job[c].cache

ClientOK(c) ==
    /\ job[c] \in Job \cup {NoJob}
    /\ next[c] \in KeySteps
    /\ next[c] = "idle" <=> job[c] = NoJob
    /\ Remembers(c) /\ HasKey(c) /\ Checked(c) /\ Pinned(c) /\ Passes(c)

RowOK(k) == /\ keys[k] \in Key \cup {NoKey}
            /\ keys[k] # NoKey => keys[k].scope \subseteq ever

\* What belongs to no client and to no key.
Common ==
    /\ DOMAIN keys = KeyIds /\ keys = [k \in KeyIds |-> keys[k]]
    /\ DOMAIN job = Clients /\ job = [c \in Clients |-> job[c]]
    /\ DOMAIN next = Clients /\ next = [c \in Clients |-> next[c]]
    /\ held \in SUBSET Perms
    /\ cached \in SUBSET Perms
    /\ ever \in SUBSET Perms
    /\ held \subseteq ever
    /\ jobs \in 0 .. MaxKeyCalls

KInv ==
    /\ Common
    /\ \A k \in KeyIds : RowOK(k)
    /\ \A c \in Clients : ClientOK(c)

---------------------------------------------------------------------------
LEMMA KInvImplies == KInv => KeysOK /\ KeyScopeHolds
<1> SUFFICES ASSUME KInv PROVE KeysOK /\ KeyScopeHolds
  OBVIOUS
<1>1. keys \in [KeyIds -> Key \cup {NoKey}]
  BY DEF KInv, Common, RowOK
<1>2. job \in [Clients -> Job \cup {NoJob}] /\ next \in [Clients -> KeySteps]
  BY DEF KInv, Common, ClientOK
<1>3. KeysOK
  BY <1>1, <1>2 DEF KeysOK, KInv, Common, ClientOK
<1>4. KeyScopeHolds
  BY DEF KeyScopeHolds, KInv, RowOK, ClientOK, Passes
<1> QED BY <1>3, <1>4

LEMMA KeysInitKInv == KeysInit => KInv
<1> SUFFICES ASSUME KeysInit PROVE KInv
  OBVIOUS
<1>1. Common
  BY DEF KeysInit, Common
<1>2. \A k \in KeyIds : RowOK(k)
  BY DEF KeysInit, RowOK
<1>3. \A c \in Clients : ClientOK(c)
  BY DEF KeysInit, ClientOK, KeySteps, Remembers, HasKey, Checked, Pinned, Passes
<1> QED BY <1>1, <1>2, <1>3 DEF KInv

\* A client the step leaves alone.
LEMMA OthersKeep ==
    ASSUME NEW d \in Clients, ClientOK(d), next'[d] = next[d], job'[d] = job[d],
           held' = held, cached' = cached, ever' = ever,
           \A k \in KeyIds : keys[k] # NoKey => keys'[k] # NoKey
    PROVE  ClientOK(d)'
<1>1. Remembers(d)'
  <2> SUFFICES ASSUME next[d] # "idle"
               PROVE  /\ held \subseteq job[d].had
                      /\ cached \subseteq job[d].cache
                      /\ job[d].key # NoKey => keys'[job[d].key] # NoKey
    BY DEF Remembers
  <2>1. job[d].key \in KeyIds \cup {NoKey}
    BY DEF ClientOK, Job
  <2> QED BY <2>1 DEF ClientOK, Remembers
<1>2. (HasKey(d) /\ Checked(d) /\ Pinned(d) /\ Passes(d))'
  BY DEF ClientOK, HasKey, Checked, Pinned, Passes
<1> QED BY <1>1, <1>2 DEF ClientOK

\* A step of client c that changes no row.
LEMMA OneClient ==
    ASSUME KInv, NEW c \in Clients, NEW l, NEW j,
           next' = [next EXCEPT ![c] = l], job' = [job EXCEPT ![c] = j],
           jobs' \in 0 .. MaxKeyCalls, UNCHANGED <<keys, held, cached, ever>>,
           ClientOK(c)'
    PROVE  KInv'
<1>1. Common'
  BY DEF KInv, Common
<1>2. \A k \in KeyIds : RowOK(k)'
  BY DEF KInv, RowOK
<1>3. ASSUME NEW d \in Clients PROVE ClientOK(d)'
  <2>1. CASE d = c
    BY <2>1
  <2>2. CASE d # c
    <3>1. next'[d] = next[d] /\ job'[d] = job[d]
      BY <2>2 DEF KInv, Common
    <3> QED BY <3>1, OthersKeep DEF KInv
  <2> QED BY <2>1, <2>2
<1> QED BY <1>1, <1>2, <1>3 DEF KInv

LEMMA StartKInv ==
    ASSUME KInv, NEW c \in Clients, NEW l \in {"scopes", "insert", "write", "revoke", "load"},
           NEW key \in KeyIds \cup {NoKey}, NEW scope \in SUBSET Perms,
           NEW sets \in BOOLEAN, NEW need \in SUBSET Perms,
           Start(c, l, key, scope, sets, need),
           key # NoKey => keys[key] # NoKey,
           l \in {"write", "revoke"} => key # NoKey,
           l \in {"insert", "write"} => scope \subseteq ever
    PROVE  KInv'
<1> DEFINE j == [key |-> key, scope |-> scope, sets |-> sets, need |-> need,
                 pinned |-> {}, nil |-> TRUE, had |-> held, cache |-> cached]
<1>1. j \in Job
  BY DEF Job, KInv, Common
<1>2. next' = [next EXCEPT ![c] = l] /\ job' = [job EXCEPT ![c] = j]
  BY DEF Start
<1>3. next'[c] = l /\ job'[c] = j /\ j # NoJob
  BY <1>1, <1>2 DEF KInv, Common
<1>4. jobs' \in 0 .. MaxKeyCalls /\ UNCHANGED <<keys, held, cached, ever>>
  BY DEF Start, KInv, Common
<1>5. ClientOK(c)'
  <2>1. Remembers(c)' /\ HasKey(c)' /\ Checked(c)'
    BY <1>3, <1>4 DEF Remembers, HasKey, Checked
  <2>2. Pinned(c)' /\ Passes(c)'
    BY <1>3 DEF Pinned, Passes
  <2> QED BY <1>1, <1>3, <2>1, <2>2 DEF ClientOK, KeySteps
<1> QED BY <1>2, <1>4, <1>5, OneClient

LEMMA CallKInv ==
    ASSUME KInv, NEW c \in Clients, KeyCall(c)
    PROVE  KInv'
<1>1. ASSUME NEW scope \in SUBSET Perms, BeginCreateKey(c, scope) PROVE KInv'
  <2>1. CASE scope # {}
    <3>1. Start(c, "scopes", NoKey, scope, TRUE, {})
      BY <1>1, <2>1 DEF BeginCreateKey, FirstStep
    <3>2. "scopes" \in {"scopes", "insert", "write", "revoke", "load"}
            /\ "scopes" \notin {"insert", "write", "revoke"} /\ {} \in SUBSET Perms
      OBVIOUS
    <3> QED BY <3>1, <3>2, StartKInv
  <2>2. CASE scope = {}
    <3>1. Start(c, "insert", NoKey, scope, TRUE, {})
      BY <1>1, <2>2 DEF BeginCreateKey, FirstStep
    <3> QED BY <2>2, <3>1, StartKInv
  <2> QED BY <2>1, <2>2
<1>2. ASSUME NEW k \in KeyIds, NEW scope \in SUBSET Perms, NEW sets \in BOOLEAN,
             BeginUpdateKey(c, k, scope, sets)
      PROVE  KInv'
  <2>1. k # NoKey /\ keys[k] # NoKey
    BY <1>2 DEF BeginUpdateKey
  <2>2. CASE sets /\ scope # {}
    <3>1. Start(c, "scopes", k, scope, sets, {})
      BY <1>2, <2>2 DEF BeginUpdateKey, FirstStep
    <3>2. "scopes" \in {"scopes", "insert", "write", "revoke", "load"}
            /\ "scopes" \notin {"insert", "write", "revoke"} /\ {} \in SUBSET Perms
      OBVIOUS
    <3> QED BY <2>1, <3>1, <3>2, StartKInv
  <2>3. CASE ~(sets /\ scope # {})
    <3>1. scope \subseteq ever
      BY <1>2, <2>1, <2>3 DEF BeginUpdateKey, KInv, RowOK
    <3>2. Start(c, "write", k, scope, sets, {})
      BY <1>2, <2>3 DEF BeginUpdateKey, FirstStep
    <3> QED BY <2>1, <3>1, <3>2, StartKInv
  <2> QED BY <2>2, <2>3
<1>3. ASSUME NEW k \in KeyIds, BeginRevokeKey(c, k) PROVE KInv'
  <2>1. k # NoKey /\ keys[k] # NoKey /\ keys[k].scope \in SUBSET Perms
    BY <1>3 DEF BeginRevokeKey, KInv, RowOK, Key
  <2>2. Start(c, "revoke", k, keys[k].scope, FALSE, {})
    BY <1>3 DEF BeginRevokeKey
  <2>3. "revoke" \in {"scopes", "insert", "write", "revoke", "load"}
          /\ "revoke" \notin {"insert", "write"} /\ {} \in SUBSET Perms
    OBVIOUS
  <2> QED BY <2>1, <2>2, <2>3, StartKInv
<1>4. ASSUME NEW k \in KeyIds, NEW need \in Perms, BeginRequest(c, k, need) PROVE KInv'
  <2>1. k # NoKey /\ keys[k] # NoKey /\ keys[k].scope \in SUBSET Perms
    BY <1>4 DEF BeginRequest, KInv, RowOK, Key
  <2>2. {need} \in SUBSET Perms
    OBVIOUS
  <2> QED BY <1>4, <2>1, <2>2, StartKInv DEF BeginRequest
<1> QED BY <1>1, <1>2, <1>3, <1>4 DEF KeyCall

LEMMA FinishKInv ==
    ASSUME KInv, NEW c \in Clients, Finish(c), UNCHANGED <<keys, held, cached, ever>>
    PROVE  KInv'
<1>1. next' = [next EXCEPT ![c] = "idle"] /\ job' = [job EXCEPT ![c] = NoJob]
  BY DEF Finish, Proceed
<1>2. next'[c] = "idle" /\ job'[c] = NoJob
  BY <1>1 DEF KInv, Common
<1>3. ClientOK(c)'
  BY <1>2 DEF ClientOK, KeySteps, Remembers, HasKey, Checked, Pinned, Passes
<1>4. jobs' \in 0 .. MaxKeyCalls
  BY DEF Finish, Proceed, KInv, Common
<1> QED BY <1>1, <1>3, <1>4, OneClient

\* The call ends with a write of one row, whose scope was checked.
LEMMA PutKInv ==
    ASSUME KInv, NEW c \in Clients, Finish(c), UNCHANGED <<held, cached, ever>>,
           NEW k \in KeyIds, NEW row \in Key, keys' = [keys EXCEPT ![k] = row],
           row.scope \subseteq ever
    PROVE  KInv'
<1>1. Common'
  BY DEF Finish, Proceed, KInv, Common
<1>2. \A i \in KeyIds : RowOK(i)'
  BY DEF KInv, Common, RowOK
<1>3. \A i \in KeyIds : keys[i] # NoKey => keys'[i] # NoKey
  BY DEF KInv, Common
<1>4. ASSUME NEW d \in Clients PROVE ClientOK(d)'
  <2>1. CASE d = c
    <3>1. next'[c] = "idle" /\ job'[c] = NoJob
      BY DEF Finish, Proceed, KInv, Common
    <3> QED BY <2>1, <3>1 DEF ClientOK, KeySteps, Remembers, HasKey, Checked, Pinned, Passes
  <2>2. CASE d # c
    <3>1. next'[d] = next[d] /\ job'[d] = job[d]
      BY <2>2 DEF Finish, Proceed, KInv, Common
    <3> QED BY <1>3, <3>1, OthersKeep DEF KInv
  <2> QED BY <2>1, <2>2
<1> QED BY <1>1, <1>2, <1>4 DEF KInv

\* The call goes on with job j.
LEMMA ProceedKInv ==
    ASSUME KInv, NEW c \in Clients, next[c] # "idle", NEW l \in KeySteps \ {"idle"},
           Proceed(c, l), NEW j \in Job, job' = [job EXCEPT ![c] = j],
           UNCHANGED <<keys, held, cached, ever>>,
           j.key = job[c].key, j.had = job[c].had, j.cache = job[c].cache,
           HasKey(c)', Checked(c)', Pinned(c)', Passes(c)'
    PROVE  KInv'
<1>1. next' = [next EXCEPT ![c] = l] /\ next'[c] = l /\ job'[c] = j /\ j # NoJob
  BY DEF Proceed, KInv, Common
<1>2. Remembers(c)'
  BY <1>1 DEF Remembers, KInv, ClientOK
<1>3. ClientOK(c)'
  BY <1>1, <1>2 DEF ClientOK
<1>4. jobs' \in 0 .. MaxKeyCalls
  BY DEF Proceed, KInv, Common
<1> QED BY <1>1, <1>3, <1>4, OneClient

---------------------------------------------------------------------------
LEMMA StepKInv ==
    ASSUME KInv, NEW c \in Clients, KeyStep(c)
    PROVE  KInv'
<1> USE DEF KInv
<1>0. ASSUME next[c] # "idle", UNCHANGED job
      PROVE  job[c] \in Job /\ job' = [job EXCEPT ![c] = job[c]] /\ job'[c] = job[c]
  BY <1>0 DEF ClientOK, Common
<1>1. CASE ValidateScopes(c)
  <2>1. CASE job[c].scope \subseteq held
    <3> DEFINE l == IF job[c].key = NoKey THEN "insert" ELSE "write"
    <3>1. next[c] # "idle" /\ Proceed(c, l) /\ UNCHANGED <<job, keys, held, cached, ever>>
      BY <1>1, <2>1 DEF ValidateScopes
    <3>2. next'[c] = l /\ l \in KeySteps \ {"idle"}
      BY <3>1 DEF Proceed, Common, KeySteps
    <3>3. job[c] \in Job /\ job' = [job EXCEPT ![c] = job[c]] /\ job'[c] = job[c]
      BY <1>0, <3>1
    <3>4. HasKey(c)' /\ Checked(c)' /\ Pinned(c)' /\ Passes(c)'
      BY <2>1, <3>1, <3>2, <3>3 DEF HasKey, Checked, Pinned, Passes, Common
    <3> HIDE DEF l, KInv
    <3> QED BY <3>1, <3>2, <3>3, <3>4, ProceedKInv
  <2>2. CASE ~(job[c].scope \subseteq held)
    BY <1>1, <2>2, FinishKInv DEF ValidateScopes
  <2> QED BY <2>1, <2>2
<1>2. CASE InsertKey(c)
  <2>1. PICK k \in KeyIds :
           keys' = [keys EXCEPT ![k] = [scope |-> job[c].scope, revoked |-> FALSE, expired |-> FALSE]]
    BY <1>2 DEF InsertKey
  <2>2. job[c].scope \in SUBSET Perms /\ job[c].scope \subseteq ever
    BY <1>2 DEF InsertKey, ClientOK, Checked, Job
  <2>3. [scope |-> job[c].scope, revoked |-> FALSE, expired |-> FALSE] \in Key
    BY <2>2 DEF Key
  <2> HIDE DEF KInv
  <2> QED BY <1>2, <2>1, <2>2, <2>3, PutKInv DEF InsertKey
<1>3. CASE WriteKey(c)
  <2> DEFINE k == job[c].key
             row == [keys[k] EXCEPT !.scope = job[c].scope]
  <2>1. next[c] = "write" /\ job[c] \in Job
    BY <1>3 DEF WriteKey, ClientOK
  <2>2. k \in KeyIds /\ keys[k] \in Key
    BY <2>1 DEF ClientOK, HasKey, Remembers, Job, RowOK
  <2>3. row \in Key /\ row.scope \subseteq ever
    BY <2>1, <2>2 DEF ClientOK, Checked, Job, Key
  <2>4. keys' = [keys EXCEPT ![k] = row]
    BY <1>3 DEF WriteKey
  <2> HIDE DEF KInv, k, row
  <2> QED BY <1>3, <2>2, <2>3, <2>4, PutKInv DEF WriteKey
<1>4. CASE RevokeKey(c)
  <2> DEFINE k == job[c].key
             row == [keys[k] EXCEPT !.revoked = TRUE]
  <2>1. next[c] = "revoke" /\ job[c] \in Job
    BY <1>4 DEF RevokeKey, ClientOK
  <2>2. k \in KeyIds /\ keys[k] \in Key /\ keys[k].scope \subseteq ever
    BY <2>1 DEF ClientOK, HasKey, Remembers, Job, RowOK
  <2>3. row \in Key /\ row.scope \subseteq ever
    BY <2>2 DEF Key
  <2>4. keys' = [keys EXCEPT ![k] = row]
    BY <1>4 DEF RevokeKey
  <2> HIDE DEF KInv, k, row
  <2> QED BY <1>4, <2>2, <2>3, <2>4, PutKInv DEF RevokeKey
<1>5. CASE LoadPermissions(c)
  <2>1. PICK perms \in {held} \cup {{}} :
           LET e == EffectivePermissions(job[c].scope, perms)
           IN  job' = [job EXCEPT ![c].pinned = e.pinned, ![c].nil = e.nil]
    BY <1>5 DEF LoadPermissions
  <2> DEFINE e == EffectivePermissions(job[c].scope, perms)
             j == [job[c] EXCEPT !.pinned = e.pinned, !.nil = e.nil]
  <2>2. next[c] = "load" /\ job[c] \in Job
    BY <1>5 DEF LoadPermissions, ClientOK
  <2>3. perms \subseteq job[c].had /\ perms \in SUBSET Perms
    BY <2>2 DEF ClientOK, Remembers, Common
  <2>4. e.pinned \in SUBSET Perms /\ e.nil \in BOOLEAN
    BY <2>2, <2>3 DEF EffectivePermissions, Job
  <2>5. j \in Job /\ j.key = job[c].key /\ j.scope = job[c].scope /\ j.had = job[c].had
          /\ j.cache = job[c].cache /\ j.pinned = e.pinned /\ j.nil = e.nil
    <3> HIDE DEF e
    <3> QED BY <2>2, <2>4 DEF Job
  <2>6. job' = [job EXCEPT ![c] = j] /\ job'[c] = j
    BY <2>1 DEF Common
  <2>7. Proceed(c, "check") /\ next'[c] = "check"
    BY <1>5 DEF LoadPermissions, Proceed, Common
  <2>8. HasKey(c)' /\ Checked(c)' /\ Passes(c)'
    BY <2>7 DEF HasKey, Checked, Passes
  <2>9. IF j.scope # {} THEN ~e.nil /\ e.pinned \subseteq j.scope \cap j.had
                        ELSE e.pinned \subseteq j.had
    <3> HIDE DEF j
    <3> QED BY <2>3, <2>5 DEF EffectivePermissions
  <2>10. Pinned(c)'
    <3> HIDE DEF j, e
    <3> QED BY <2>5, <2>6, <2>9 DEF Pinned
  <2> HIDE DEF KInv, j, e
  <2> QED BY <1>5, <2>2, <2>5, <2>6, <2>7, <2>8, <2>10, ProceedKInv DEF LoadPermissions, KeySteps
<1>6. CASE RequirePermission(c)
  <2>1. CASE Allowed(c)
    <3>1. next[c] = "check" /\ Proceed(c, "passed") /\ UNCHANGED <<job, keys, held, cached, ever>>
      BY <1>6, <2>1 DEF RequirePermission
    <3>2. next'[c] = "passed"
      BY <3>1 DEF Proceed, Common
    <3>3. job[c] \in Job /\ job' = [job EXCEPT ![c] = job[c]] /\ job'[c] = job[c]
      BY <1>0, <3>1
    <3>4. HasKey(c)' /\ Checked(c)' /\ Pinned(c)'
      BY <3>1, <3>2, <3>3 DEF HasKey, Checked, Pinned, ClientOK
    <3>5. Passes(c)'
      BY <2>1, <3>1, <3>2, <3>3 DEF Passes, Allowed, Pinned, Remembers, ClientOK
    <3> HIDE DEF KInv
    <3> QED BY <3>1, <3>3, <3>4, <3>5, ProceedKInv DEF KeySteps
  <2>2. CASE ~Allowed(c)
    BY <1>6, <2>2, FinishKInv DEF RequirePermission
  <2> QED BY <2>1, <2>2
<1>7. CASE EndJob(c)
  BY <1>7, FinishKInv DEF EndJob
<1> QED BY <1>1, <1>2, <1>3, <1>4, <1>5, <1>6, <1>7 DEF KeyStep

---------------------------------------------------------------------------
\* What a running call may have read and held only grows.
LEMMA SeenOK ==
    ASSUME NEW c \in Clients, ClientOK(c), NEW perms \in SUBSET Perms, NEW redis \in SUBSET Perms,
           job'[c] = IF job[c] = NoJob THEN NoJob
                     ELSE [job[c] EXCEPT !.had = @ \cup perms, !.cache = @ \cup redis],
           next' = next, keys' = keys,
           ever \subseteq ever',
           held' \subseteq held \cup perms, cached' \subseteq cached \cup redis
    PROVE  ClientOK(c)'
<1>1. CASE job[c] = NoJob
  BY <1>1 DEF ClientOK, Remembers, HasKey, Checked, Pinned, Passes
<1>2. CASE job[c] # NoJob
  <2>1. job[c] \in Job /\ next[c] # "idle"
    BY <1>2 DEF ClientOK
  <2> DEFINE j == [job[c] EXCEPT !.had = @ \cup perms, !.cache = @ \cup redis]
  <2>2. /\ j \in Job /\ j # NoJob
        /\ j.key = job[c].key /\ j.scope = job[c].scope /\ j.need = job[c].need
        /\ j.pinned = job[c].pinned /\ j.nil = job[c].nil
        /\ j.had = job[c].had \cup perms /\ j.cache = job[c].cache \cup redis
    BY <2>1 DEF Job
  <2>3. job'[c] = j
    BY <1>2
  <2> HIDE DEF j
  <2>4. Remembers(c)'
    BY <2>1, <2>2, <2>3 DEF ClientOK, Remembers
  <2>5. HasKey(c)' /\ Checked(c)'
    BY <2>2, <2>3 DEF ClientOK, HasKey, Checked
  <2>6. Pinned(c)'
    BY <2>2, <2>3 DEF ClientOK, Pinned
  <2>7. Passes(c)'
    BY <2>2, <2>3 DEF ClientOK, Passes
  <2> QED BY <2>1, <2>2, <2>3, <2>4, <2>5, <2>6, <2>7 DEF ClientOK
<1> QED BY <1>1, <1>2

LEMMA ChangePermissionsKInv == KInv /\ ChangePermissions => KInv'
<1> SUFFICES ASSUME KInv, ChangePermissions PROVE KInv'
  OBVIOUS
<1>1. held' \in SUBSET Perms /\ ever' = ever \cup held'
  <2>1. PICK p \in Perms : held' = IF p \in held THEN held \ {p} ELSE held \cup {p}
    BY DEF ChangePermissions
  <2> QED BY <2>1 DEF ChangePermissions, KInv, Common
<1>2. job' = [c \in Clients |-> IF job[c] = NoJob THEN NoJob
                ELSE [job[c] EXCEPT !.had = @ \cup held', !.cache = @ \cup {}]]
  BY DEF ChangePermissions, Seen
<1>3. UNCHANGED <<keys, cached, next, jobs>>
  BY DEF ChangePermissions
<1>4. Common'
  BY <1>1, <1>2, <1>3 DEF KInv, Common
<1>5. \A k \in KeyIds : RowOK(k)'
  BY <1>1, <1>3 DEF KInv, RowOK
<1>6. ASSUME NEW c \in Clients PROVE ClientOK(c)'
  <2>1. job'[c] = IF job[c] = NoJob THEN NoJob
                  ELSE [job[c] EXCEPT !.had = @ \cup held', !.cache = @ \cup {}]
    BY <1>2
  <2>2. /\ ClientOK(c)
        /\ ever \subseteq ever' /\ held' \subseteq held \cup held' /\ cached' \subseteq cached \cup {}
        /\ {} \in SUBSET Perms
    BY <1>1, <1>3 DEF KInv
  <2> QED BY <1>1, <1>3, <2>1, <2>2, SeenOK
<1> QED BY <1>4, <1>5, <1>6 DEF KInv

LEMMA RefreshCacheKInv == KInv /\ RefreshCache => KInv'
<1> SUFFICES ASSUME KInv, RefreshCache PROVE KInv'
  OBVIOUS
<1>1. cached' = held /\ UNCHANGED <<keys, held, ever, next, jobs>> /\ held \in SUBSET Perms
  BY DEF RefreshCache, KInv, Common
<1>2. job' = [c \in Clients |-> IF job[c] = NoJob THEN NoJob
                ELSE [job[c] EXCEPT !.had = @ \cup {}, !.cache = @ \cup held]]
  BY DEF RefreshCache, Seen
<1>3. Common'
  BY <1>1, <1>2 DEF KInv, Common
<1>4. \A k \in KeyIds : RowOK(k)'
  BY <1>1 DEF KInv, RowOK
<1>5. ASSUME NEW c \in Clients PROVE ClientOK(c)'
  <2>1. job'[c] = IF job[c] = NoJob THEN NoJob
                  ELSE [job[c] EXCEPT !.had = @ \cup {}, !.cache = @ \cup held]
    BY <1>2
  <2>2. /\ ClientOK(c)
        /\ ever \subseteq ever' /\ held' \subseteq held \cup {} /\ cached' \subseteq cached \cup held
        /\ {} \in SUBSET Perms
    BY <1>1 DEF KInv
  <2> QED BY <1>1, <2>1, <2>2, SeenOK
<1> QED BY <1>3, <1>4, <1>5 DEF KInv

LEMMA ExpireKeyKInv == ASSUME KInv, NEW k \in KeyIds, ExpireKey(k) PROVE KInv'
<1>1. keys[k] \in Key /\ keys[k].scope \subseteq ever
  BY DEF ExpireKey, KInv, RowOK
<1> DEFINE row == [keys[k] EXCEPT !.expired = TRUE]
<1>2. row \in Key /\ row.scope = keys[k].scope
  BY <1>1 DEF Key
<1>3. keys' = [keys EXCEPT ![k] = row] /\ UNCHANGED <<held, cached, ever, job, next, jobs>>
  BY DEF ExpireKey
<1> HIDE DEF row
<1>4. Common'
  BY <1>3 DEF KInv, Common
<1>5. \A i \in KeyIds : RowOK(i)'
  BY <1>1, <1>2, <1>3 DEF KInv, Common, RowOK
<1>6. \A i \in KeyIds : keys[i] # NoKey => keys'[i] # NoKey
  BY <1>2, <1>3 DEF KInv, Common
<1>7. \A c \in Clients : ClientOK(c)'
  BY <1>3, <1>6, OthersKeep DEF KInv
<1> QED BY <1>4, <1>5, <1>7 DEF KInv

LEMMA KeysNextKInv == KInv /\ [KeysNext]_keyVars => KInv'
<1> SUFFICES ASSUME KInv, [KeysNext]_keyVars PROVE KInv'
  OBVIOUS
<1>1. ASSUME NEW c \in Clients, KeyCall(c) PROVE KInv'
  BY <1>1, CallKInv
<1>2. ASSUME NEW c \in Clients, KeyStep(c) PROVE KInv'
  BY <1>2, StepKInv
<1>3. CASE ChangePermissions
  BY <1>3, ChangePermissionsKInv
<1>4. CASE RefreshCache
  BY <1>4, RefreshCacheKInv
<1>5. ASSUME NEW k \in KeyIds, ExpireKey(k) PROVE KInv'
  BY <1>5, ExpireKeyKInv
<1>6. CASE UNCHANGED keyVars
  BY <1>6 DEF keyVars, KInv, Common, RowOK, ClientOK, Remembers, HasKey, Checked, Pinned, Passes
<1> QED BY <1>1, <1>2, <1>3, <1>4, <1>5, <1>6 DEF KeysNext

\* Keys, calls and what the user holds keep their shape.
THEOREM ApiKeysTypeOK == KeysSpec => []KeysOK
<1>1. KeysSpec => []KInv
  BY KeysInitKInv, KeysNextKInv, PTL DEF KeysSpec
<1> QED BY <1>1, KInvImplies, PTL

\* A scoped key passes only what it is scoped to and its user has held since
\* the request came; no key is scoped beyond what its user has ever held
\* (GetEffectivePermissions, RequirePermission, validateScopes).
THEOREM ApiKeysScopeHolds == KeysSpec => []KeyScopeHolds
<1>1. KeysSpec => []KInv
  BY KeysInitKInv, KeysNextKInv, PTL DEF KeysSpec
<1> QED BY <1>1, KInvImplies, PTL
---------------------------------------------------------------------------
(* Side by side. *)

\* Each of the three behaves in the common database as it does alone.
THEOREM AccessParts == AccessSpec => AccountsSpec /\ SessionsSpec /\ KeysSpec
<1>1. AccessInit => AccountsInit /\ SessionsInit /\ KeysInit
  BY DEF AccessInit
<1>2. [AccessNext]_accessVars
      => [AccountsNext]_accountVars /\ [SessionsNext]_sessionVars /\ [KeysNext]_keyVars
  BY DEF AccessNext, accessVars
<1> QED BY <1>1, <1>2, PTL DEF AccessSpec, AccountsSpec, SessionsSpec, KeysSpec

\* The rows and calls of all three keep their shape together: whatever the
\* others do meanwhile.
THEOREM AccessTypeOK == AccessSpec => []TypeOK
<1>1. AccountsOK /\ SessionsOK /\ KeysOK => TypeOK
  BY DEF TypeOK
<1> QED BY <1>1, AccessParts, AccountsTypeOK, SessionsTypeOK, ApiKeysTypeOK, PTL

=============================================================================
