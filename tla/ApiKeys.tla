------------------------------ MODULE ApiKeys ------------------------------
(***************************************************************************)
(* ApiKeyService and the permission check of a request made with a key: a  *)
(* key carries a scope, a subset of its user's permissions that is checked *)
(* when it is set and intersected again with what the user holds when the  *)
(* key is used.  A key without a scope inherits everything its user holds. *)
(*                                                                         *)
(* One user in one company; his permissions change by RBAC, the Redis      *)
(* cache over them (PermissionCache) is refreshed at any time.  Secrets,   *)
(* addresses, names and usage counters are left out, and so is the clock:  *)
(* a key that may expire does so at any time.                              *)
(***************************************************************************)
EXTENDS Integers, FiniteSets

CONSTANTS
    KeyIds,      \* ids of keys; bounds the keys ever inserted
    Perms,       \* permissions
    Clients,     \* goroutines serving calls and requests
    MaxKeyCalls, \* bounds the calls and requests ever begun
    Failing,     \* whether statements may fail
    NoKey, NoJob

ASSUME KeyCallsAssumption == MaxKeyCalls \in Nat /\ Failing \in BOOLEAN

VARIABLES
    keys,     \* core.api_keys: id -> row
    held,     \* permissions of the user
    cached,   \* what Redis says they are
    ever,     \* permissions the user has ever held (history)
    job,      \* client -> what its call was asked and has read
    next,     \* client -> the step its call executes next
    jobs      \* calls begun so far

keyVars == <<keys, held, cached, ever, job, next, jobs>>

\* scope = {}: not scoped.
Key == [scope : SUBSET Perms, revoked : BOOLEAN, expired : BOOLEAN]

\* scope: of the row to be written, or of the key as read; sets: whether the
\* request carries a scope; need: the permission the route requires; pinned:
\* claims.ScopedPermissions, unset while nil; had: what the user held, and
\* cache: what Redis said, at some time since the call began (history).
Job == [key : KeyIds \cup {NoKey}, scope : SUBSET Perms, sets : BOOLEAN,
        need : SUBSET Perms, pinned : SUBSET Perms, nil : BOOLEAN,
        had : SUBSET Perms, cache : SUBSET Perms]

KeySteps == {"idle", "scopes", "insert", "write", "revoke", "load", "check", "passed"}

ASSUME NoKeyAssumption == NoKey \notin Key \cup KeyIds /\ NoJob \notin Job

KeysInit ==
    /\ keys = [k \in KeyIds |-> NoKey]
    /\ held \in SUBSET Perms
    /\ cached = held
    /\ ever = held
    /\ job = [c \in Clients |-> NoJob]
    /\ next = [c \in Clients |-> "idle"]
    /\ jobs = 0

-----------------------------------------------------------------------------
(* Calls on keys. *)

Start(c, label, key, scope, sets, need) ==
    /\ next[c] = "idle"
    /\ jobs < MaxKeyCalls
    /\ jobs' = jobs + 1
    /\ next' = [next EXCEPT ![c] = label]
    /\ job' = [job EXCEPT ![c] =
                  [key |-> key, scope |-> scope, sets |-> sets, need |-> need,
                   pinned |-> {}, nil |-> TRUE, had |-> held, cache |-> cached]]
    /\ UNCHANGED <<keys, held, cached, ever>>

\* len(req.ScopedPermissions) > 0
FirstStep(scope, sets, otherwise) == IF sets /\ scope # {} THEN "scopes" ELSE otherwise

BeginCreateKey(c, scope) == Start(c, FirstStep(scope, TRUE, "insert"), NoKey, scope, TRUE, {})

\* FindByID, of a revoked or expired key as well; without a scope in the
\* request the write repeats the scope read.
BeginUpdateKey(c, k, scope, sets) ==
    /\ keys[k] # NoKey
    /\ ~sets => scope = keys[k].scope
    /\ Start(c, FirstStep(scope, sets, "write"), k, scope, sets, {})

BeginRevokeKey(c, k) == keys[k] # NoKey /\ Start(c, "revoke", k, keys[k].scope, FALSE, {})

Proceed(c, label) ==
    /\ next' = [next EXCEPT ![c] = label]
    /\ UNCHANGED jobs

Finish(c) ==
    /\ Proceed(c, "idle")
    /\ job' = [job EXCEPT ![c] = NoJob]

\* validateScopes
ValidateScopes(c) ==
    /\ next[c] = "scopes"
    /\ IF job[c].scope \subseteq held
       THEN Proceed(c, IF job[c].key = NoKey THEN "insert" ELSE "write") /\ UNCHANGED job
       ELSE Finish(c)
    /\ UNCHANGED <<keys, held, cached, ever>>

InsertKey(c) ==
    /\ next[c] = "insert"
    /\ \E k \in KeyIds :
          /\ keys[k] = NoKey
          /\ keys' = [keys EXCEPT ![k] =
                         [scope |-> job[c].scope, revoked |-> FALSE, expired |-> FALSE]]
    /\ Finish(c)
    /\ UNCHANGED <<held, cached, ever>>

\* The columns of the request; revoked_at is not among them.
WriteKey(c) ==
    /\ next[c] = "write"
    /\ keys' = [keys EXCEPT ![job[c].key].scope = job[c].scope]
    /\ Finish(c)
    /\ UNCHANGED <<held, cached, ever>>

\* A second revocation finds no row.
RevokeKey(c) ==
    /\ next[c] = "revoke"
    /\ keys' = [keys EXCEPT ![job[c].key].revoked = TRUE]
    /\ Finish(c)
    /\ UNCHANGED <<held, cached, ever>>

-----------------------------------------------------------------------------
(* Requests made with a key. *)

\* FindByKeyID; the secret was right.
BeginRequest(c, k, need) ==
    /\ keys[k] # NoKey /\ ~keys[k].revoked /\ ~keys[k].expired
    /\ Start(c, "load", k, keys[k].scope, FALSE, {need})

\* Mutant: an empty intersection is a nil slice too.
EffectivePermissionsNil(scope, perms) ==
    LET both == IF scope = {} THEN perms ELSE scope \cap perms
    IN  [pinned |-> both, nil |-> both = {}]

\* GetEffectivePermissions: of a scoped key a slice that is never nil, else
\* the list of the repository, which is nil when it is empty.
EffectivePermissions(scope, perms) ==
    IF scope = {} THEN [pinned |-> perms, nil |-> perms = {}]
    ELSE [pinned |-> scope \cap perms, nil |-> FALSE]

\* ValidateAndGetClaims; the error of GetUserPermissions is ignored.
LoadPermissions(c) ==
    /\ next[c] = "load"
    /\ \E perms \in {held} \cup (IF Failing THEN {{}} ELSE {}) :
          LET e == EffectivePermissions(job[c].scope, perms)
          IN  job' = [job EXCEPT ![c].pinned = e.pinned, ![c].nil = e.nil]
    /\ Proceed(c, "check")
    /\ UNCHANGED <<keys, held, cached, ever>>

\* RequirePermission: the pinned set, or Redis when there is none.
Allowed(c) == job[c].need \subseteq (IF job[c].nil THEN cached ELSE job[c].pinned)

RequirePermission(c) ==
    /\ next[c] = "check"
    /\ IF Allowed(c)
       THEN Proceed(c, "passed") /\ UNCHANGED job
       ELSE Finish(c)
    /\ UNCHANGED <<keys, held, cached, ever>>

\* The call answers, or a statement fails.
EndJob(c) ==
    /\ next[c] = "passed" \/ (Failing /\ next[c] # "idle")
    /\ Finish(c)
    /\ UNCHANGED <<keys, held, cached, ever>>

-----------------------------------------------------------------------------
(* What happens meanwhile. *)

Seen(now, redis) ==
    [c \in Clients |-> IF job[c] = NoJob THEN NoJob
                       ELSE [job[c] EXCEPT !.had = @ \cup now, !.cache = @ \cup redis]]

\* Roles change: one permission is given or taken.
ChangePermissions ==
    /\ \E p \in Perms :
          held' = IF p \in held THEN held \ {p} ELSE held \cup {p}
    /\ ever' = ever \cup held'
    /\ job' = Seen(held', {})
    /\ UNCHANGED <<keys, cached, next, jobs>>

\* The entry is invalidated or expires, and is loaded again.
RefreshCache ==
    /\ cached' = held
    /\ job' = Seen({}, held)
    /\ UNCHANGED <<keys, held, ever, next, jobs>>

ExpireKey(k) ==
    /\ keys[k] # NoKey
    /\ keys' = [keys EXCEPT ![k].expired = TRUE]
    /\ UNCHANGED <<held, cached, ever, job, next, jobs>>

KeyCall(c) ==
    \/ \E scope \in SUBSET Perms : BeginCreateKey(c, scope)
    \/ \E k \in KeyIds, scope \in SUBSET Perms, sets \in BOOLEAN : BeginUpdateKey(c, k, scope, sets)
    \/ \E k \in KeyIds : BeginRevokeKey(c, k)
    \/ \E k \in KeyIds, need \in Perms : BeginRequest(c, k, need)

KeyStep(c) ==
    \/ ValidateScopes(c) \/ InsertKey(c) \/ WriteKey(c) \/ RevokeKey(c)
    \/ LoadPermissions(c) \/ RequirePermission(c) \/ EndJob(c)

KeysNext ==
    \/ \E c \in Clients : KeyCall(c) \/ KeyStep(c)
    \/ ChangePermissions \/ RefreshCache
    \/ \E k \in KeyIds : ExpireKey(k)

KeysSpec == KeysInit /\ [][KeysNext]_keyVars

-----------------------------------------------------------------------------
(* Properties *)

\* Shape.
KeysOK ==
    /\ keys \in [KeyIds -> Key \cup {NoKey}]
    /\ held \in SUBSET Perms
    /\ cached \in SUBSET Perms
    /\ ever \in SUBSET Perms
    /\ job \in [Clients -> Job \cup {NoJob}]
    /\ next \in [Clients -> KeySteps]
    /\ \A c \in Clients : next[c] = "idle" <=> job[c] = NoJob
    /\ jobs \in 0 .. MaxKeyCalls

\* A request passes by a scoped key only with a permission of the scope that
\* the user held at some time since it began, also when he has lost all others
\* or they cannot be read; by a key without a scope only with one that he held
\* then or that Redis reported, which is asked when he holds none.  And no key
\* is scoped to a permission its user never held, whatever calls overlapped
\* (GetEffectivePermissions, RequirePermission, validateScopes).
KeyScopeHolds ==
    /\ \A c \in Clients : next[c] = "passed" =>
          IF job[c].scope # {}
          THEN job[c].need \subseteq job[c].scope \cap job[c].had
          ELSE job[c].need \subseteq job[c].had \cup job[c].cache
    /\ \A k \in KeyIds : keys[k] # NoKey => keys[k].scope \subseteq ever
=============================================================================
