------------------------------- MODULE Access -------------------------------
(***************************************************************************)
(* Who may do what: accounts, sessions, API keys and grants (internal/     *)
(* store/users.go), the handlers of internal/api/auth.go and users.go, the *)
(* checks of middleware.go, the sockets that logs.go keeps checking, the   *)
(* login lockout (internal/auth/lockout.go) and the part of                *)
(* ApplyGlobalSidecar (internal/configsync/apply.go) that replaces users   *)
(* and keys. Requests read an account, spend a while on a password hash,   *)
(* and write: other requests run in between. There is one app, and one     *)
(* address from which everybody logs in.                                   *)
(***************************************************************************)
EXTENDS Integers, FiniteSets

CONSTANTS
    Ids,          \* ids of users rows, an interval from 1; never reused
    Names,        \* user names
    Passwords,    \* passwords
    KeyNames,     \* names of API keys
    Hashes,       \* key hashes
    Callers,      \* requests that may be under way at the same time
    Sockets,      \* WebSocket connections to the app's logs
    Threshold,    \* failures after which LoginLockout locks
    Starts,       \* users tables that may be there at the start
    Wanted,       \* global sidecars that may be loaded: name -> account, and keys
    Kinds,        \* the requests that happen
    MaxAsks       \* bound on requests and sidecars

ASSUME AccessBounds ==
    /\ Threshold \in Nat \ {0} /\ MaxAsks \in Nat /\ IsFiniteSet(Callers)
    /\ \A w \in Wanted : IsFiniteSet(DOMAIN w.users)

\* A users row.
IsAccount(a) == a \in [name : {a.name}, role : {a.role}, pw : {a.pw}, tv : Nat]

\* The users tables that may be there: ids were given out from 1, none is gone.
ASSUME AccessStarts ==
    \A table \in Starts :
        /\ IsFiniteSet(DOMAIN table)
        /\ table = [u \in 1 .. Cardinality(DOMAIN table) |-> table[u]]
        /\ \A u \in DOMAIN table : IsAccount(table[u])

Roles == {"super_admin", "manage", "viewer"}

VARIABLES
    accounts,  \* users: id -> [name, role, pw, tv]
    fresh,     \* the next user id
    grants,    \* user_app_access: ids
    keys,      \* api_keys rows
    sessions,  \* JWTs handed out: user id, token version, and the password they were given for
    ask,       \* the requests under way
    setupMu,   \* is Server.setupMu held?
    fails,     \* failures recorded for the address
    locked,    \* is the address locked out?
    burst,     \* history: failures recorded since the lock last ended
    socks,     \* the sockets: how each one authenticated
    loading,   \* the sidecar being applied, after its users
    replaced,  \* history: the keys that the last sidecar asked for
    imported,  \* history: ids whose password a sidecar changed
    asks       \* how many more requests and sidecars there will be

lockVars == <<fails, locked, burst>>
accessVars == <<accounts, fresh, grants, keys, sessions, ask, setupMu,
                lockVars, socks, loading, replaced, imported, asks>>

NoAsk == [kind |-> "idle"]
Closed == [open |-> FALSE]
NotLoading == [on |-> FALSE, keys |-> {}]

AccessInit ==
    /\ accounts \in Starts /\ fresh = Cardinality(DOMAIN accounts) + 1
    /\ grants = DOMAIN accounts
    /\ keys = {} /\ sessions = {}
    /\ ask = [c \in Callers |-> NoAsk] /\ setupMu = FALSE
    /\ fails = 0 /\ locked = FALSE /\ burst = 0
    /\ socks = [s \in Sockets |-> Closed]
    /\ loading = NotLoading /\ replaced = {} /\ imported = {} /\ asks = MaxAsks
-----------------------------------------------------------------------------
(* The store                                                               *)

HasName(n) == \E u \in DOMAIN accounts : accounts[u].name = n
IdOf(n) == CHOOSE u \in DOMAIN accounts : accounts[u].name = n
SuperAdmins == {u \in DOMAIN accounts : accounts[u].role = "super_admin"}

\* CreateUser: UNIQUE(username); ids are never reused.
CreateUser(n, role, pw) ==
    /\ accounts' = [u \in DOMAIN accounts \cup {fresh} |->
                      IF u = fresh THEN [name |-> n, role |-> role, pw |-> pw, tv |-> 1] ELSE accounts[u]]
    /\ fresh' = fresh + 1

\* DeleteUser: keys and grants cascade.
DropUsers(S) ==
    /\ accounts' = [u \in DOMAIN accounts \ S |-> accounts[u]]
    /\ grants' = grants \ S /\ keys' = {k \in keys : k.owner \notin S}

\* Mutant: a new password leaves the token version alone.
MutKeepVersion(u, pw) == [accounts EXCEPT ![u].pw = pw]

UpdatePassword(u, pw) == [accounts EXCEPT ![u].pw = pw, ![u].tv = @ + 1]
UpdateUserRole(u, role) == [accounts EXCEPT ![u].role = role, ![u].tv = @ + 1]
BumpTokenVersion(u) == [accounts EXCEPT ![u].tv = @ + 1]

\* authMiddleware, with a session: the user still exists and the version matches.
Accepted(t) == t.user \in DOMAIN accounts /\ accounts[t.user].tv = t.tv
-----------------------------------------------------------------------------
(* Requests                                                                *)

Idle(c) == ask[c] = NoAsk
Begin(c, kind, r) ==
    /\ kind \in Kinds /\ Idle(c) /\ asks > 0 /\ asks' = asks - 1 /\ ask' = [ask EXCEPT ![c] = r]
End(c) == ask' = [ask EXCEPT ![c] = NoAsk]

\* Mutant: an address that reached the threshold is locked one failure later.
MutLockLate ==
    /\ fails' = fails + 1 /\ burst' = burst + 1
    /\ locked' = (locked \/ fails + 1 > Threshold)

\* LoginLockout.RecordFailure; the longer and longer delays are abstracted to
\* "for a while".
RecordFailure ==
    /\ fails' = fails + 1 /\ burst' = burst + 1
    /\ locked' = (locked \/ fails + 1 >= Threshold)

\* The delay is over; the count stays.
LockEnds == /\ locked /\ locked' = FALSE /\ burst' = 0
            /\ UNCHANGED <<accounts, fresh, grants, keys, sessions, ask, setupMu,
                           fails, socks, loading, replaced, imported, asks>>

\* handleLogin: the lockout is checked and the account read, then the password
\* is compared with the hash that was read ...
BeginLogin(c, n, pw) ==
    /\ ~locked
    /\ Begin(c, "login", [kind |-> "login", pw |-> pw,
                          user |-> IF HasName(n) THEN IdOf(n) ELSE 0,
                          row |-> IF HasName(n) THEN accounts[IdOf(n)] ELSE [pw |-> "nobody"]])
    /\ UNCHANGED <<accounts, fresh, grants, keys, sessions, setupMu, lockVars, socks, loading, replaced, imported>>

\* ... and a token made from the row that was read, or a failure counted.
EndLogin(c) ==
    /\ ask[c].kind = "login" /\ End(c)
    /\ IF ask[c].row.pw = ask[c].pw
       THEN /\ sessions' = sessions \cup {[user |-> ask[c].user, tv |-> ask[c].row.tv, pw |-> ask[c].pw]}
            /\ fails' = 0 /\ locked' = FALSE /\ burst' = 0
       ELSE UNCHANGED sessions /\ RecordFailure
    /\ UNCHANGED <<accounts, fresh, grants, keys, setupMu, socks, loading, replaced, imported, asks>>

\* handleLogout: whoever shows a token that has not expired, also a stale one,
\* signs its user out everywhere.
Logout(c, t) ==
    /\ Begin(c, "logout", NoAsk) /\ t \in sessions
    /\ accounts' = IF t.user \in DOMAIN accounts THEN BumpTokenVersion(t.user) ELSE accounts
    /\ UNCHANGED <<fresh, grants, keys, sessions, setupMu, lockVars, socks, loading, replaced, imported>>

\* handleSetup: users are counted under setupMu ...
BeginSetup(c, n, pw) ==
    /\ ~setupMu /\ DOMAIN accounts = {}
    /\ Begin(c, "setup", [kind |-> "setup", name |-> n, pw |-> pw]) /\ setupMu' = TRUE
    /\ UNCHANGED <<accounts, fresh, grants, keys, sessions, lockVars, socks, loading, replaced, imported>>

\* ... and the administrator is inserted after the password was hashed.
EndSetup(c) ==
    /\ ask[c].kind = "setup" /\ End(c) /\ setupMu' = FALSE
    /\ IF HasName(ask[c].name) \/ fresh \notin Ids THEN UNCHANGED <<accounts, fresh>>
       ELSE CreateUser(ask[c].name, "super_admin", ask[c].pw)
    /\ UNCHANGED <<grants, keys, sessions, lockVars, socks, loading, replaced, imported, asks>>

\* handleChangePassword: the current password is compared, the new one hashed ...
BeginChangePassword(c, t, new) ==
    /\ Accepted(t) /\ t \in sessions
    /\ Begin(c, "password", [kind |-> "password", user |-> t.user, pw |-> new])
    /\ UNCHANGED <<accounts, fresh, grants, keys, sessions, setupMu, lockVars, socks, loading, replaced, imported>>

EndChangePassword(c) ==
    /\ ask[c].kind = "password" /\ End(c)
    /\ accounts' = IF ask[c].user \in DOMAIN accounts /\ ask[c].pw # "keep"
                   THEN UpdatePassword(ask[c].user, ask[c].pw) ELSE accounts
    /\ UNCHANGED <<fresh, grants, keys, sessions, setupMu, lockVars, socks, loading, replaced, imported, asks>>

\* handleUpdateUser: the caller was super_admin when the middleware looked, the
\* target is read, and nobody changes the own role ...
BeginUpdateUser(c, t, u, role, pw) ==
    /\ Accepted(t) /\ t \in sessions /\ t.user \in SuperAdmins
    /\ u \in DOMAIN accounts /\ (t.user = u => role = "super_admin")
    /\ Begin(c, "update", [kind |-> "update", user |-> u, role |-> role,
                           was |-> accounts[u].role, pw |-> pw])
    /\ UNCHANGED <<accounts, fresh, grants, keys, sessions, setupMu, lockVars, socks, loading, replaced, imported>>

\* ... then the role is written if it differs from the one read, then the
\* password, if one was given.
WriteRole(c) ==
    /\ ask[c].kind = "update"
    /\ ask' = [ask EXCEPT ![c] = [kind |-> "password", user |-> ask[c].user, pw |-> ask[c].pw]]
    /\ accounts' = IF ask[c].user \in DOMAIN accounts /\ ask[c].role # ask[c].was
                   THEN UpdateUserRole(ask[c].user, ask[c].role) ELSE accounts
    /\ UNCHANGED <<fresh, grants, keys, sessions, setupMu, lockVars, socks, loading, replaced, imported, asks>>

\* handleDeleteUser: nobody deletes the own account.
BeginDeleteUser(c, t, u) ==
    /\ Accepted(t) /\ t \in sessions /\ t.user \in SuperAdmins /\ t.user # u /\ u \in DOMAIN accounts
    /\ Begin(c, "delete", [kind |-> "delete", user |-> u])
    /\ UNCHANGED <<accounts, fresh, grants, keys, sessions, setupMu, lockVars, socks, loading, replaced, imported>>

DeleteUser(c) ==
    /\ ask[c].kind = "delete" /\ End(c) /\ DropUsers({ask[c].user})
    /\ UNCHANGED <<fresh, sessions, setupMu, lockVars, socks, loading, replaced, imported, asks>>

\* handleCreateUser, after the checks.
AddUser(c, t, n, role, pw) ==
    /\ Accepted(t) /\ t \in sessions /\ t.user \in SuperAdmins /\ ~HasName(n) /\ fresh \in Ids
    /\ Begin(c, "create", NoAsk) /\ CreateUser(n, role, pw)
    /\ UNCHANGED <<grants, keys, sessions, setupMu, lockVars, socks, loading, replaced, imported>>

\* handleGrantAccess and handleRevokeAccess.
SetAccess(c, t, u, granted) ==
    /\ Accepted(t) /\ t \in sessions /\ t.user \in SuperAdmins /\ u \in DOMAIN accounts
    /\ Begin(c, "grant", NoAsk)
    /\ grants' = IF granted THEN grants \cup {u} ELSE grants \ {u}
    /\ UNCHANGED <<accounts, fresh, keys, sessions, setupMu, lockVars, socks, loading, replaced, imported>>

\* CreateAPIKey: one statement checks the name and inserts.
CreateAPIKey(c, t, n, h) ==
    /\ Accepted(t) /\ t \in sessions
    /\ ~\E k \in keys : (k.owner = t.user /\ k.name = n) \/ k.hash = h
    /\ Begin(c, "key", NoAsk)
    /\ keys' = keys \cup {[owner |-> t.user, name |-> n, hash |-> h]}
    /\ UNCHANGED <<accounts, fresh, grants, sessions, setupMu, lockVars, socks, loading, replaced, imported>>

\* handleDeleteAPIKey: the own key, or any for a super_admin.
DeleteAPIKey(c, t, k) ==
    /\ Accepted(t) /\ t \in sessions /\ k \in keys /\ (k.owner = t.user \/ t.user \in SuperAdmins)
    /\ Begin(c, "dropkey", NoAsk) /\ keys' = keys \ {k}
    /\ UNCHANGED <<accounts, fresh, grants, sessions, setupMu, lockVars, socks, loading, replaced, imported>>
-----------------------------------------------------------------------------
(* Sockets                                                                 *)

MayFollow(u) == accounts[u].role = "super_admin" \/ u \in grants

\* A socket is opened with a session or a key, by a user with access to the app.
OpenSocket(s) ==
    /\ "socket" \in Kinds /\ ~socks[s].open
    /\ \/ \E t \in sessions : /\ Accepted(t) /\ MayFollow(t.user)
                              /\ socks' = [socks EXCEPT ![s] = [open |-> TRUE, user |-> t.user, tv |-> t.tv, hash |-> "none",
                                                                role |-> accounts[t.user].role]]
       \/ \E k \in keys : /\ MayFollow(k.owner)
                          /\ socks' = [socks EXCEPT ![s] = [open |-> TRUE, user |-> k.owner, tv |-> 0, hash |-> k.hash,
                                                            role |-> accounts[k.owner].role]]
    /\ UNCHANGED <<accounts, fresh, grants, keys, sessions, ask, setupMu, lockVars, loading, replaced, imported, asks>>

\* wsAuthStillValid and wsCanAccessApp.
StillValid(k) ==
    /\ k.user \in DOMAIN accounts /\ accounts[k.user].role = k.role /\ MayFollow(k.user)
    /\ k.hash = "none" => accounts[k.user].tv = k.tv
    /\ k.hash # "none" => \E x \in keys : x.hash = k.hash /\ x.owner = k.user

\* watchWSAuth: the periodic check closes the socket. Its three reads are one step.
CloseRevoked(s) ==
    /\ socks[s].open /\ ~StillValid(socks[s])
    /\ socks' = [socks EXCEPT ![s] = Closed]
    /\ UNCHANGED <<accounts, fresh, grants, keys, sessions, ask, setupMu, lockVars, loading, replaced, imported, asks>>
-----------------------------------------------------------------------------
(* ApplyGlobalSidecar                                                      *)

\* Users: upserted by name, the token version is left as it is; the others are
\* deleted. Without secrets.yml passwords and keys are left alone, and a new
\* user has no password.
ApplyUsers(w) ==
    /\ "sidecar" \in Kinds /\ ~loading.on /\ asks > 0 /\ asks' = asks - 1
    /\ LET stay == {u \in DOMAIN accounts : accounts[u].name \in DOMAIN w.users}
           add == {n \in DOMAIN w.users : ~HasName(n)}
           row(u) == [accounts[u] EXCEPT !.role = w.users[accounts[u].name].role,
                                         !.pw = IF w.secrets THEN w.users[accounts[u].name].pw ELSE @]
       IN  /\ Cardinality(add) <= 1 /\ (add # {} => fresh \in Ids)
           /\ accounts' = [u \in stay \cup (IF add = {} THEN {} ELSE {fresh}) |->
                 IF u \in stay THEN row(u)
                 ELSE LET n == CHOOSE x \in add : TRUE
                      IN  [name |-> n, role |-> w.users[n].role, 
                           pw |-> IF w.secrets THEN w.users[n].pw ELSE "unset", tv |-> 1]]
           /\ fresh' = fresh + Cardinality(add)
           /\ imported' = imported \cup {u \in stay : row(u).pw # accounts[u].pw}
           /\ grants' = grants \cap stay /\ keys' = {k \in keys : k.owner \in stay}
    /\ loading' = [on |-> w.secrets, keys |-> IF w.secrets THEN w.keys ELSE {}]
    /\ UNCHANGED <<sessions, ask, setupMu, lockVars, socks, replaced>>

\* Keys: upserted by hash; then those whose user and name are not in the file go.
ApplyKeys ==
    /\ loading.on /\ loading' = NotLoading
    /\ LET known == {k \in loading.keys : HasName(k.user)}
           row(k) == [owner |-> IdOf(k.user), name |-> k.name, hash |-> k.hash]
           kept == {x \in keys : \E k \in known : row(k).owner = x.owner /\ row(k).name = x.name}
       IN  /\ keys' = {x \in kept : \A k \in known : k.hash # x.hash} \cup {row(k) : k \in known}
           /\ replaced' = {row(k) : k \in known}
    /\ UNCHANGED <<accounts, fresh, grants, sessions, ask, setupMu, lockVars, socks, imported, asks>>
-----------------------------------------------------------------------------
Asked(c) ==
    \/ \E n \in Names, pw \in Passwords : BeginLogin(c, n, pw) \/ BeginSetup(c, n, pw)
    \/ EndLogin(c) \/ EndSetup(c) \/ EndChangePassword(c) \/ WriteRole(c) \/ DeleteUser(c)
    \/ \E t \in sessions :
          \/ Logout(c, t)
          \/ \E pw \in Passwords : BeginChangePassword(c, t, pw)
          \/ \E u \in DOMAIN accounts : \/ BeginDeleteUser(c, t, u)
                                        \/ \E b \in BOOLEAN : SetAccess(c, t, u, b)
                                        \/ \E r \in Roles, pw \in Passwords \cup {"keep"} : BeginUpdateUser(c, t, u, r, pw)
          \/ \E n \in Names, r \in Roles, pw \in Passwords : AddUser(c, t, n, r, pw)
          \/ \E n \in KeyNames, h \in Hashes : CreateAPIKey(c, t, n, h)
          \/ \E k \in keys : DeleteAPIKey(c, t, k)

AccessNext ==
    \/ \E c \in Callers : Asked(c)
    \/ \E s \in Sockets : OpenSocket(s) \/ CloseRevoked(s)
    \/ \E w \in Wanted : ApplyUsers(w)
    \/ ApplyKeys \/ LockEnds

AccessSpec == AccessInit /\ [][AccessNext]_accessVars
-----------------------------------------------------------------------------
(* Properties                                                              *)

\* Types; names are unique.
AccessTypeOK ==
    /\ DOMAIN accounts \subseteq Ids /\ fresh \in Nat /\ grants \subseteq DOMAIN accounts
    /\ \A u, v \in DOMAIN accounts : accounts[u].name = accounts[v].name => u = v
    /\ \A k \in keys : k.owner \in DOMAIN accounts
    /\ locked \in BOOLEAN /\ asks \in 0 .. MaxAsks

\* A session that is still accepted was given for the password its user has now,
\* however long the login that made it was comparing hashes, unless a sidecar
\* brought the password.
SessionsKnowPassword ==
    \A t \in sessions : Accepted(t) => accounts[t.user].pw = t.pw \/ t.user \in imported

\* users.go: the token version "is bumped on logout, password change, and role
\* change": every change of a password ends the sessions given for the old one.
PasswordEndsSessions == \A t \in sessions : Accepted(t) => accounts[t.user].pw = t.pw

\* What the lockout bounds: attempts that passed the check before the lock can
\* still fail after it, but no more than were under way.
BurstBounded == burst <= Threshold - 1 + Cardinality(Callers)

\* ApplyGlobalSidecar: "rows present in the DB but absent from the sidecar are
\* deleted (users, api_keys, ...)".
KeysAreReplaced == [][replaced' # replaced => keys' = replaced']_accessVars

\* Nobody can demote or delete the own account, so an installation with an
\* administrator keeps one.
AdminRemains == [][SuperAdmins # {} => SuperAdmins' # {}]_accessVars
=============================================================================
