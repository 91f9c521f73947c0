------------------------------- MODULE Access -------------------------------
(***************************************************************************)
(* Who may use the management API: first-time setup, login sessions, the   *)
(* admin's password and API keys (api/guard.go, handler_auth.go,           *)
(* handler_fts.go, handler_api_keys.go, internal/service, session_store).  *)
(*                                                                         *)
(* A request is a frame: its session is loaded when it arrives, the gate   *)
(* decides, the handler works on the database, and the session is stored   *)
(* again at the end (scs LoadAndSave).  Each transaction of the database   *)
(* and each method of the key cache is a step, so requests interleave      *)
(* between them.  An API key stands for its HMAC, which is injective and   *)
(* kept in the database; a password for its salted hash.                   *)
(***************************************************************************)
EXTENDS EvictCache

CONSTANTS
    Requests,   \* goroutines serving requests, reused one after another
    Tokens,     \* session tokens; each is drawn once.  Their number bounds logins
    Passwords,  \* passwords that IsValidPassword accepts
    Aliases,    \* names of API keys
    Nobody      \* no session, no key, no request

ASSUME AccessAssumption ==
    /\ IsFiniteSet(Requests) /\ IsFiniteSet(Tokens)
    /\ Nobody \notin Requests \union Tokens \union Passwords \union Keys \union Aliases

Scopes == {"read_stats"}

\* What a key permits: the scopes it was created with and its expiry date.
Grant == [scopes : SUBSET Scopes \ {{}}, expires : {"never", "later"}]

ASSUME GrantAssumption == Values = Grant   \* the key cache holds grants

VARIABLES
    ftsDone,   \* system_configuration.first_time_setup_complete
    password,  \* the admin's password hash; Nobody is the empty default
    ftsLock,   \* the request that holds ftsLock
    sessions,  \* tokens in the session store
    apiKeys,   \* rows of api_key
    late,      \* external: "later" has passed
    req,       \* the requests' frames
    drawn,     \* tokens drawn so far
    setups,    \* history: setups acknowledged
    out,       \* history: tokens logged out
    issued     \* history: what each key was created with

dbVars == <<ftsDone, password, sessions, apiKeys>>
histVars == <<setups, out, issued>>
accessVars == <<cacheVars, dbVars, ftsLock, late, req, drawn, histVars>>

-----------------------------------------------------------------------------
(* The table of routes: whom each lets in.                                 *)

Public(before, after) == [before |-> before, after |-> after, secure |-> FALSE, scopes |-> {}]
Secured(scopes) == [before |-> FALSE, after |-> TRUE, secure |-> TRUE, scopes |-> scopes]

SetupRoutes == [setup |-> Public(TRUE, FALSE), status |-> Public(TRUE, TRUE)]
AuthRoutes == [login |-> Public(FALSE, TRUE), logout |-> Secured({}), password |-> Secured({})]
\* The management of proxies and the logs: a session and nothing else.
ProxyRoutes == [manage |-> Secured({})]
StatsRoute == [stats |-> Secured({"read_stats"})]
KeyRoutes == [newKey |-> Secured({}), dropKey |-> Secured({})]
Routes ==
    [n \in {"setup", "status", "login", "logout", "password", "manage", "stats", "newKey", "dropKey"} |->
        CASE n \in {"setup", "status"} -> SetupRoutes[n]
          [] n \in {"login", "logout", "password"} -> AuthRoutes[n]
          [] n = "manage" -> ProxyRoutes[n]
          [] n = "stats" -> StatsRoute[n]
          [] n \in {"newKey", "dropKey"} -> KeyRoutes[n]]

-----------------------------------------------------------------------------
(* The tables of the database (internal/sqlite).                           *)

Row == [alias : Aliases, key : Keys, grant : Grant]
ByAlias(a) == {row \in apiKeys : row.alias = a}
ByKey(k) == {row \in apiKeys : row.key = k}
Over(g) == g.expires = "later" /\ late

\* One of the route's scopes is enough; no route has more than one.
Permits(g, route) == Routes[route].scopes \cap g.scopes # {}

StoreIsKeyValidForScope(k, s) ==
    \E row \in ByKey(k) : ~Over(row.grant) /\ s \in row.grant.scopes

\* INSERT; a second row with the alias is refused.
NewApiKey(row) == IF ByAlias(row.alias) = {} THEN {apiKeys \union {row}} ELSE {}

DeleteApiKey(a) == apiKeys \ ByAlias(a)

-----------------------------------------------------------------------------
\* Where a request is: between two transactions or calls of the cache.
Labels == {"idle", "gate", "handle", "key", "evict", "lookup", "warm", "store", "insert",
           "setPassword", "setup", "complete", "commit"}

Frame == [pc : Labels,
          route : DOMAIN Routes,
          token : Tokens \union {Nobody},
          key : Keys \union {Nobody},
          alias : Aliases \union {Nobody},
          grant : Grant \union {Nobody}]

NoFrame == [pc |-> "idle", route |-> "manage", token |-> Nobody, key |-> Nobody,
            alias |-> Nobody, grant |-> Nobody]

At(r, l) == req[r].pc = l
Handling(r, route) == At(r, "handle") /\ req[r].route = route
\* What a request that only has to end carries on: its session.
Ending(t) == [NoFrame EXCEPT !.pc = "commit", !.token = t]
Goto(r, l) == req' = [req EXCEPT ![r] = IF l = "commit" THEN Ending(@.token) ELSE [@ EXCEPT !.pc = l]]

AccessInit ==
    /\ NewCache
    /\ ftsDone = FALSE /\ password = Nobody /\ ftsLock = Nobody
    /\ sessions = {} /\ apiKeys = {} /\ late = FALSE /\ drawn = {}
    /\ req = [r \in Requests |-> NoFrame]
    /\ setups = 0 /\ out = {}
    /\ issued = [k \in {} |-> 0]

\* External: scs loads the session of the cookie's token, if the store has it.
Load(t) == IF t \in sessions THEN t ELSE Nobody

Arrive(r) ==
    /\ At(r, "idle")
    /\ \E n \in DOMAIN Routes, cookie \in drawn \union {Nobody}, k \in DOMAIN issued \union {Nobody} :
         /\ n # "stats" => k = Nobody
         /\ req' = [req EXCEPT ![r] = [NoFrame EXCEPT !.pc = "gate", !.route = n,
                                                      !.token = Load(cookie), !.key = k]]
    /\ UNCHANGED <<cacheVars, dbVars, ftsLock, late, drawn, histVars>>

\* A failing read counts as done.
IsFirstTimeSetupCompleted == {ftsDone, TRUE}

checkIfRouteIsAllowedIfFtsIsNotDone(route, done) == IF done THEN route.after ELSE route.before

HasValidSession(f) == f.token # Nobody

isAuthenticatedRequest(f) == IF HasValidSession(f) THEN "handle" ELSE "commit"

isAuthenticatedBySessionOrApiKey(f) ==
    IF HasValidSession(f) THEN "handle" ELSE IF f.key # Nobody THEN "key" ELSE "commit"

\* The guards that buildMux puts around a route's handler, outermost first.
Admission(f) ==
    CASE ~Routes[f.route].secure -> "handle"
      [] Routes[f.route].secure /\ Routes[f.route].scopes = {} -> isAuthenticatedRequest(f)
      [] OTHER -> isAuthenticatedBySessionOrApiKey(f)

Gate(r) ==
    /\ At(r, "gate")
    /\ \E done \in IsFirstTimeSetupCompleted :
         Goto(r, IF checkIfRouteIsAllowedIfFtsIsNotDone(Routes[req[r].route], done)
                 THEN Admission(req[r]) ELSE "commit")
    /\ UNCHANGED <<cacheVars, dbVars, ftsLock, late, drawn, histVars>>

-----------------------------------------------------------------------------
(* API keys: IsKeyValidForScope and warmCache.                             *)

\* Mutant: the expiry date of a cached key is not looked at.
KeyCachedForever(r) ==
    LET k == req[r].key IN
    /\ At(r, "key")
    /\ GetHit(k)
    /\ Goto(r, IF Permits(cache[k].value, req[r].route) THEN "handle" ELSE "commit")
    /\ UNCHANGED <<dbVars, ftsLock, late, drawn, histVars>>

\* GetValue finds the key.
KeyCached(r) ==
    LET k == req[r].key IN
    /\ At(r, "key")
    /\ GetHit(k)
    /\ Goto(r, IF Over(cache[k].value) THEN "evict"
               ELSE IF Permits(cache[k].value, req[r].route) THEN "handle" ELSE "commit")
    /\ UNCHANGED <<dbVars, ftsLock, late, drawn, histVars>>

EvictKey(r) ==
    /\ At(r, "evict")
    /\ Evict(req[r].key)
    /\ Goto(r, "commit")
    /\ UNCHANGED <<dbVars, ftsLock, late, drawn, histVars>>

KeyNotCached(r) ==
    /\ At(r, "key")
    /\ GetMiss(req[r].key)
    /\ Goto(r, "lookup")
    /\ UNCHANGED <<dbVars, ftsLock, late, drawn, histVars>>

LookUp(r) ==
    /\ At(r, "lookup")
    /\ Goto(r, IF \E s \in Routes[req[r].route].scopes : StoreIsKeyValidForScope(req[r].key, s)
               THEN "warm" ELSE "commit")
    /\ UNCHANGED <<cacheVars, dbVars, ftsLock, late, drawn, histVars>>

\* Mutant: the grant seen by the validation is kept although the row is gone.
WarmBlindly(r) ==
    /\ At(r, "warm")
    /\ req' = [req EXCEPT ![r].pc = "store", ![r].grant = issued[req[r].key]]
    /\ UNCHANGED <<cacheVars, dbVars, ftsLock, late, drawn, histVars>>

\* GetApiKeyByRawKey: nothing is cached when the row is gone by now.
WarmRead(r) ==
    /\ At(r, "warm")
    /\ IF ByKey(req[r].key) = {}
       THEN Goto(r, "handle")
       ELSE \E row \in ByKey(req[r].key) :
               req' = [req EXCEPT ![r].pc = "store", ![r].grant = row.grant]
    /\ UNCHANGED <<cacheVars, dbVars, ftsLock, late, drawn, histVars>>

WarmStore(r) ==
    /\ At(r, "store")
    /\ CacheValue(req[r].key, req[r].grant)
    /\ Goto(r, "handle")
    /\ UNCHANGED <<dbVars, ftsLock, late, drawn, histVars>>

-----------------------------------------------------------------------------
(* The handlers.                                                           *)

\* Routes with no state of their own here.
Serve(r) ==
    /\ \E n \in {"manage", "stats", "status"} : Handling(r, n)
    /\ Goto(r, "commit")
    /\ UNCHANGED <<cacheVars, dbVars, ftsLock, late, drawn, histVars>>

\* RenewToken: the old token leaves the store, a new one is drawn.
NewSession(r) ==
    \E t \in Tokens \ drawn :
        /\ sessions' = sessions \ {req[r].token}
        /\ drawn' = drawn \union {t}
        /\ req' = [req EXCEPT ![r] = Ending(t)]

\* The empty default is no hash of any password.
PasswordMatchesForUser == password # Nobody

handleLogin(r) ==
    /\ Handling(r, "login")
    /\ PasswordMatchesForUser
    /\ NewSession(r)
    /\ UNCHANGED <<cacheVars, ftsDone, password, apiKeys, ftsLock, late, histVars>>

\* A wrong password, an unreadable body or a failing database.
LoginFails(r) ==
    /\ Handling(r, "login")
    /\ Goto(r, "commit")
    /\ UNCHANGED <<cacheVars, dbVars, ftsLock, late, drawn, histVars>>

\* Destroy: the token leaves the store and the frame.
LogoutSession(r) ==
    /\ sessions' = sessions \ {req[r].token}
    /\ req' = [req EXCEPT ![r] = Ending(Nobody)]

\* The route of the API and the one of the dashboard.
handleLogout(r) ==
    /\ Handling(r, "logout")
    /\ LogoutSession(r)
    /\ out' = out \union {req[r].token}
    /\ UNCHANGED <<cacheVars, ftsDone, password, apiKeys, ftsLock, late, drawn, setups, issued>>

\* PasswordMatchesForUser with the old password, and SetPasswordForUser: two
\* transactions.  The old password the client sends may be right or wrong.
handleChangePassword(r) ==
    /\ Handling(r, "password")
    /\ \E right \in BOOLEAN : Goto(r, IF right THEN "setPassword" ELSE "commit")
    /\ UNCHANGED <<cacheVars, dbVars, ftsLock, late, drawn, histVars>>

UpdateUser(p) == password' = p

\* Rejected by the rules for passwords, or by a failing database.
SetPasswordForUser == \E p \in Passwords : UpdateUser(p)
SetPasswordFails == UNCHANGED password

ChangePassword(r) ==
    /\ At(r, "setPassword")
    /\ SetPasswordForUser \/ SetPasswordFails
    /\ Goto(r, "commit")
    /\ UNCHANGED <<cacheVars, ftsDone, sessions, apiKeys, ftsLock, late, drawn, histVars>>

\* handleCompleteFts, from the lock to the unlock.  Mutant: no second look at ftsDone.
SetupUnchecked(r) ==
    /\ Handling(r, "setup")
    /\ ftsLock = Nobody
    /\ ftsLock' = r /\ Goto(r, "setup")
    /\ UNCHANGED <<cacheVars, dbVars, late, drawn, histVars>>

SetupEnter(r) ==
    /\ Handling(r, "setup")
    /\ ftsLock = Nobody
    /\ \E done \in IsFirstTimeSetupCompleted :
         IF done THEN Goto(r, "commit") /\ UNCHANGED ftsLock
                 ELSE ftsLock' = r /\ Goto(r, "setup")
    /\ UNCHANGED <<cacheVars, dbVars, late, drawn, histVars>>

\* Mutant: the setup is marked complete first and the password stored afterwards.
SetupMarkedFirst(r) ==
    /\ At(r, "setup")
    /\ ftsDone' = TRUE /\ Goto(r, "complete")
    /\ UNCHANGED <<cacheVars, password, sessions, apiKeys, ftsLock, late, drawn, histVars>>

SetupPassword(r) ==
    /\ At(r, "setup")
    /\ \/ SetPasswordForUser /\ Goto(r, "complete") /\ UNCHANGED ftsLock
       \/ SetPasswordFails /\ ftsLock' = Nobody /\ Goto(r, "commit")
    /\ UNCHANGED <<cacheVars, ftsDone, sessions, apiKeys, late, drawn, histVars>>

\* It may fail after the password was stored.
CompleteFistTimeSetup == ftsDone' = TRUE

SetupComplete(r) ==
    /\ At(r, "complete")
    /\ \/ CompleteFistTimeSetup /\ setups' = setups + 1
       \/ UNCHANGED <<ftsDone, setups>>
    /\ ftsLock' = Nobody
    /\ Goto(r, "commit")
    /\ UNCHANGED <<cacheVars, password, sessions, apiKeys, late, drawn, out, issued>>

\* A lookup that fails finds nothing.
GetApiKey(a) == {ByAlias(a), {}}

\* An alias in use and an expiry in the past are refused.
CreateApiKey(found, g) == found = {} /\ ~Over(g)

handleCreateNewApiKey(r) ==
    /\ Handling(r, "newKey")
    /\ \E a \in Aliases, g \in Grant : \E found \in GetApiKey(a) :
         req' = [req EXCEPT ![r] = IF CreateApiKey(found, g)
                                   THEN [@ EXCEPT !.pc = "insert", !.alias = a, !.grant = g]
                                   ELSE Ending(@.token)]
    /\ UNCHANGED <<cacheVars, dbVars, ftsLock, late, drawn, histVars>>

\* A key is random, so it is new; the insert may still meet the alias.
InsertKey(r) ==
    /\ At(r, "insert")
    /\ \/ \E k \in Keys \ DOMAIN issued :
            \E rows \in NewApiKey([alias |-> req[r].alias, key |-> k, grant |-> req[r].grant]) :
               apiKeys' = rows /\ issued' = Put(issued, k, req[r].grant)
       \/ UNCHANGED <<apiKeys, issued>>
    /\ Goto(r, "commit")
    /\ UNCHANGED <<cacheVars, ftsDone, password, sessions, ftsLock, late, drawn, setups, out>>

handleDeleteApiKey(r) ==
    /\ Handling(r, "dropKey")
    /\ \E a \in Aliases : apiKeys' = DeleteApiKey(a)
    /\ Goto(r, "commit")
    /\ UNCHANGED <<cacheVars, ftsDone, password, sessions, ftsLock, late, drawn, histVars>>

\* External: LoadAndSave stores a session that the request has, since an idle
\* timeout marks every loaded session as modified.
Commit(r) ==
    /\ At(r, "commit")
    /\ sessions' = IF req[r].token = Nobody THEN sessions ELSE sessions \union {req[r].token}
    /\ req' = [req EXCEPT ![r] = NoFrame]
    /\ UNCHANGED <<cacheVars, ftsDone, password, apiKeys, ftsLock, late, drawn, histVars>>

Request(r) ==
    \/ Arrive(r) \/ Gate(r)
    \/ KeyCached(r) \/ EvictKey(r) \/ KeyNotCached(r) \/ LookUp(r) \/ WarmRead(r) \/ WarmStore(r)
    \/ Serve(r) \/ handleLogin(r) \/ LoginFails(r) \/ handleLogout(r)
    \/ handleChangePassword(r) \/ ChangePassword(r)
    \/ SetupEnter(r) \/ SetupPassword(r) \/ SetupComplete(r)
    \/ handleCreateNewApiKey(r) \/ InsertKey(r) \/ handleDeleteApiKey(r)
    \/ Commit(r)

\* The process ends and starts again: requests, lock and cache are lost.
Restart ==
    /\ \E r \in Requests : ~At(r, "idle")
    /\ cache' = [k \in {} |-> 0] /\ open' = TRUE
    /\ ftsLock' = Nobody
    /\ req' = [r \in Requests |-> NoFrame]
    /\ UNCHANGED <<dbVars, late, drawn, histVars>>

\* External: a session expires, the expiry date of keys passes, cached keys age.
SessionExpires ==
    /\ \E t \in sessions : sessions' = sessions \ {t}
    /\ UNCHANGED <<cacheVars, ftsDone, password, apiKeys, ftsLock, late, req, drawn, histVars>>

Later ==
    /\ ~late /\ late' = TRUE
    /\ UNCHANGED <<cacheVars, dbVars, ftsLock, req, drawn, histVars>>

KeyCacheStep == (sweep \/ CacheTick) /\ UNCHANGED <<dbVars, ftsLock, late, req, drawn, histVars>>

AccessNext == (\E r \in Requests : Request(r)) \/ Restart \/ SessionExpires \/ Later \/ KeyCacheStep

AccessSpec == AccessInit /\ [][AccessNext]_accessVars

-----------------------------------------------------------------------------
(* The pages of the dashboard: where a browser is sent, or the page itself.  *)

handleRoot(done, session) == IF ~done THEN "setup" ELSE IF session THEN "dashboard" ELSE "login"
handleLoginPage(done, session) == IF ~done THEN "setup" ELSE IF session THEN "dashboard" ELSE "login"
handleSetupPage(done) == IF done THEN "login" ELSE "setup"
handleDashboardPage(session) == IF session THEN "dashboard" ELSE "login"

Sent(page, done, session) ==
    CASE page = "root" -> handleRoot(done, session)
      [] page = "login" -> handleLoginPage(done, session)
      [] page = "setup" -> handleSetupPage(done)
      [] page = "dashboard" -> handleDashboardPage(session)

-----------------------------------------------------------------------------
\* Redirects end: from any page, in any state of the setup and of the session, a browser
\* arrives at a page that is rendered after at most two redirects (handler_ui.go:63).
PagesSettle ==
    \A page \in {"root", "login", "setup", "dashboard"}, session \in BOOLEAN :
        LET to(p) == Sent(p, ftsDone, session) IN to(to(to(page))) = to(to(page))

\* The types of the tables and of the requests' frames.
AccessTypeOK ==
    /\ CacheTypeOK
    /\ ftsDone \in BOOLEAN /\ late \in BOOLEAN
    /\ password \in Passwords \union {Nobody}
    /\ ftsLock \in Requests \union {Nobody}
    /\ sessions \subseteq drawn /\ drawn \subseteq Tokens
    /\ apiKeys \subseteq Row
    /\ req \in [Requests -> Frame]

\* The setup of the admin account succeeds once: of requests that race for it, and of
\* those after a crash, one is told that it completed it (handler_fts.go:45, ftsLock).
SetupOnce == setups <= 1

\* The installation never locks its admin out: when the setup counts as complete, and
\* cannot be repeated, there is a password to log in with, whatever step of the setup
\* the process died in (handler_fts.go:55 stores the password before it completes).
NeverLockedOut == ftsDone => password # Nobody

\* Two keys never share an alias, although the check for it and the insertion are two
\* transactions (api_key_service.go:101): deletion by alias hits one key.
AliasUnique == \A x, y \in apiKeys : x.alias = y.alias => x = y

\* A key lets a request in only within its grant: not past its expiry date, not
\* outside its scopes, from the cache or from the database.
AdmittedWithinGrant ==
    [][\A r \in Requests :
         (/\ req[r].pc \in {"key", "lookup"} /\ req'[r].pc \in {"handle", "warm"})
         => ~Over(issued[req[r].key]) /\ Permits(issued[req[r].key], req[r].route)]_accessVars

Warm(k) == k \in DOMAIN cache \/ \E r \in Requests : At(r, "store") /\ req[r].key = k

\* A revoked key that has left the cache does not come back, once no request that read
\* its row before the deletion is about to store it: a request that validated the key
\* earlier reads the row again (warmCache).
RevokedDoesNotReturn ==
    [][\A k \in DOMAIN issued : ByKey(k) = {} /\ ~Warm(k) => ~Warm(k)']_accessVars

Held(t) == t \in sessions \/ \E r \in Requests : req[r].token = t

\* A session that was logged out stays out, once no request that had loaded it before
\* the logout is still running: such a request stores it again when it ends.
LoggedOutStaysOut == [][\A t \in out : ~Held(t) => ~Held(t)']_accessVars

\* What is checked first and done later is done once, whoever comes in between:
\* the setup, and the creation of a key with an alias.
OnlyOnce == AccessTypeOK /\ SetupOnce /\ AliasUnique

\* The admin gets in: after a crash at any step there is a setup to complete or a
\* password to log in with, and the pages lead there.
AdminGetsIn == NeverLockedOut /\ PagesSettle

\* Who was shut out, by the deletion of a key or by a logout, stays out, once the
\* requests that had read the key or the session before are through.
OutStaysOut == RevokedDoesNotReturn /\ LoggedOutStaysOut
=============================================================================
