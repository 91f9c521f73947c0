--------------------------- MODULE AccessProofs ---------------------------
(***************************************************************************)
(* Proofs about Access, for every number of requests, sessions, keys and   *)
(* names, and every size and TTL of the key cache.                         *)
(***************************************************************************)
EXTENDS Access, EvictCacheProofs

\* What the proofs use of the table of routes.
LEMMA RouteTable ==
    /\ DOMAIN Routes = {"setup", "status", "login", "logout", "password", "manage", "stats",
                        "newKey", "dropKey"}
    /\ Routes["logout"] = Secured({})
    /\ \A n \in DOMAIN Routes : Routes[n].secure /\ Routes[n].scopes # {} => n = "stats"
<1> USE DEF Routes, SetupRoutes, AuthRoutes, ProxyRoutes, StatsRoute, KeyRoutes
<1>1. DOMAIN Routes = {"setup", "status", "login", "logout", "password", "manage", "stats",
                       "newKey", "dropKey"}
  OBVIOUS
<1>2. Routes["setup"].secure = FALSE /\ Routes["status"].secure = FALSE /\ Routes["login"].secure = FALSE
  BY DEF Public
<1>3. /\ Routes["logout"] = Secured({}) /\ Routes["password"].scopes = {} /\ Routes["manage"].scopes = {}
      /\ Routes["newKey"].scopes = {} /\ Routes["dropKey"].scopes = {}
  BY DEF Secured
<1>4. Routes["logout"].scopes = {}
  BY <1>3 DEF Secured
<1> HIDE DEF Routes
<1> QED BY <1>1, <1>2, <1>3, <1>4

-----------------------------------------------------------------------------
(* The inductive invariant, in three parts that follow one resource each.  *)

\* The setup: who is inside holds ftsLock, and nobody is inside once it is complete.
SetupInv ==
    /\ setups = IF ftsDone THEN 1 ELSE 0
    /\ NeverLockedOut
    /\ \A r \in Requests :
         /\ req[r].pc \in {"setup", "complete"} => ftsLock = r /\ ~ftsDone
         /\ req[r].pc = "complete" => password # Nobody

\* A request that is being judged by its API key.
Judged(r) == req[r].pc \in {"key", "evict", "lookup", "warm", "store"}

\* The keys: table, cache and frames agree with what each key was created with.
KeyInv ==
    /\ DOMAIN issued \subseteq Keys /\ issued \in [DOMAIN issued -> Grant]
    /\ \A row \in apiKeys : row.key \in DOMAIN issued /\ row.grant = issued[row.key]
    /\ \A k \in DOMAIN cache : k \in DOMAIN issued /\ cache[k].value = issued[k]
    /\ \A r \in Requests :
         /\ req[r].key \in DOMAIN issued \union {Nobody}
         /\ Judged(r) => req[r].key # Nobody /\ req[r].route = "stats"
         /\ req[r].pc = "store" => req[r].grant = issued[req[r].key]
         /\ req[r].pc = "insert" => req[r].alias \in Aliases /\ req[r].grant \in Grant

\* The sessions: tokens were drawn before they were used, and only a request with a
\* session gets to log out.
SessionInv ==
    /\ out \subseteq drawn
    /\ \A r \in Requests :
         /\ req[r].token \in drawn \union {Nobody}
         /\ Handling(r, "logout") => req[r].token # Nobody

AccessInv == AccessTypeOK /\ CapacityBound /\ AliasUnique /\ SetupInv /\ KeyInv /\ SessionInv

-----------------------------------------------------------------------------
(* What steps do to the frames.                                            *)

\* Only the frame of r changes.
Alone(r) == \A q \in Requests \ {r} : req'[q] = req[q]

\* The frames that are written as a whole.
LEMMA FrameTypes ==
    ASSUME NEW t \in Tokens \union {Nobody}
    PROVE  /\ NoFrame \in Frame /\ NoFrame.pc = "idle" /\ NoFrame.token = Nobody /\ NoFrame.key = Nobody
           /\ Ending(t) \in Frame /\ Ending(t).pc = "commit" /\ Ending(t).token = t /\ Ending(t).key = Nobody
BY RouteTable DEF NoFrame, Ending, Frame, Labels

\* Goto moves one request on; one that ends forgets all but its session.
LEMMA GotoEffect ==
    ASSUME req \in [Requests -> Frame], NEW r \in Requests, NEW l \in Labels, Goto(r, l)
    PROVE  /\ req' \in [Requests -> Frame] /\ Alone(r)
           /\ req'[r].pc = l /\ req'[r].token = req[r].token
           /\ l # "commit" => /\ req'[r].route = req[r].route /\ req'[r].key = req[r].key
                              /\ req'[r].alias = req[r].alias /\ req'[r].grant = req[r].grant
           /\ l = "commit" => req'[r].key = Nobody
<1>1. req[r].token \in Tokens \union {Nobody}
  BY DEF Frame
<1>2. CASE l = "commit"
  BY <1>1, <1>2, FrameTypes DEF Goto, Alone, Ending, NoFrame
<1>3. CASE l # "commit"
  BY <1>3 DEF Goto, Alone, Frame
<1> QED BY <1>2, <1>3

\* A request that its key judges has a key, which was issued.
LEMMA JudgedKey ==
    ASSUME AccessInv, NEW r \in Requests, Judged(r)
    PROVE  req[r].key \in Keys /\ req[r].key \in DOMAIN issued
BY AccessAssumption DEF AccessInv, KeyInv, AccessAssumption

\* The key cache changes only through its operations, or is made anew by a restart.
LEMMA CacheStep ==
    ASSUME AccessInv, [AccessNext]_accessVars
    PROVE  [CacheNext]_cacheVars \/ NewCache'
<1> USE DEF CacheNext, Judged, At
<1>1. ASSUME NEW r \in Requests, KeyCached(r) \/ KeyNotCached(r) \/ EvictKey(r)
      PROVE  CacheNext
  <2>1. req[r].key \in Keys
    BY <1>1, JudgedKey DEF KeyCached, KeyNotCached, EvictKey
  <2> QED BY <1>1, <2>1 DEF KeyCached, KeyNotCached, EvictKey
<1>2. ASSUME NEW r \in Requests, WarmStore(r)
      PROVE  CacheNext
  <2>1. req[r].key \in Keys /\ req[r].key \in DOMAIN issued
    BY <1>2, JudgedKey DEF WarmStore
  <2>2. req[r].grant \in Values
    BY <1>2, <2>1, GrantAssumption DEF AccessInv, KeyInv, WarmStore, GrantAssumption
  <2> QED BY <1>2, <2>1, <2>2 DEF WarmStore
<1>3. ASSUME NEW r \in Requests, Request(r), ~KeyCached(r), ~KeyNotCached(r), ~EvictKey(r), ~WarmStore(r)
      PROVE  UNCHANGED cacheVars
  BY <1>3 DEF Request, Arrive, Gate, LookUp, WarmRead, Serve, handleLogin, LoginFails, handleLogout,
     handleChangePassword, ChangePassword, SetupEnter, SetupPassword, SetupComplete,
     handleCreateNewApiKey, InsertKey, handleDeleteApiKey, Commit
<1>4. CASE Restart
  BY <1>4 DEF Restart, NewCache
<1>5. CASE SessionExpires \/ Later \/ UNCHANGED accessVars
  BY <1>5 DEF SessionExpires, Later, accessVars
<1>6. CASE KeyCacheStep
  BY <1>6 DEF KeyCacheStep
<1> QED BY <1>1, <1>2, <1>3, <1>4, <1>5, <1>6 DEF AccessNext

\* The cache keeps its types and its bound.
LEMMA CacheBoundStep ==
    ASSUME AccessInv, [AccessNext]_accessVars
    PROVE  CacheTypeOK' /\ CapacityBound'
<1>1. CASE [CacheNext]_cacheVars
  BY <1>1, BoundStep DEF AccessInv, AccessTypeOK
<1>2. CASE NewCache'
  <2>1. (NewCache => CacheTypeOK /\ CapacityBound)'
    BY BoundInit, PTL
  <2> QED BY <1>2, <2>1
<1> QED BY <1>1, <1>2, CacheStep

\* Where the gate sends a request: to its handler, to the judgement of its key, or away.
LEMMA GateDecides ==
    ASSUME NEW f \in Frame
    PROVE  /\ Admission(f) \in {"handle", "key", "commit"}
           /\ Admission(f) = "key" => f.key # Nobody /\ f.route = "stats"
           /\ Admission(f) = "handle" /\ f.route = "logout" => f.token # Nobody
<1>1. f.route \in DOMAIN Routes
  BY DEF Frame
<1>2. CASE ~Routes[f.route].secure
  BY <1>1, <1>2, RouteTable DEF Admission, Secured
<1>3. CASE Routes[f.route].secure /\ Routes[f.route].scopes = {}
  <2>1. Admission(f) = isAuthenticatedRequest(f)
    BY <1>3 DEF Admission
  <2> QED BY <2>1 DEF isAuthenticatedRequest, HasValidSession
<1>4. CASE Routes[f.route].secure /\ Routes[f.route].scopes # {}
  <2>1. Admission(f) = isAuthenticatedBySessionOrApiKey(f) /\ f.route = "stats"
    BY <1>1, <1>4, RouteTable DEF Admission
  <2> QED BY <2>1 DEF isAuthenticatedBySessionOrApiKey, HasValidSession
<1> QED BY <1>1, <1>2, <1>3, <1>4

\* The steps that move a request on and touch nothing else but the cache and, when
\* the password changes, the password.
Walks(r) ==
    \/ Gate(r) \/ KeyCached(r) \/ EvictKey(r) \/ KeyNotCached(r) \/ LookUp(r) \/ WarmStore(r)
    \/ Serve(r) \/ LoginFails(r) \/ handleChangePassword(r) \/ ChangePassword(r)

\* Such a step is a Goto, to a place where a request holds neither lock nor row; one
\* that goes on being judged has a key, and goes on with it.
LEMMA WalkGoes ==
    ASSUME AccessInv, NEW r \in Requests, Walks(r)
    PROVE  \E l \in {"handle", "key", "evict", "lookup", "warm", "setPassword", "commit"} :
              /\ Goto(r, l)
              /\ l \in {"key", "evict", "lookup", "warm"} => req[r].key # Nobody /\ req[r].route = "stats"
              /\ l = "handle" /\ req[r].route = "logout" => req[r].token # Nobody
<1> USE DEF At, Judged
<1>0. req[r] \in Frame
  BY DEF AccessInv, AccessTypeOK
<1>1. CASE Gate(r)
  BY <1>0, <1>1, GateDecides DEF Gate
<1>2. CASE KeyCached(r) \/ EvictKey(r) \/ KeyNotCached(r) \/ LookUp(r) \/ WarmStore(r)
  <2>1. req[r].key # Nobody /\ req[r].route = "stats"
    BY <1>2 DEF KeyCached, EvictKey, KeyNotCached, LookUp, WarmStore, AccessInv, KeyInv
  <2> QED BY <1>2, <2>1 DEF KeyCached, EvictKey, KeyNotCached, LookUp, WarmStore
<1>3. CASE Serve(r) \/ LoginFails(r) \/ handleChangePassword(r) \/ ChangePassword(r)
  BY <1>3 DEF Serve, LoginFails, handleChangePassword, ChangePassword
<1> QED BY <1>1, <1>2, <1>3 DEF Walks

\* A walk leaves the database alone, except for the password.
LEMMA WalkLeaves ==
    ASSUME AccessInv, NEW r \in Requests, Walks(r)
    PROVE  /\ UNCHANGED <<ftsDone, sessions, apiKeys, ftsLock, late, drawn, setups, out, issued>>
           /\ password' = password \/ password' \in Passwords
BY DEF Walks, Gate, KeyCached, EvictKey, KeyNotCached, LookUp, WarmStore, Serve, LoginFails,
   handleChangePassword, ChangePassword, SetPasswordForUser, SetPasswordFails, UpdateUser, dbVars, histVars

-----------------------------------------------------------------------------
(* Each part is preserved by every step.                                   *)

\* Only the request that takes a step changes its frame, and it keeps being a frame.
LEMMA FrameStep ==
    ASSUME AccessInv, NEW r \in Requests, Request(r)
    PROVE  req' \in [Requests -> Frame] /\ Alone(r)
<1>0. req \in [Requests -> Frame] /\ req[r] \in Frame /\ sessions \subseteq Tokens
  BY DEF AccessInv, AccessTypeOK
<1>1. ASSUME NEW f \in Frame, req' = [req EXCEPT ![r] = f]
      PROVE  req' \in [Requests -> Frame] /\ Alone(r)
  BY <1>0, <1>1 DEF Alone
<1>2. ASSUME NEW l \in Labels, Goto(r, l) PROVE req' \in [Requests -> Frame] /\ Alone(r)
  BY <1>0, <1>2, GotoEffect
<1>3. CASE Walks(r)
  BY <1>2, <1>3, WalkGoes DEF Labels
<1>4. CASE Arrive(r)
  <2>1. PICK n \in DOMAIN Routes, c \in drawn \union {Nobody}, k \in DOMAIN issued \union {Nobody} :
           req' = [req EXCEPT ![r] = [NoFrame EXCEPT !.pc = "gate", !.route = n,
                                                     !.token = Load(c), !.key = k]]
    BY <1>4 DEF Arrive
  <2>2. Load(c) \in Tokens \union {Nobody} /\ k \in Keys \union {Nobody}
    BY <1>0 DEF Load, AccessInv, KeyInv
  <2>3. [NoFrame EXCEPT !.pc = "gate", !.route = n, !.token = Load(c), !.key = k] \in Frame
    BY <2>2 DEF NoFrame, Frame, Labels
  <2> QED BY <1>1, <2>1, <2>3
<1>5. CASE WarmRead(r)
  <2>1. CASE Goto(r, "handle")
    BY <1>2, <2>1 DEF Labels
  <2>2. CASE \E row \in ByKey(req[r].key) :
               req' = [req EXCEPT ![r].pc = "store", ![r].grant = row.grant]
    <3>1. PICK row \in apiKeys : req' = [req EXCEPT ![r].pc = "store", ![r].grant = row.grant]
      BY <2>2 DEF ByKey
    <3>2. row.grant \in Grant
      BY DEF AccessInv, AccessTypeOK, Row
    <3>3. req' = [req EXCEPT ![r] = [req[r] EXCEPT !.pc = "store", !.grant = row.grant]]
      BY <1>0, <3>1
    <3>4. [req[r] EXCEPT !.pc = "store", !.grant = row.grant] \in Frame
      BY <1>0, <3>2 DEF Frame, Labels
    <3> QED BY <1>1, <3>3, <3>4
  <2> QED BY <1>5, <2>1, <2>2 DEF WarmRead
<1>6. CASE handleLogin(r)
  BY <1>1, <1>6, FrameTypes DEF handleLogin, NewSession
<1>7. CASE handleLogout(r)
  BY <1>1, <1>7, FrameTypes DEF handleLogout, LogoutSession
<1>8. CASE SetupEnter(r) \/ SetupPassword(r) \/ SetupComplete(r) \/ InsertKey(r) \/ handleDeleteApiKey(r)
  BY <1>2, <1>8 DEF SetupEnter, SetupPassword, SetupComplete, InsertKey, handleDeleteApiKey, Labels
<1>9. CASE handleCreateNewApiKey(r)
  <2>1. PICK a \in Aliases, g \in Grant :
           \/ req' = [req EXCEPT ![r] = [req[r] EXCEPT !.pc = "insert", !.alias = a, !.grant = g]]
           \/ req' = [req EXCEPT ![r] = Ending(req[r].token)]
    BY <1>9 DEF handleCreateNewApiKey
  <2>2. [req[r] EXCEPT !.pc = "insert", !.alias = a, !.grant = g] \in Frame
    BY <1>0 DEF Frame, Labels
  <2>3. Ending(req[r].token) \in Frame
    BY <1>0, FrameTypes DEF Frame
  <2> QED BY <1>1, <2>1, <2>2, <2>3
<1>10. CASE Commit(r)
  BY <1>1, <1>10, FrameTypes DEF Commit
<1> QED BY <1>3, <1>4, <1>5, <1>6, <1>7, <1>8, <1>9, <1>10 DEF Request, Walks

\* The types.
LEMMA TypeStep ==
    ASSUME AccessInv, [AccessNext]_accessVars
    PROVE  AccessTypeOK'
<1> USE DEF AccessInv, AccessTypeOK, dbVars, histVars
<1>1. CacheTypeOK'
  BY CacheBoundStep
<1>2. req' \in [Requests -> Frame]
  <2>1. CASE Restart
    BY <2>1, FrameTypes DEF Restart
  <2>2. CASE SessionExpires \/ Later \/ KeyCacheStep \/ UNCHANGED accessVars
    BY <2>2 DEF SessionExpires, Later, KeyCacheStep, accessVars
  <2> QED BY <2>1, <2>2, FrameStep DEF AccessNext
<1>3. ASSUME NEW r \in Requests, Request(r)
      PROVE  /\ ftsDone' \in BOOLEAN /\ late' \in BOOLEAN
             /\ password' \in Passwords \union {Nobody} /\ ftsLock' \in Requests \union {Nobody}
             /\ sessions' \subseteq drawn' /\ drawn' \subseteq Tokens /\ apiKeys' \subseteq Row
  <2>0. req[r] \in Frame /\ req[r].token \in drawn \union {Nobody}
    BY DEF SessionInv
  <2>1. CASE Walks(r)
    BY <2>1, WalkLeaves
  <2>2. CASE Arrive(r) \/ WarmRead(r) \/ handleCreateNewApiKey(r)
    BY <2>2 DEF Arrive, WarmRead, handleCreateNewApiKey
  <2>3. CASE handleLogin(r) \/ handleLogout(r)
    BY <2>3 DEF handleLogin, handleLogout, NewSession, LogoutSession
  <2>4. CASE SetupEnter(r) \/ SetupPassword(r) \/ SetupComplete(r)
    BY <2>4 DEF SetupEnter, SetupPassword, SetupComplete, SetPasswordForUser, SetPasswordFails,
       UpdateUser, CompleteFistTimeSetup
  <2>5. CASE InsertKey(r)
    <3>1. req[r].alias \in Aliases /\ req[r].grant \in Grant
      BY <2>5 DEF InsertKey, At, KeyInv
    <3>2. \A k \in Keys : [alias |-> req[r].alias, key |-> k, grant |-> req[r].grant] \in Row
      BY <3>1 DEF Row
    <3>3. apiKeys' \subseteq Row
      BY <2>5, <3>2 DEF InsertKey, NewApiKey
    <3> QED BY <2>5, <3>3 DEF InsertKey
  <2>6. CASE handleDeleteApiKey(r)
    BY <2>6 DEF handleDeleteApiKey, DeleteApiKey
  <2>7. CASE Commit(r)
    BY <2>0, <2>7 DEF Commit
  <2> QED BY <1>3, <2>1, <2>2, <2>3, <2>4, <2>5, <2>6, <2>7 DEF Request, Walks
<1>4. CASE Restart \/ SessionExpires \/ Later \/ KeyCacheStep \/ UNCHANGED accessVars
  BY <1>1, <1>2, <1>4 DEF Restart, SessionExpires, Later, KeyCacheStep, accessVars
<1> QED BY <1>1, <1>2, <1>3, <1>4 DEF AccessNext

\* The setup: whoever leaves it, and whatever it stored, the others stay outside.
LEMMA SetupStep ==
    ASSUME AccessInv, [AccessNext]_accessVars
    PROVE  SetupInv'
<1> USE DEF SetupInv, NeverLockedOut
<1>0. /\ SetupInv /\ req \in [Requests -> Frame] /\ ftsDone \in BOOLEAN
      /\ Nobody \notin Requests /\ Nobody \notin Passwords
  BY AccessAssumption DEF AccessInv, AccessTypeOK, AccessAssumption
<1>1. ASSUME NEW r \in Requests, Alone(r), req'[r].pc \notin {"setup", "complete"},
             UNCHANGED <<ftsDone, ftsLock, setups>>, password' = password \/ password' \in Passwords
      PROVE  SetupInv'
  BY <1>0, <1>1 DEF Alone
<1>2. ASSUME NEW r \in Requests, Walks(r) PROVE SetupInv'
  <2>1. req'[r].pc \notin {"setup", "complete"}
    BY <1>0, <1>2, WalkGoes, GotoEffect DEF Labels
  <2>2. Alone(r)
    BY <1>2, FrameStep DEF Walks, Request
  <2> QED BY <1>1, <1>2, <2>1, <2>2, WalkLeaves
<1>3. ASSUME NEW r \in Requests,
             \/ Arrive(r) \/ WarmRead(r) \/ handleLogin(r) \/ handleLogout(r)
             \/ handleCreateNewApiKey(r) \/ InsertKey(r) \/ handleDeleteApiKey(r) \/ Commit(r)
      PROVE  SetupInv'
  <2>1. Alone(r)
    BY <1>3, FrameStep DEF Request
  <2>2. UNCHANGED <<ftsDone, ftsLock, setups, password>>
    BY <1>3 DEF Arrive, WarmRead, handleLogin, handleLogout, handleCreateNewApiKey, InsertKey,
       handleDeleteApiKey, Commit, dbVars, histVars
  <2>3. req'[r].pc \notin {"setup", "complete"}
    <3>1. CASE WarmRead(r)
      BY <1>0, <3>1, GotoEffect DEF WarmRead, Labels, Frame
    <3>2. CASE InsertKey(r) \/ handleDeleteApiKey(r)
      BY <1>0, <3>2, GotoEffect DEF InsertKey, handleDeleteApiKey, Labels
    <3>3. CASE handleLogin(r) \/ handleLogout(r) \/ Commit(r)
      <4>1. \E t \in Tokens \union {Nobody} :
               req' = [req EXCEPT ![r] = Ending(t)] \/ req' = [req EXCEPT ![r] = NoFrame]
        BY <3>3 DEF handleLogin, NewSession, handleLogout, LogoutSession, Commit
      <4> QED BY <1>0, <4>1, FrameTypes
    <3>4. CASE handleCreateNewApiKey(r)
      BY <1>0, <3>4 DEF handleCreateNewApiKey, Ending, NoFrame, Frame
    <3>5. CASE Arrive(r)
      BY <1>0, <3>5 DEF Arrive, NoFrame
    <3> QED BY <1>3, <3>1, <3>2, <3>3, <3>4, <3>5
  <2> QED BY <1>1, <2>1, <2>2, <2>3
<1>4. ASSUME NEW r \in Requests, SetupEnter(r) \/ SetupPassword(r) \/ SetupComplete(r) PROVE SetupInv'
  <2>1. Alone(r)
    BY <1>4, FrameStep DEF Request
  <2>2. CASE SetupEnter(r)
    <3>1. CASE Goto(r, "commit") /\ UNCHANGED ftsLock
      BY <1>0, <1>1, <2>1, <2>2, <3>1, GotoEffect DEF SetupEnter, Labels, dbVars, histVars
    <3>2. CASE ~ftsDone /\ ftsLock' = r /\ Goto(r, "setup")
      <4>1. req'[r].pc = "setup"
        BY <1>0, <3>2, GotoEffect DEF Labels
      <4>2. \A q \in Requests \ {r} : req'[q].pc \notin {"setup", "complete"}
        BY <1>0, <2>1, <2>2 DEF SetupEnter, Alone
      <4> QED BY <1>0, <2>2, <3>2, <4>1, <4>2 DEF SetupEnter, dbVars, histVars
    <3>3. PICK done \in {ftsDone, TRUE} : IF done THEN Goto(r, "commit") /\ UNCHANGED ftsLock
                                           ELSE ftsLock' = r /\ Goto(r, "setup")
      BY <2>2 DEF SetupEnter, IsFirstTimeSetupCompleted
    <3>4. CASE done
      BY <3>1, <3>3, <3>4
    <3>5. CASE ~done
      BY <1>0, <3>2, <3>3, <3>5
    <3> QED BY <3>4, <3>5
  <2>3. CASE SetupPassword(r)
    <3>1. req[r].pc = "setup" /\ ftsLock = r /\ ~ftsDone
      BY <1>0, <2>3 DEF SetupPassword, At
    <3>2. \A q \in Requests \ {r} : req'[q].pc \notin {"setup", "complete"}
      BY <1>0, <2>1, <3>1 DEF Alone
    <3>3. CASE SetPasswordForUser /\ Goto(r, "complete") /\ UNCHANGED ftsLock
      <4>1. req'[r].pc = "complete"
        BY <1>0, <3>3, GotoEffect DEF Labels
      <4> QED BY <1>0, <2>3, <3>1, <3>2, <3>3, <4>1
              DEF SetupPassword, SetPasswordForUser, UpdateUser, histVars
    <3>4. CASE SetPasswordFails /\ ftsLock' = Nobody /\ Goto(r, "commit")
      <4>1. req'[r].pc = "commit"
        BY <1>0, <3>4, GotoEffect DEF Labels
      <4> QED BY <1>0, <2>3, <3>2, <3>4, <4>1 DEF SetupPassword, SetPasswordFails, histVars
    <3> QED BY <2>3, <3>3, <3>4 DEF SetupPassword
  <2>4. CASE SetupComplete(r)
    <3>1. req[r].pc = "complete" /\ ftsLock = r /\ ~ftsDone /\ password # Nobody
      BY <1>0, <2>4 DEF SetupComplete, At
    <3>2. \A q \in Requests \ {r} : req'[q].pc \notin {"setup", "complete"}
      BY <1>0, <2>1, <3>1 DEF Alone
    <3>3. req'[r].pc = "commit"
      BY <1>0, <2>4, GotoEffect DEF SetupComplete, Labels
    <3> QED BY <1>0, <2>4, <3>1, <3>2, <3>3 DEF SetupComplete, CompleteFistTimeSetup
  <2> QED BY <1>4, <2>2, <2>3, <2>4
<1>5. CASE Restart
  BY <1>0, <1>5 DEF Restart, NoFrame, dbVars, histVars
<1>6. CASE SessionExpires \/ Later \/ KeyCacheStep \/ UNCHANGED accessVars
  BY <1>0, <1>6 DEF SessionExpires, Later, KeyCacheStep, accessVars, dbVars, histVars
<1> QED BY <1>2, <1>3, <1>4, <1>5, <1>6 DEF AccessNext, Request, Walks

\* Aliases: the insertion refuses a second row with the alias.
LEMMA AliasStep ==
    ASSUME AccessInv, [AccessNext]_accessVars
    PROVE  AliasUnique'
<1> USE DEF AccessInv, AliasUnique
<1>1. ASSUME NEW r \in Requests, InsertKey(r) PROVE AliasUnique'
  BY <1>1 DEF InsertKey, NewApiKey, ByAlias
<1>2. ASSUME apiKeys' \subseteq apiKeys PROVE AliasUnique'
  BY <1>2
<1>3. ASSUME NEW r \in Requests, Walks(r) PROVE apiKeys' \subseteq apiKeys
  BY <1>3, WalkLeaves
<1>4. ASSUME NEW r \in Requests, handleDeleteApiKey(r) PROVE apiKeys' \subseteq apiKeys
  BY <1>4 DEF handleDeleteApiKey, DeleteApiKey
<1>5. ASSUME NEW r \in Requests,
             \/ Arrive(r) \/ WarmRead(r) \/ handleLogin(r) \/ handleLogout(r) \/ SetupEnter(r)
             \/ SetupPassword(r) \/ SetupComplete(r) \/ handleCreateNewApiKey(r) \/ Commit(r)
      PROVE  apiKeys' \subseteq apiKeys
  BY <1>5 DEF Arrive, WarmRead, handleLogin, handleLogout, SetupEnter, SetupPassword, SetupComplete,
     handleCreateNewApiKey, Commit, dbVars
<1>6. CASE Restart \/ SessionExpires \/ Later \/ KeyCacheStep \/ UNCHANGED accessVars
  BY <1>6 DEF Restart, SessionExpires, Later, KeyCacheStep, accessVars, dbVars
<1> QED BY <1>1, <1>2, <1>3, <1>4, <1>5, <1>6 DEF AccessNext, Request, Walks

\* What is in the cache was there before, or a request has just stored it there.
LEMMA CacheGains ==
    ASSUME AccessInv, [AccessNext]_accessVars
    PROVE  \A k \in DOMAIN cache' :
              \/ k \in DOMAIN cache /\ cache'[k].value = cache[k].value
              \/ \E r \in Requests : /\ At(r, "store") /\ req[r].key = k
                                     /\ cache'[k].value = req[r].grant
<1> USE DEF Judged, At, AccessInv, AccessTypeOK
<1>1. ASSUME NEW r \in Requests, WarmStore(r) PROVE req[r].key \in Keys
  BY <1>1, JudgedKey DEF WarmStore
<1>2. CASE \E r \in Requests : WarmStore(r)
  BY <1>1, <1>2, StoreAdds DEF WarmStore
<1>3. CASE \E r \in Requests : KeyCached(r) \/ KeyNotCached(r) \/ EvictKey(r)
  <2>1. PICK r \in Requests : KeyCached(r) \/ KeyNotCached(r) \/ EvictKey(r)
    BY <1>3
  <2>2. req[r].key \in Keys
    BY <2>1, JudgedKey DEF KeyCached, KeyNotCached, EvictKey
  <2>3. GetHit(req[r].key) \/ GetMiss(req[r].key) \/ Evict(req[r].key)
    BY <2>1 DEF KeyCached, KeyNotCached, EvictKey
  <2> QED BY <2>2, <2>3, OperationsKeep
<1>4. CASE KeyCacheStep
  BY <1>4, OperationsKeep DEF KeyCacheStep
<1>5. CASE Restart
  BY <1>5 DEF Restart
<1>6. CASE UNCHANGED cacheVars
  BY <1>6 DEF cacheVars
<1>7. CASE SessionExpires \/ Later \/ UNCHANGED accessVars
  BY <1>6, <1>7 DEF SessionExpires, Later, accessVars
<1>8. ASSUME NEW r \in Requests, Request(r), ~KeyCached(r), ~KeyNotCached(r), ~EvictKey(r), ~WarmStore(r)
      PROVE  UNCHANGED cacheVars
  BY <1>8 DEF Request, Arrive, Gate, LookUp, WarmRead, Serve, handleLogin, LoginFails, handleLogout,
     handleChangePassword, ChangePassword, SetupEnter, SetupPassword, SetupComplete,
     handleCreateNewApiKey, InsertKey, handleDeleteApiKey, Commit
<1> QED BY <1>2, <1>3, <1>4, <1>5, <1>6, <1>7, <1>8 DEF AccessNext

\* A key is issued when its row is inserted, and nothing that was issued changes.
LEMMA IssuedStep ==
    ASSUME AccessInv, [AccessNext]_accessVars
    PROVE  /\ DOMAIN issued \subseteq DOMAIN issued' /\ DOMAIN issued' \subseteq Keys
           /\ \A k \in DOMAIN issued : issued'[k] = issued[k]
           /\ issued' \in [DOMAIN issued' -> Grant]
           /\ \A row \in apiKeys' : row.key \in DOMAIN issued' /\ row.grant = issued'[row.key]
<1> USE DEF AccessInv, KeyInv, AccessTypeOK
<1>1. ASSUME NEW r \in Requests, InsertKey(r), ~UNCHANGED <<apiKeys, issued>>
      PROVE  \E k \in Keys \ DOMAIN issued, g \in Grant, a \in Aliases :
                /\ apiKeys' = apiKeys \union {[alias |-> a, key |-> k, grant |-> g]}
                /\ issued' = Put(issued, k, g)
  <2>1. req[r].alias \in Aliases /\ req[r].grant \in Grant
    BY <1>1 DEF InsertKey, At
  <2> QED BY <1>1, <2>1 DEF InsertKey, NewApiKey
<1>2. ASSUME NEW k \in Keys \ DOMAIN issued, NEW g \in Grant, NEW a \in Aliases,
             apiKeys' = apiKeys \union {[alias |-> a, key |-> k, grant |-> g]},
             issued' = Put(issued, k, g)
      PROVE  /\ DOMAIN issued \subseteq DOMAIN issued' /\ DOMAIN issued' \subseteq Keys
             /\ \A j \in DOMAIN issued : issued'[j] = issued[j]
             /\ issued' \in [DOMAIN issued' -> Grant]
             /\ \A row \in apiKeys' : row.key \in DOMAIN issued' /\ row.grant = issued'[row.key]
  <2>1. DOMAIN issued' = DOMAIN issued \union {k} /\ issued'[k] = g
    BY <1>2 DEF Put
  <2>2. \A j \in DOMAIN issued : issued'[j] = issued[j]
    BY <1>2 DEF Put
  <2>3. issued' \in [DOMAIN issued' -> Grant]
    BY <1>2 DEF Put
  <2>4. \A row \in apiKeys' : row.key \in DOMAIN issued' /\ row.grant = issued'[row.key]
    BY <1>2, <2>1, <2>2
  <2> QED BY <2>1, <2>2, <2>3, <2>4
<1>3. ASSUME apiKeys' \subseteq apiKeys, issued' = issued
      PROVE  /\ DOMAIN issued \subseteq DOMAIN issued' /\ DOMAIN issued' \subseteq Keys
             /\ \A k \in DOMAIN issued : issued'[k] = issued[k]
             /\ issued' \in [DOMAIN issued' -> Grant]
             /\ \A row \in apiKeys' : row.key \in DOMAIN issued' /\ row.grant = issued'[row.key]
  BY <1>3
<1>4. ASSUME NEW r \in Requests, Walks(r) PROVE apiKeys' \subseteq apiKeys /\ issued' = issued
  BY <1>4, WalkLeaves
<1>5. ASSUME NEW r \in Requests,
             \/ Arrive(r) \/ WarmRead(r) \/ handleLogin(r) \/ handleLogout(r) \/ SetupEnter(r)
             \/ SetupPassword(r) \/ SetupComplete(r) \/ handleCreateNewApiKey(r) \/ Commit(r)
             \/ handleDeleteApiKey(r)
      PROVE  apiKeys' \subseteq apiKeys /\ issued' = issued
  BY <1>5 DEF Arrive, WarmRead, handleLogin, handleLogout, SetupEnter, SetupPassword, SetupComplete,
     handleCreateNewApiKey, Commit, handleDeleteApiKey, DeleteApiKey, dbVars, histVars
<1>6. CASE Restart \/ SessionExpires \/ Later \/ KeyCacheStep \/ UNCHANGED accessVars
  BY <1>3, <1>6 DEF Restart, SessionExpires, Later, KeyCacheStep, accessVars, dbVars, histVars
<1> QED BY <1>1, <1>2, <1>3, <1>4, <1>5, <1>6 DEF AccessNext, Request, Walks

\* The keys: what a frame or the cache holds of a key is what was issued.
LEMMA KeyStep ==
    ASSUME AccessInv, [AccessNext]_accessVars
    PROVE  KeyInv'
<1>0. /\ req \in [Requests -> Frame] /\ KeyInv
      /\ DOMAIN issued \subseteq DOMAIN issued' /\ \A k \in DOMAIN issued : issued'[k] = issued[k]
      /\ Nobody \notin Keys /\ DOMAIN issued \subseteq Keys /\ req' \in [Requests -> Frame]
  BY IssuedStep, TypeStep, AccessAssumption DEF AccessInv, AccessTypeOK, AccessAssumption, KeyInv
<1>1. \A k \in DOMAIN cache' : k \in DOMAIN issued' /\ cache'[k].value = issued'[k]
  <2>1. ASSUME NEW r \in Requests, At(r, "store")
        PROVE  req[r].key \in DOMAIN issued /\ req[r].grant = issued[req[r].key]
    BY <2>1, <1>0 DEF KeyInv, Judged, At
  <2> QED BY <1>0, <2>1, CacheGains DEF KeyInv
<1> DEFINE Sound(q) ==
      /\ req'[q].key \in DOMAIN issued' \union {Nobody}
      /\ Judged(q)' => req'[q].key # Nobody /\ req'[q].route = "stats"
      /\ req'[q].pc = "store" => req'[q].grant = issued'[req'[q].key]
      /\ req'[q].pc = "insert" => req'[q].alias \in Aliases /\ req'[q].grant \in Grant
<1>2. ASSUME NEW q \in Requests, req'[q] = req[q] PROVE Sound(q)
  BY <1>0, <1>2 DEF KeyInv, Judged
<1>3. ASSUME NEW r \in Requests, Request(r) PROVE Sound(r)
  <2>1. ASSUME req'[r].key = Nobody, req'[r].pc \in {"commit", "idle"} PROVE Sound(r)
    BY <2>1 DEF Judged
  <2>2. ASSUME Goto(r, "commit") PROVE Sound(r)
    BY <1>0, <2>1, <2>2, GotoEffect DEF Labels
  <2>3. ASSUME NEW l \in Labels \ {"store", "insert", "commit"}, Goto(r, l),
               l \in {"key", "evict", "lookup", "warm"} => req[r].key # Nobody /\ req[r].route = "stats"
        PROVE  Sound(r)
    <3>1. req'[r].pc = l /\ req'[r].key = req[r].key /\ req'[r].route = req[r].route
      BY <1>0, <2>3, GotoEffect
    <3> QED BY <1>0, <2>3, <3>1 DEF Judged, KeyInv
  <2>4. CASE Walks(r)
    BY <2>2, <2>3, <2>4, WalkGoes DEF Labels
  <2>5. CASE SetupEnter(r) \/ SetupPassword(r) \/ SetupComplete(r) \/ InsertKey(r) \/ handleDeleteApiKey(r)
    BY <2>2, <2>3, <2>5 DEF SetupEnter, SetupPassword, SetupComplete, InsertKey, handleDeleteApiKey, Labels
  <2>6. CASE handleLogin(r) \/ handleLogout(r) \/ Commit(r)
    <3>1. \E t \in Tokens \union {Nobody} :
             req' = [req EXCEPT ![r] = Ending(t)] \/ req' = [req EXCEPT ![r] = NoFrame]
      BY <2>6 DEF handleLogin, NewSession, handleLogout, LogoutSession, Commit
    <3> QED BY <1>0, <2>1, <3>1, FrameTypes
  <2>7. CASE Arrive(r)
    <3>1. PICK k \in DOMAIN issued \union {Nobody} : req'[r].pc = "gate" /\ req'[r].key = k
      BY <1>0, <2>7 DEF Arrive, NoFrame
    <3> QED BY <1>0, <3>1 DEF Judged
  <2>8. CASE WarmRead(r)
    <3>1. req[r].key # Nobody /\ req[r].route = "stats" /\ req[r].key \in DOMAIN issued
      BY <1>0, <2>8 DEF WarmRead, At, KeyInv, Judged
    <3>2. CASE Goto(r, "handle")
      BY <2>3, <3>2 DEF Labels
    <3>3. CASE \E row \in ByKey(req[r].key) :
                 req' = [req EXCEPT ![r].pc = "store", ![r].grant = row.grant]
      <4>1. PICK row \in apiKeys :
               row.key = req[r].key /\ req' = [req EXCEPT ![r].pc = "store", ![r].grant = row.grant]
        BY <3>3 DEF ByKey
      <4>2. row.grant = issued[req[r].key]
        BY <1>0, <4>1 DEF KeyInv
      <4>3. /\ req'[r].pc = "store" /\ req'[r].key = req[r].key /\ req'[r].route = req[r].route
            /\ req'[r].grant = row.grant
        BY <1>0, <4>1 DEF Frame
      <4> QED BY <1>0, <3>1, <4>2, <4>3
    <3> QED BY <2>8, <3>2, <3>3 DEF WarmRead
  <2>9. CASE handleCreateNewApiKey(r)
    <3>1. PICK a \in Aliases, g \in Grant :
             \/ req' = [req EXCEPT ![r] = [req[r] EXCEPT !.pc = "insert", !.alias = a, !.grant = g]]
             \/ req' = [req EXCEPT ![r] = Ending(req[r].token)]
      BY <2>9 DEF handleCreateNewApiKey
    <3>2. CASE req' = [req EXCEPT ![r] = Ending(req[r].token)]
      <4>1. req[r].token \in Tokens \union {Nobody}
        BY <1>0 DEF Frame
      <4> QED BY <1>0, <2>1, <3>2, <4>1, FrameTypes
    <3>3. CASE req' = [req EXCEPT ![r] = [req[r] EXCEPT !.pc = "insert", !.alias = a, !.grant = g]]
      <4>1. req'[r].pc = "insert" /\ req'[r].alias = a /\ req'[r].grant = g /\ req'[r].key = req[r].key
        BY <1>0, <3>3 DEF Frame
      <4> QED BY <1>0, <4>1 DEF Judged, KeyInv
    <3> QED BY <3>1, <3>2, <3>3
  <2> QED BY <1>3, <2>4, <2>5, <2>6, <2>7, <2>8, <2>9 DEF Request, Walks
<1>4. ASSUME NEW q \in Requests PROVE Sound(q)
  <2>1. ASSUME NEW r \in Requests, Request(r) PROVE Sound(q)
    BY <1>2, <1>3, <2>1, FrameStep DEF Alone
  <2>2. CASE Restart
    BY <2>2, FrameTypes DEF Restart, Judged
  <2>3. CASE SessionExpires \/ Later \/ KeyCacheStep \/ UNCHANGED accessVars
    BY <1>2, <2>3 DEF SessionExpires, Later, KeyCacheStep, accessVars
  <2> QED BY <2>1, <2>2, <2>3 DEF AccessNext
<1> QED BY <1>1, <1>4, IssuedStep DEF KeyInv

\* The sessions: a token in a frame was loaded from the store or drawn for it.
LEMMA SessionStep ==
    ASSUME AccessInv, [AccessNext]_accessVars
    PROVE  SessionInv'
<1>0. /\ req \in [Requests -> Frame] /\ SessionInv /\ KeyInv
      /\ sessions \subseteq drawn /\ drawn \subseteq Tokens /\ Nobody \notin Tokens
  BY AccessAssumption DEF AccessInv, AccessTypeOK, AccessAssumption
<1> DEFINE Sound(q) ==
      /\ req'[q].token \in drawn' \union {Nobody}
      /\ Handling(q, "logout")' => req'[q].token # Nobody
<1>1. ASSUME NEW q \in Requests, req'[q] = req[q], drawn \subseteq drawn' PROVE Sound(q)
  BY <1>0, <1>1 DEF SessionInv, Handling, At
<1>2. ASSUME NEW r \in Requests, Request(r)
      PROVE  Sound(r) /\ out' \subseteq drawn' /\ drawn \subseteq drawn'
  <2>1. ASSUME NEW l \in Labels, Goto(r, l), drawn' = drawn, out' = out,
               l = "handle" /\ req[r].route = "logout" => req[r].token # Nobody
        PROVE  Sound(r) /\ out' \subseteq drawn' /\ drawn \subseteq drawn'
    <3>1. /\ req'[r].pc = l /\ req'[r].token = req[r].token
          /\ l # "commit" => req'[r].route = req[r].route
      BY <1>0, <2>1, GotoEffect
    <3> QED BY <1>0, <2>1, <3>1 DEF SessionInv, Handling, At
  <2>2. CASE Walks(r)
    BY <2>1, <2>2, WalkGoes, WalkLeaves DEF Labels
  <2>3. CASE SetupEnter(r) \/ SetupPassword(r) \/ SetupComplete(r) \/ InsertKey(r) \/ handleDeleteApiKey(r)
    BY <2>1, <2>3 DEF SetupEnter, SetupPassword, SetupComplete, InsertKey, handleDeleteApiKey, Labels, histVars
  <2>4. CASE handleLogin(r)
    <3>1. PICK t \in Tokens : drawn' = drawn \union {t} /\ req' = [req EXCEPT ![r] = Ending(t)]
      BY <2>4 DEF handleLogin, NewSession
    <3>2. req'[r].pc = "commit" /\ req'[r].token = t
      BY <1>0, <3>1, FrameTypes
    <3> QED BY <1>0, <2>4, <3>1, <3>2 DEF handleLogin, histVars, SessionInv, Handling, At
  <2>5. CASE handleLogout(r)
    <3>1. req'[r].pc = "commit" /\ req'[r].token = Nobody
      BY <1>0, <2>5, FrameTypes DEF handleLogout, LogoutSession
    <3>2. req[r].token \in drawn
      BY <1>0, <2>5 DEF handleLogout, SessionInv
    <3> QED BY <1>0, <2>5, <3>1, <3>2 DEF handleLogout, SessionInv, Handling, At
  <2>6. CASE Commit(r)
    <3>1. req'[r].pc = "idle" /\ req'[r].token = Nobody
      BY <1>0, <2>6, FrameTypes DEF Commit
    <3> QED BY <1>0, <2>6, <3>1 DEF Commit, SessionInv, Handling, At, histVars
  <2>7. CASE Arrive(r)
    <3>1. PICK c \in drawn \union {Nobody} : req'[r].pc = "gate" /\ req'[r].token = Load(c)
      BY <1>0, <2>7 DEF Arrive, NoFrame
    <3> QED BY <1>0, <2>7, <3>1 DEF Arrive, Load, SessionInv, Handling, At, histVars
  <2>8. CASE WarmRead(r)
    <3>1. req[r].route = "stats"
      BY <1>0, <2>8 DEF WarmRead, At, KeyInv, Judged
    <3>2. CASE Goto(r, "handle")
      BY <2>1, <2>8, <3>1, <3>2 DEF Labels, WarmRead, histVars
    <3>3. CASE \E row \in ByKey(req[r].key) :
                 req' = [req EXCEPT ![r].pc = "store", ![r].grant = row.grant]
      <4>1. req'[r].pc = "store" /\ req'[r].token = req[r].token
        BY <1>0, <3>3 DEF Frame
      <4> QED BY <1>0, <2>8, <4>1 DEF WarmRead, SessionInv, Handling, At, histVars
    <3> QED BY <2>8, <3>2, <3>3 DEF WarmRead
  <2>9. CASE handleCreateNewApiKey(r)
    <3>1. PICK a \in Aliases, g \in Grant :
             \/ req' = [req EXCEPT ![r] = [req[r] EXCEPT !.pc = "insert", !.alias = a, !.grant = g]]
             \/ req' = [req EXCEPT ![r] = Ending(req[r].token)]
      BY <2>9 DEF handleCreateNewApiKey
    <3>2. req[r].token \in Tokens \union {Nobody}
      BY <1>0 DEF Frame
    <3>3. req'[r].pc \in {"insert", "commit"} /\ req'[r].token = req[r].token
      <4>1. CASE req' = [req EXCEPT ![r] = Ending(req[r].token)]
        BY <1>0, <3>2, <4>1, FrameTypes
      <4>2. CASE req' = [req EXCEPT ![r] = [req[r] EXCEPT !.pc = "insert", !.alias = a, !.grant = g]]
        BY <1>0, <4>2 DEF Frame
      <4> QED BY <3>1, <4>1, <4>2
    <3> QED BY <1>0, <2>9, <3>3 DEF handleCreateNewApiKey, SessionInv, Handling, At, histVars
  <2> QED BY <1>2, <2>2, <2>3, <2>4, <2>5, <2>6, <2>7, <2>8, <2>9 DEF Request, Walks
<1>3. ASSUME NEW r \in Requests, Request(r) PROVE SessionInv'
  BY <1>1, <1>2, <1>3, FrameStep DEF Alone, SessionInv
<1>4. CASE Restart
  BY <1>0, <1>4, FrameTypes DEF Restart, SessionInv, Handling, At, histVars
<1>5. CASE SessionExpires \/ Later \/ KeyCacheStep \/ UNCHANGED accessVars
  BY <1>0, <1>5 DEF SessionExpires, Later, KeyCacheStep, accessVars, histVars, SessionInv, Handling, At
<1> QED BY <1>3, <1>4, <1>5 DEF AccessNext

-----------------------------------------------------------------------------
\* An empty database, an empty cache, and nobody inside.
LEMMA AccessInvInit == AccessInit => AccessInv
<1> SUFFICES ASSUME AccessInit PROVE AccessInv
  OBVIOUS
<1>1. CacheTypeOK /\ CapacityBound
  BY BoundInit DEF AccessInit
<1>2. req \in [Requests -> Frame] /\ \A r \in Requests : req[r] = NoFrame
  BY FrameTypes DEF AccessInit
<1>3. AccessTypeOK
  BY <1>1, <1>2 DEF AccessTypeOK, AccessInit
<1>4. SetupInv
  BY <1>2, FrameTypes DEF SetupInv, NeverLockedOut, AccessInit
<1>5. KeyInv
  BY <1>2, FrameTypes DEF KeyInv, Judged, AccessInit, NewCache
<1>6. SessionInv
  BY <1>2, FrameTypes DEF SessionInv, Handling, At, AccessInit
<1> QED BY <1>1, <1>3, <1>4, <1>5, <1>6 DEF AccessInv, AliasUnique, AccessInit

\* Every step keeps each part: types, cache, setup, aliases, keys and sessions.
LEMMA AccessInvStep == AccessInv /\ [AccessNext]_accessVars => AccessInv'
BY TypeStep, CacheBoundStep, AliasStep, SetupStep, KeyStep, SessionStep DEF AccessInv

\* The inductive invariant holds in every reachable state.
THEOREM AccessInvCorrect == AccessSpec => []AccessInv
BY AccessInvInit, AccessInvStep, PTL DEF AccessSpec

\* However many requests race for the first-time setup or for an alias, and wherever the
\* process dies, one setup is acknowledged and an alias names one key (ftsLock, INSERT).
THEOREM OnlyOnceCorrect == AccessSpec => []OnlyOnce
<1>1. AccessInv => OnlyOnce
  BY DEF AccessInv, OnlyOnce, SetupInv, SetupOnce, AccessTypeOK
<1> QED BY <1>1, AccessInvCorrect, PTL

\* Redirects between the pages settle in every state of the setup.
LEMMA PagesLead == ftsDone \in BOOLEAN => PagesSettle
<1> SUFFICES ASSUME ftsDone \in BOOLEAN, NEW page \in {"root", "login", "setup", "dashboard"},
                    NEW session \in BOOLEAN
             PROVE  LET to(p) == Sent(p, ftsDone, session) IN to(to(to(page))) = to(to(page))
  BY DEF PagesSettle
<1>1. /\ Sent("root", ftsDone, session) = IF ~ftsDone THEN "setup" ELSE IF session THEN "dashboard" ELSE "login"
      /\ Sent("login", ftsDone, session) = IF ~ftsDone THEN "setup" ELSE IF session THEN "dashboard" ELSE "login"
      /\ Sent("setup", ftsDone, session) = IF ftsDone THEN "login" ELSE "setup"
      /\ Sent("dashboard", ftsDone, session) = IF session THEN "dashboard" ELSE "login"
  BY DEF Sent, handleRoot, handleLoginPage, handleSetupPage, handleDashboardPage
<1> QED BY <1>1

\* A completed setup always has a password, and every page leads to one that is rendered.
THEOREM AdminGetsInCorrect == AccessSpec => []AdminGetsIn
<1>1. AccessInv => AdminGetsIn
  BY PagesLead DEF AccessInv, AdminGetsIn, SetupInv, AccessTypeOK
<1> QED BY <1>1, AccessInvCorrect, PTL

\* A request that passes on its key does so within what the key was created with.
LEMMA AdmittedStep ==
    ASSUME AccessInv, [AccessNext]_accessVars, NEW r \in Requests,
           req[r].pc \in {"key", "lookup"}, req'[r].pc \in {"handle", "warm"}
    PROVE  ~Over(issued[req[r].key]) /\ Permits(issued[req[r].key], req[r].route)
<1>0. req \in [Requests -> Frame] /\ KeyInv /\ req[r].key \in DOMAIN issued
  BY JudgedKey DEF AccessInv, AccessTypeOK, Judged
<1>1. Request(r)
  <2>1. req'[r] # req[r]
    OBVIOUS
  <2>2. ~Restart
    BY FrameTypes DEF Restart
  <2>3. ~(SessionExpires \/ Later \/ KeyCacheStep \/ UNCHANGED accessVars)
    BY <2>1 DEF SessionExpires, Later, KeyCacheStep, accessVars
  <2> QED BY <2>1, <2>2, <2>3, FrameStep DEF AccessNext, Alone
<1>2. KeyCached(r) \/ KeyNotCached(r) \/ LookUp(r)
  BY <1>1 DEF Request, Arrive, Gate, EvictKey, WarmRead, WarmStore, Serve, handleLogin, LoginFails,
     handleLogout, handleChangePassword, ChangePassword, SetupEnter, SetupPassword, SetupComplete,
     handleCreateNewApiKey, InsertKey, handleDeleteApiKey, Commit, Handling, At
<1>3. CASE KeyCached(r)
  <2>1. req[r].key \in DOMAIN cache /\ cache[req[r].key].value = issued[req[r].key]
    BY <1>0, <1>3 DEF KeyCached, GetHit, KeyInv
  <2> QED BY <1>0, <1>3, <2>1, GotoEffect DEF KeyCached, Labels
<1>4. CASE KeyNotCached(r)
  BY <1>0, <1>4, GotoEffect DEF KeyNotCached, Labels
<1>5. CASE LookUp(r)
  <2>1. \E s \in Routes[req[r].route].scopes : StoreIsKeyValidForScope(req[r].key, s)
    BY <1>0, <1>5, GotoEffect DEF LookUp, Labels
  <2> QED BY <1>0, <2>1 DEF StoreIsKeyValidForScope, ByKey, Permits, KeyInv
<1> QED BY <1>2, <1>3, <1>4, <1>5

\* A key lets nobody in past its expiry or outside its scopes, from the cache or from the
\* database: what they hold of a key is what it was created with (IsKeyValidForScope).
THEOREM AdmittedWithinGrantCorrect == AccessSpec => AdmittedWithinGrant
<1>1. AccessInv /\ [AccessNext]_accessVars =>
        \A r \in Requests :
           (/\ req[r].pc \in {"key", "lookup"} /\ req'[r].pc \in {"handle", "warm"})
           => ~Over(issued[req[r].key]) /\ Permits(issued[req[r].key], req[r].route)
  BY AdmittedStep
<1> QED BY <1>1, AccessInvCorrect, PTL DEF AccessSpec, AdmittedWithinGrant

\* A revoked key does not come back into the cache, once nobody is about to store it.
LEMMA RevokedStep ==
    ASSUME AccessInv, [AccessNext]_accessVars, NEW k \in DOMAIN issued, ByKey(k) = {}, ~Warm(k)
    PROVE  ~Warm(k)'
<1>0. req \in [Requests -> Frame]
  BY DEF AccessInv, AccessTypeOK
<1>1. k \notin DOMAIN cache'
  BY CacheGains DEF Warm
<1>2. ASSUME NEW q \in Requests, At(q, "store")', req'[q].key = k PROVE FALSE
  <2>1. req'[q] # req[q]
    BY <1>2 DEF Warm, At
  <2>2. Request(q)
    <3>1. ~Restart
      BY <1>2, FrameTypes DEF Restart, At
    <3>2. ~(SessionExpires \/ Later \/ KeyCacheStep \/ UNCHANGED accessVars)
      BY <2>1 DEF SessionExpires, Later, KeyCacheStep, accessVars
    <3> QED BY <2>1, <3>1, <3>2, FrameStep DEF AccessNext, Alone
  <2>3. CASE WarmRead(q)
    BY <1>0, <1>2, <2>3, GotoEffect DEF WarmRead, ByKey, Labels, At, Frame
  <2>4. CASE Walks(q)
    BY <1>0, <1>2, <2>4, WalkGoes, GotoEffect DEF At, Labels
  <2>5. CASE SetupEnter(q) \/ SetupPassword(q) \/ SetupComplete(q) \/ InsertKey(q) \/ handleDeleteApiKey(q)
    BY <1>0, <1>2, <2>5, GotoEffect
       DEF SetupEnter, SetupPassword, SetupComplete, InsertKey, handleDeleteApiKey, Labels, At
  <2>6. CASE handleLogin(q) \/ handleLogout(q) \/ Commit(q)
    <3>1. \E t \in Tokens \union {Nobody} :
             req' = [req EXCEPT ![q] = Ending(t)] \/ req' = [req EXCEPT ![q] = NoFrame]
      BY <2>6 DEF handleLogin, NewSession, handleLogout, LogoutSession, Commit
    <3> QED BY <1>0, <1>2, <3>1, FrameTypes DEF At
  <2>7. CASE Arrive(q)
    BY <1>0, <1>2, <2>7 DEF Arrive, NoFrame, At
  <2>8. CASE handleCreateNewApiKey(q)
    <3>1. req'[q].pc \in {"insert", "commit"}
      BY <1>0, <2>8 DEF handleCreateNewApiKey, Ending, NoFrame, Frame
    <3> QED BY <1>2, <3>1 DEF At
  <2> QED BY <2>2, <2>3, <2>4, <2>5, <2>6, <2>7, <2>8 DEF Request, Walks
<1> QED BY <1>1, <1>2 DEF Warm

\* A token that was logged out does not come back, once no request carries it.
LEMMA LoggedOutStep ==
    ASSUME AccessInv, [AccessNext]_accessVars, NEW t \in out, ~Held(t)
    PROVE  ~Held(t)'
<1>0. /\ req \in [Requests -> Frame] /\ sessions \subseteq drawn /\ drawn \subseteq Tokens
      /\ t \in drawn /\ t # Nobody /\ t \in Tokens
      /\ t \notin sessions /\ \A q \in Requests : req[q].token # t
  BY AccessAssumption DEF AccessInv, AccessTypeOK, AccessAssumption, SessionInv, Held
<1>1. ASSUME NEW r \in Requests, Request(r) PROVE t \notin sessions' /\ req'[r].token # t
  <2>1. ASSUME NEW l \in Labels, Goto(r, l) PROVE req'[r].token # t
    BY <1>0, <2>1, GotoEffect
  <2>2. CASE Walks(r)
    BY <1>0, <2>1, <2>2, WalkGoes, WalkLeaves DEF Labels
  <2>3. CASE SetupEnter(r) \/ SetupPassword(r) \/ SetupComplete(r) \/ InsertKey(r) \/ handleDeleteApiKey(r)
    BY <1>0, <2>1, <2>3
       DEF SetupEnter, SetupPassword, SetupComplete, InsertKey, handleDeleteApiKey, Labels, dbVars
  <2>4. CASE handleLogin(r)
    <3>1. PICK new \in Tokens \ drawn : req' = [req EXCEPT ![r] = Ending(new)]
      BY <2>4 DEF handleLogin, NewSession
    <3>2. req'[r].token = new
      BY <1>0, <3>1, FrameTypes
    <3> QED BY <1>0, <2>4, <3>2 DEF handleLogin, NewSession
  <2>5. CASE handleLogout(r)
    BY <1>0, <2>5, FrameTypes DEF handleLogout, LogoutSession
  <2>6. CASE Commit(r)
    BY <1>0, <2>6, FrameTypes DEF Commit
  <2>7. CASE Arrive(r)
    <3>1. PICK c : req'[r].token = Load(c)
      BY <1>0, <2>7 DEF Arrive, NoFrame
    <3> QED BY <1>0, <2>7, <3>1 DEF Arrive, Load, dbVars
  <2>8. CASE WarmRead(r)
    <3>1. CASE Goto(r, "handle")
      BY <1>0, <2>1, <2>8, <3>1 DEF WarmRead, Labels, dbVars
    <3>2. CASE \E row \in ByKey(req[r].key) :
                 req' = [req EXCEPT ![r].pc = "store", ![r].grant = row.grant]
      BY <1>0, <2>8, <3>2 DEF WarmRead, Frame, dbVars
    <3> QED BY <2>8, <3>1, <3>2 DEF WarmRead
  <2>9. CASE handleCreateNewApiKey(r)
    <3>1. req'[r].token = req[r].token
      BY <1>0, <2>9 DEF handleCreateNewApiKey, Ending, NoFrame, Frame
    <3> QED BY <1>0, <2>9, <3>1 DEF handleCreateNewApiKey, dbVars
  <2> QED BY <1>1, <2>2, <2>3, <2>4, <2>5, <2>6, <2>7, <2>8, <2>9 DEF Request, Walks
<1>2. ASSUME NEW r \in Requests, Request(r) PROVE ~Held(t)'
  BY <1>0, <1>1, <1>2, FrameStep DEF Held, Alone
<1>3. CASE Restart
  BY <1>0, <1>3, FrameTypes DEF Restart, Held, dbVars
<1>4. CASE SessionExpires \/ Later \/ KeyCacheStep \/ UNCHANGED accessVars
  BY <1>0, <1>4 DEF SessionExpires, Later, KeyCacheStep, accessVars, Held, dbVars
<1> QED BY <1>2, <1>3, <1>4 DEF AccessNext

\* Who was shut out, by the deletion of a key or by a logout, stays out.
THEOREM OutStaysOutCorrect == AccessSpec => OutStaysOut
<1>1. AccessInv /\ [AccessNext]_accessVars => \A k \in DOMAIN issued : ByKey(k) = {} /\ ~Warm(k) => ~Warm(k)'
  BY RevokedStep
<1>2. AccessInv /\ [AccessNext]_accessVars => \A t \in out : ~Held(t) => ~Held(t)'
  BY LoggedOutStep
<1>3. AccessSpec => RevokedDoesNotReturn
  BY <1>1, AccessInvCorrect, PTL DEF AccessSpec, RevokedDoesNotReturn
<1>4. AccessSpec => LoggedOutStaysOut
  BY <1>2, AccessInvCorrect, PTL DEF AccessSpec, LoggedOutStaysOut
<1> QED BY <1>3, <1>4 DEF OutStaysOut
=============================================================================
