-------------------------------- MODULE Acme --------------------------------
(***************************************************************************)
(* Certificates (internal/service/acme_service.go, internal/service/acme,  *)
(* internal/sqlite/acme.go): the stored configuration, account and         *)
(* certificates, the manager that serves and renews certificates, the      *)
(* goroutines that obtain them, and the requests that save, toggle, edit   *)
(* and reset the configuration while they run.                             *)
(*                                                                         *)
(* Every transaction of the store, every critical section of a manager and *)
(* every answer of the CA is a step.  A name is a sequence of labels, with *)
(* "*" for the wildcard; as a user writes it it may also have capitals.    *)
(* The lists the code makes of the names, free of repetitions, are sets    *)
(* here: a pass goes through its batches, and a batch through its names,   *)
(* in any order, the code's among them.                                    *)
(* A certificate is the set of its names and whether it is due, that is    *)
(* within 30 days of its end.                                              *)
(***************************************************************************)
EXTENDS Integers, FiniteSets, Sequences

CONSTANTS
    Admins,       \* goroutines serving management requests
    Workers,      \* goroutines of managers; their number bounds those alive at a time
    Lists,        \* lists of written names: what acme.domains or the routes' hosts may be
    Saves,        \* the configurations that requests save
    Yaml,         \* the acme section of the configuration file, or NoConf
    MaxManagers,  \* bound on the managers of one process
    MaxEvents,    \* bound on what comes from outside: requests, crashes, route changes
                  \* and certificates becoming due
    NoConf

Elements(l) == {l[i] : i \in DOMAIN l}
Written == UNION {Elements(l) : l \in Lists}
Names == {d.labels : d \in Written}
Conf == [enabled : BOOLEAN, ca : {"default", "custom"}, domains : Lists]

ASSUME AcmeAssumption ==
    /\ <<>> \in Lists /\ NoConf \notin Conf
    /\ \A l \in Lists : l \in Seq([labels : Seq(STRING) \ {<<>>}, caps : BOOLEAN])
    /\ Saves \subseteq Conf /\ Yaml \in Conf \union {NoConf}
    /\ IsFiniteSet(Workers) /\ MaxManagers \in Nat \ {0} /\ MaxEvents \in Nat

VARIABLES
    conf,      \* acme_configuration
    account,   \* the row of acme_account: the registration with the CA
    certs,     \* acme_certificate, by domain
    mgrs,      \* the managers made by this process: cancelFunc # nil, and certCache
    current,   \* legoManager, as an index; 0 is nil
    worker,    \* the goroutines in EnsureCertificates
    admin,     \* the frames of requests
    hosts,     \* external: the hosts of the routes on ACME listeners
    events,    \* events so far
    up         \* the process is running

storeVars == <<conf, account, certs>>
mgrVars == <<mgrs, current>>
acmeVars == <<storeVars, mgrVars, worker, admin, hosts, events, up>>

Event == events < MaxEvents /\ events' = events + 1

Empty == [d \in {} |-> 0]
Cert == [names : SUBSET Names, due : BOOLEAN]
\* Certificates by name, as in the table and in the cache of a manager.
IsStore(m) == DOMAIN m \subseteq Names /\ m \in [DOMAIN m -> Cert]

-----------------------------------------------------------------------------
(* Domains (domain.go).                                                    *)

Lower(d) == d.labels
IsWildcard(n) == Len(n) > 1 /\ n[1] = "*"
Wildcard(n) == <<"*">> \o Tail(n)

\* The configured names, or those of the routes.
collectAllDomains == IF conf # NoConf /\ conf.domains # <<>> THEN conf.domains ELSE hosts

\* Mutant: a name is taken for covered when its own wildcard is asked for.
ResolveTooFew(written) ==
    LET unique == {Lower(d) : d \in Elements(written)}
        parents == {Tail(n) : n \in {m \in unique : IsWildcard(m)}}
    IN  {n \in unique : IsWildcard(n) \/ (Tail(n) \notin parents /\ n \notin parents)}

\* Names under a wildcard of the list are left out.
resolveDomains(written) ==
    LET unique == {Lower(d) : d \in Elements(written)}
        parents == {Tail(n) : n \in {m \in unique : IsWildcard(m)}}
    IN  {n \in unique : IsWildcard(n) \/ Len(n) = 1 \/ Tail(n) \notin parents}

\* Wildcards and single labels one by one, the others by their parent.
groupDomainBatches(names) ==
    LET alone == {n \in names : IsWildcard(n) \/ Len(n) = 1}
        grouped == names \ alone
    IN  {{n} : n \in alone} \union {{m \in grouped : Tail(m) = Tail(n)} : n \in grouped}

\* Whether the certificates page shows a certificate as in use.
isCertDomainActive(n, active) ==
    \/ n \in active
    \/ IsWildcard(n) /\ \E host \in active : Len(host) > 1 /\ Tail(host) = Tail(n)
    \/ ~IsWildcard(n) /\ Len(n) > 1 /\ Wildcard(n) \in active

-----------------------------------------------------------------------------
(* Managers (acme.go, certificate.go).                                     *)

\* The key of certCache that answers a handshake for the name.
GetCertificate(cache, n) ==
    {k \in {n} : k \in DOMAIN cache}
    \union {k \in DOMAIN cache : n \notin DOMAIN cache /\ Len(n) > 1 /\ k = Wildcard(n)}

\* Mutant: a certificate that is there is good.
NeverRenewed(cache, n) == n \notin DOMAIN cache

needsRenewal(cache, n) == n \notin DOMAIN cache \/ cache[n].due

\* An account is loaded, or made, registered with the CA and stored.
registerIfNeeded == account' = TRUE
\* What a new manager's cache holds; a store that cannot be read is only logged.
loadCertificatesFromStore == {certs, Empty}

NewManager(started, cache) == [started |-> started, cache |-> cache]
Put(c, k, v) == [x \in DOMAIN c \union {k} |-> IF x = k THEN v ELSE c[x]]

IdleWorker == [pc |-> "idle", mgr |-> 0, loop |-> FALSE, live |-> FALSE, todo |-> {}, left |-> {},
               cert |-> [names |-> {}, due |-> FALSE]]
\* Which goroutine it is makes no difference.
Spawn(m, loop) ==
    LET idle == {w \in Workers : worker[w].pc = "idle"} IN
        /\ idle # {}
        /\ worker' = [worker EXCEPT ![CHOOSE w \in idle : TRUE] = [IdleWorker EXCEPT !.pc = "ensure", !.mgr = m,
                                                               !.loop = loop, !.live = loop]]

\* Start launches the renewal loop, Stop cancels its context; both hold startStopMu.
Start(m) ==
    IF mgrs[m].started THEN UNCHANGED <<mgrs, worker>>
    ELSE Spawn(m, TRUE) /\ mgrs' = [mgrs EXCEPT ![m].started = TRUE]

Stop(m) ==
    /\ mgrs' = [mgrs EXCEPT ![m].started = FALSE]
    /\ worker' = [w \in Workers |-> IF worker[w].mgr = m THEN [worker[w] EXCEPT !.live = FALSE]
                                    ELSE worker[w]]

-----------------------------------------------------------------------------
(* EnsureCertificates and the renewal loop (renewal.go).                   *)

Step(w, pc) == worker' = [worker EXCEPT ![w].pc = pc]
\* What a worker turns to after its last batch: a loop waits, a notified one ends.
After(w) == IF worker[w].loop
            THEN [IdleWorker EXCEPT !.pc = "wait", !.mgr = worker[w].mgr, !.loop = TRUE, !.live = worker[w].live]
            ELSE IdleWorker

EnsureCertificates(w) ==
    LET cache == mgrs[worker[w].mgr].cache
        need == {n \in resolveDomains(collectAllDomains) : needsRenewal(cache, n)}
    IN  /\ worker[w].pc = "ensure"
        /\ worker' = [worker EXCEPT ![w] = IF need = {} THEN After(w)
                          ELSE [@ EXCEPT !.pc = "obtain", !.todo = groupDomainBatches(need)]]
        /\ UNCHANGED <<storeVars, mgrVars, admin, hosts, events, up>>

\* The worker with the batches that are left of its pass.
NextBatch(w, rest) == IF rest = {} THEN After(w)
                      ELSE [worker[w] EXCEPT !.pc = "obtain", !.todo = rest, !.left = {}]

\* Mutant: the certificate of a batch is cached for all the names that are needed.
CacheForAll(w) ==
    /\ worker[w].pc = "obtain"
    /\ \E batch \in worker[w].todo :
         LET cert == [names |-> batch, due |-> FALSE]
             all == UNION worker[w].todo
         IN  /\ mgrs' = [mgrs EXCEPT ![worker[w].mgr].cache =
                             [n \in DOMAIN @ \union all |-> IF n \in all THEN cert ELSE @[n]]]
             /\ worker' = [worker EXCEPT ![w] = [worker[w] EXCEPT !.pc = "persist", !.left = batch,
                                                     !.todo = @ \ {batch}, !.cert = cert]]
    /\ UNCHANGED <<storeVars, current, admin, hosts, events, up>>

\* The CA issues the certificate for a batch; it is cached under each of its names.
ObtainCertificate(w) ==
    /\ worker[w].pc = "obtain"
    /\ \E batch \in worker[w].todo :
         LET cert == [names |-> batch, due |-> FALSE]
         IN  /\ mgrs' = [mgrs EXCEPT ![worker[w].mgr].cache =
                             [n \in DOMAIN @ \union batch |-> IF n \in batch THEN cert ELSE @[n]]]
             /\ worker' = [worker EXCEPT ![w] = [worker[w] EXCEPT !.pc = "persist", !.left = batch,
                                                     !.todo = @ \ {batch}, !.cert = cert]]
    /\ UNCHANGED <<storeVars, current, admin, hosts, events, up>>

ObtainFails(w) ==
    /\ worker[w].pc = "obtain"
    /\ \E batch \in worker[w].todo :
         worker' = [worker EXCEPT ![w] = NextBatch(w, worker[w].todo \ {batch})]
    /\ UNCHANGED <<storeVars, mgrVars, admin, hosts, events, up>>

\* One row per name; an error is logged and the next name follows.
SaveCertificate(w) ==
    /\ worker[w].pc = "persist"
    /\ \E n \in worker[w].left :
         /\ certs' \in {Put(certs, n, worker[w].cert), certs}
         /\ worker' = [worker EXCEPT ![w] = IF worker[w].left = {n} THEN NextBatch(w, worker[w].todo)
                                            ELSE [worker[w] EXCEPT !.left = @ \ {n}]]
    /\ UNCHANGED <<conf, account, mgrVars, admin, hosts, events, up>>

\* The loop's select: the ticker, or the end of a cancelled context.
RenewalTick(w) ==
    /\ worker[w].pc = "wait" /\ worker[w].live
    /\ Step(w, "ensure")
    /\ UNCHANGED <<storeVars, mgrVars, admin, hosts, events, up>>

LoopEnds(w) ==
    /\ worker[w].pc = "wait" /\ ~worker[w].live
    /\ worker' = [worker EXCEPT ![w] = IdleWorker]
    /\ UNCHANGED <<storeVars, mgrVars, admin, hosts, events, up>>

Work(w) == EnsureCertificates(w) \/ ObtainCertificate(w) \/ ObtainFails(w) \/ SaveCertificate(w)
           \/ RenewalTick(w) \/ LoopEnds(w)

-----------------------------------------------------------------------------
(* The service's operations, as requests (handler_acme.go).                *)

IdleAdmin == [pc |-> "idle", conf |-> NoConf, mgr |-> 0]
At(a, pc) == admin[a].pc = pc
Go(a, pc) == admin' = [admin EXCEPT ![a].pc = pc]
Leave(a) == admin' = [admin EXCEPT ![a] = IdleAdmin]
Hold(a, pc, c, m) == admin' = [admin EXCEPT ![a] = [pc |-> pc, conf |-> c, mgr |-> m]]

\* NotifyDomainsChanged: one more pass over the domains, when the manager is started.
NotifyDomainsChanged == IF current # 0 /\ mgrs[current].started THEN Spawn(current, FALSE) ELSE UNCHANGED worker

SaveRequest(a) ==
    /\ up /\ At(a, "idle") /\ Event /\ conf = NoConf
    /\ \E c \in Saves : Hold(a, "save", c, 0)
    /\ UNCHANGED <<storeVars, mgrVars, worker, hosts, up>>

\* The write of Save, Toggle and UpdateDomains: it may fail, and ends the request then.
SaveConfiguration(a) ==
    /\ At(a, "save") \/ At(a, "toggle") \/ At(a, "domains")
    /\ \/ conf' = admin[a].conf
          /\ Go(a, CASE At(a, "save") -> "init" [] At(a, "toggle") -> "switch" [] OTHER -> "notify")
       \/ UNCHANGED conf /\ Leave(a)
    /\ UNCHANGED <<account, certs, mgrVars, worker, hosts, events, up>>

\* initializeLegoAcmeManager up to the CompareAndSwap.  A configuration that was reset
\* meanwhile ends the handler; creating the manager may fail before or after registration.
CreateManager(a) ==
    /\ At(a, "init")
    /\ \/ /\ current = 0 /\ conf # NoConf /\ Len(mgrs) < MaxManagers
          /\ registerIfNeeded
          /\ \E cache \in loadCertificatesFromStore : mgrs' = Append(mgrs, NewManager(FALSE, cache))
          /\ Hold(a, "swap", conf, Len(mgrs) + 1)
       \/ /\ account' \in IF conf = NoConf THEN {account} ELSE {account, TRUE}
          /\ UNCHANGED mgrs /\ Leave(a)
    /\ UNCHANGED <<conf, certs, current, worker, hosts, events, up>>

SwapIn(a) ==
    /\ At(a, "swap")
    /\ IF current = 0
       THEN current' = admin[a].mgr /\ IF admin[a].conf.enabled THEN Go(a, "start") ELSE Leave(a)
       ELSE UNCHANGED current /\ Leave(a)
    /\ UNCHANGED <<storeVars, mgrs, worker, hosts, events, up>>

StartCreated(a) ==
    /\ At(a, "start")
    /\ Start(admin[a].mgr)
    /\ Leave(a)
    /\ UNCHANGED <<storeVars, current, hosts, events, up>>

\* Toggle without a configuration or a manager is refused.
ToggleEnabled(a) ==
    /\ up /\ At(a, "idle") /\ Event /\ conf # NoConf /\ current # 0
    /\ \E e \in BOOLEAN : Hold(a, "toggle", [conf EXCEPT !.enabled = e], current)
    /\ UNCHANGED <<storeVars, mgrVars, worker, hosts, up>>

Switch(a) ==
    /\ At(a, "switch")
    /\ IF admin[a].conf.enabled THEN Start(admin[a].mgr) ELSE Stop(admin[a].mgr)
    /\ Leave(a)
    /\ UNCHANGED <<storeVars, current, hosts, events, up>>

UpdateDomains(a) ==
    /\ up /\ At(a, "idle") /\ Event /\ conf # NoConf
    /\ \E l \in Lists : Hold(a, "domains", [conf EXCEPT !.domains = l], 0)
    /\ UNCHANGED <<storeVars, mgrVars, worker, hosts, up>>

NotifyUpdated(a) ==
    /\ At(a, "notify")
    /\ NotifyDomainsChanged
    /\ Leave(a)
    /\ UNCHANGED <<storeVars, mgrVars, hosts, events, up>>

ResetAll(a) ==
    /\ up /\ At(a, "idle") /\ Event
    /\ current' = 0
    /\ Hold(a, IF current = 0 THEN "wipe" ELSE "halt", NoConf, current)
    /\ UNCHANGED <<storeVars, mgrs, worker, hosts, up>>

\* Mutant: the manager is dropped and its renewal loop goes on.
HaltForgotten(a) ==
    /\ At(a, "halt")
    /\ Go(a, "wipe")
    /\ UNCHANGED <<storeVars, mgrVars, worker, hosts, events, up>>

ResetStops(a) ==
    /\ At(a, "halt")
    /\ Stop(admin[a].mgr)
    /\ Go(a, "wipe")
    /\ UNCHANGED <<storeVars, current, hosts, events, up>>

\* The certificates are revoked, and the store is emptied in one transaction, which may fail.
StoreResetAll(a) ==
    /\ At(a, "wipe")
    /\ \/ /\ conf' = NoConf /\ account' = FALSE /\ certs' = Empty
          /\ IF admin[a].mgr = 0 THEN Leave(a) ELSE Go(a, "clear")
       \/ UNCHANGED storeVars /\ Leave(a)
    /\ UNCHANGED <<mgrVars, worker, hosts, events, up>>

ResetClears(a) ==
    /\ At(a, "clear")
    /\ mgrs' = [mgrs EXCEPT ![admin[a].mgr].cache = Empty]
    /\ Leave(a)
    /\ UNCHANGED <<storeVars, current, worker, hosts, events, up>>

Request(a) ==
    \/ SaveRequest(a) \/ SaveConfiguration(a) \/ CreateManager(a) \/ SwapIn(a) \/ StartCreated(a)
    \/ ToggleEnabled(a) \/ Switch(a) \/ UpdateDomains(a) \/ NotifyUpdated(a)
    \/ ResetAll(a) \/ ResetStops(a) \/ StoreResetAll(a) \/ ResetClears(a)

-----------------------------------------------------------------------------
(* The process.                                                            *)

\* SeedFromYAML, when nothing is stored.
SeedFromYAML == IF conf = NoConf THEN Yaml ELSE conf
IsValid(c) == c.ca = "custom"

\* NewAcmeService and Start.  The manager is started whatever the configuration says.
BootManager ==
    /\ ~up /\ SeedFromYAML # NoConf /\ IsValid(SeedFromYAML)
    /\ conf' = SeedFromYAML /\ registerIfNeeded
    /\ \E cache \in loadCertificatesFromStore : mgrs' = <<NewManager(TRUE, cache)>>
    /\ current' = 1 /\ up' = TRUE
    /\ Spawn(1, TRUE)
    /\ UNCHANGED <<certs, admin, hosts, events>>

\* The registration, or another step of NewLegoAcmeManager, fails.
BootFails ==
    /\ ~up /\ SeedFromYAML # NoConf /\ IsValid(SeedFromYAML)
    /\ conf' = SeedFromYAML /\ account' \in {account, TRUE} /\ up' = TRUE
    /\ UNCHANGED <<certs, mgrVars, worker, admin, hosts, events>>

BootWithout ==
    /\ ~up /\ (SeedFromYAML = NoConf \/ ~IsValid(SeedFromYAML))
    /\ conf' = SeedFromYAML /\ up' = TRUE
    /\ UNCHANGED <<account, certs, mgrVars, worker, admin, hosts, events>>

Crash ==
    /\ up /\ up' = FALSE /\ Event
    /\ mgrs' = <<>> /\ current' = 0
    /\ worker' = [w \in Workers |-> IdleWorker]
    /\ admin' = [a \in Admins |-> IdleAdmin]
    /\ UNCHANGED <<storeVars, hosts>>

\* A proxy is added or edited (system.go calls NotifyDomainsChanged).
RoutesChange ==
    /\ up /\ Event
    /\ hosts' \in Lists \ {hosts}
    /\ NotifyDomainsChanged
    /\ UNCHANGED <<storeVars, mgrVars, admin, up>>

\* External: certificates come within 30 days of their end.
Due(m) == [n \in DOMAIN m |-> [m[n] EXCEPT !.due = TRUE]]
CertificatesAge ==
    /\ Event
    /\ certs' = Due(certs)
    /\ mgrs' = [i \in DOMAIN mgrs |-> [mgrs[i] EXCEPT !.cache = Due(@)]]
    /\ worker' = [w \in Workers |-> IF worker[w].pc = "persist"
                                    THEN [worker[w] EXCEPT !.cert = [@ EXCEPT !.due = TRUE]]
                                    ELSE worker[w]]
    /\ UNCHANGED <<conf, account, current, admin, hosts, up>>

AcmeInit ==
    /\ conf = NoConf /\ account = FALSE /\ certs = Empty
    /\ mgrs = <<>> /\ current = 0
    /\ worker = [w \in Workers |-> IdleWorker]
    /\ admin = [a \in Admins |-> IdleAdmin]
    /\ hosts = <<>> /\ events = 0 /\ up = FALSE

AcmeNext ==
    \/ \E w \in Workers : Work(w)
    \/ \E a \in Admins : Request(a)
    \/ BootManager \/ BootFails \/ BootWithout \/ Crash \/ RoutesChange \/ CertificatesAge

AcmeSpec == AcmeInit /\ [][AcmeNext]_acmeVars

\* Goroutines go on, the ticker fires, and a CA that is asked again and
\* again issues a certificate in the end.
AcmeFairSpec ==
    /\ AcmeSpec
    /\ \A w \in Workers : WF_acmeVars(Work(w)) /\ SF_acmeVars(ObtainCertificate(w))

-----------------------------------------------------------------------------
Asked == {Lower(d) : d \in Elements(collectAllDomains)}

\* The types of the tables, managers and goroutines.
AcmeTypeOK ==
    /\ conf \in Conf \union {NoConf} /\ account \in BOOLEAN /\ IsStore(certs)
    /\ \A i \in 1 .. Len(mgrs) : mgrs[i].started \in BOOLEAN /\ IsStore(mgrs[i].cache)
    /\ current \in 0 .. Len(mgrs) /\ Len(mgrs) <= MaxManagers
    /\ worker \in [Workers -> [pc : {"idle", "ensure", "obtain", "persist", "wait"},
                               mgr : 0 .. Len(mgrs), loop : BOOLEAN, live : BOOLEAN,
                               todo : SUBSET SUBSET Names, left : SUBSET Names, cert : Cert]]
    /\ admin \in [Admins -> [pc : {"idle", "save", "toggle", "domains", "init", "switch", "notify",
                                   "swap", "start", "halt", "wipe", "clear"},
                             conf : Conf \union {NoConf}, mgr : 0 .. Len(mgrs)]]
    /\ hosts \in Lists /\ events \in 0 .. MaxEvents /\ up \in BOOLEAN

\* The certificate that answers a handshake is valid for the name that was asked for,
\* from the cache of any manager and from the store a restarted one loads: passes of
\* different lists, renewals and resets never file a certificate under a foreign name.
ServedCovers ==
    \A m \in {certs} \union {mgrs[i].cache : i \in DOMAIN mgrs} :
        \A n \in Names : \A k \in GetCertificate(m, n) :
            n \in m[k].names \/ (Len(n) > 1 /\ Wildcard(n) \in m[k].names)

\* A pass asks the CA for what is missing: each name that is asked for has a certificate
\* that is not due, or will be in one of the pass's batches, by itself or by a wildcard.
PassCovers(w) ==
    LET cache == mgrs[worker[w].mgr].cache
        got == {n \in DOMAIN cache : ~cache[n].due} \union UNION worker'[w].todo
    IN  \A n \in Asked : n \in got \/ (Len(n) > 1 /\ Wildcard(n) \in got)
NothingForgotten ==
    [][\A w \in Workers : worker[w].pc = "ensure" /\ worker'[w].pc # "ensure" /\ up'
                             => PassCovers(w)]_acmeVars

\* Wildcards are issued individually, and no name is in two certificates of a pass
\* (renewal.go:30, the CA's rate limits).
BatchesApart ==
    \A w \in Workers : \A batch \in worker[w].todo :
        /\ \A other \in worker[w].todo \ {batch} : batch \intersect other = {}
        /\ batch \intersect worker[w].left = {}
        /\ (\E n \in batch : IsWildcard(n)) => \A n, m \in batch : n = m

\* A certificate that serves one of the names in use is shown as active, whether it is
\* filed under the name or under a wildcard.
ShownActive ==
    \A n \in Asked : \A k \in GetCertificate(certs, n) : isCertDomainActive(k, Asked)

\* A manager has one renewal loop while it is started and none once it is stopped, over
\* any sequence of saves, toggles, resets and restarts of the process.
OneLoop ==
    \A m \in DOMAIN mgrs :
        Cardinality({w \in Workers : worker[w].mgr = m /\ worker[w].live})
            = IF mgrs[m].started THEN 1 ELSE 0

\* With one administrator at work, only the manager in use renews certificates: a reset
\* leaves no loop behind that goes on asking the CA with the old account.
StartedIsCurrent ==
    \A m \in DOMAIN mgrs : mgrs[m].started =>
        m = current \/ \E a \in Admins : At(a, "halt") /\ admin[a].mgr = m

Undisturbed == current # 0 /\ mgrs[current].started /\ \A a \in Admins : At(a, "idle")

\* While a manager stays started and nobody edits the configuration, each name that is
\* asked for has, again and again, a certificate of its own that is not due, unless the
\* wildcard above it is asked for as well.
Renewed ==
    <>[]Undisturbed =>
    []<>(current # 0 /\ \A n \in Asked :
            \/ n \in DOMAIN mgrs[current].cache /\ ~mgrs[current].cache[n].due
            \/ ~IsWildcard(n) /\ Len(n) > 1 /\ Wildcard(n) \in Asked)

\* What the documentation says of wildcards, that one certificate covers all names below
\* it: then each name that is asked for is served by a certificate that is not due.
CoveredAreServed ==
    <>[]Undisturbed =>
    []<>(current # 0 /\ \A n \in Asked : \E k \in GetCertificate(mgrs[current].cache, n) :
            ~mgrs[current].cache[k].due)

\* Handshakes and the certificates page agree on what is served: a certificate for the
\* name that is asked for, shown as active.
CertificatesServe == ServedCovers /\ ShownActive

\* The renewal loops are those of the managers in use, one each, over any sequence of
\* saves, toggles, resets and restarts.
LoopsMatch == AcmeTypeOK /\ OneLoop /\ StartedIsCurrent

\* A pass asks the CA for everything that is missing, and for nothing twice.
PassesComplete == []BatchesApart /\ NothingForgotten
=============================================================================
