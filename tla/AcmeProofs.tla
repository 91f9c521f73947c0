----------------------------- MODULE AcmeProofs -----------------------------
(***************************************************************************)
(* Proofs about the certificates of Acme: what is filed under a name       *)
(* serves it, a pass forgets nothing and asks for nothing twice, and each  *)
(* started manager has one renewal loop.                                   *)
(***************************************************************************)
EXTENDS Acme, FiniteSetTheorems, SequenceTheorems, TLAPS

Stores == UNION {[D -> Cert] : D \in SUBSET Names}
\* Certificates filed under names of their own.
FiledStores == {m \in Stores : \A n \in DOMAIN m : n \in m[n].names}
Manager == [started : BOOLEAN, cache : FiledStores]
Worker == [pc : {"idle", "ensure", "obtain", "persist", "wait"}, mgr : Nat, loop : BOOLEAN,
           live : BOOLEAN, todo : SUBSET SUBSET Names, left : SUBSET Names, cert : Cert]
Frame == [pc : {"idle", "save", "toggle", "domains", "init", "switch", "notify",
                "swap", "start", "halt", "wipe", "clear"},
          conf : Conf \union {NoConf}, mgr : Nat]

TypeInv ==
    /\ conf \in Conf \union {NoConf} /\ account \in BOOLEAN /\ certs \in FiledStores
    /\ mgrs \in Seq(Manager) /\ Len(mgrs) <= MaxManagers /\ current \in 0 .. Len(mgrs)
    /\ worker \in [Workers -> Worker] /\ admin \in [Admins -> Frame]
    /\ hosts \in Lists /\ events \in 0 .. MaxEvents /\ up \in BOOLEAN

\* A goroutine belongs to a manager, and has batches and names only while it obtains them.
WorkerOK(r, count) ==
    /\ r.mgr <= count /\ (r.pc # "idle" => r.mgr # 0)
    /\ r.pc \in {"idle", "ensure", "wait"} => r.todo = {} /\ r.left = {}
    /\ r.pc = "idle" => ~r.live
    /\ r.live => r.loop
    /\ r.pc = "obtain" => r.left = {}
    /\ r.left \subseteq r.cert.names
Apart(r) ==
    \A batch \in r.todo :
        /\ \A other \in r.todo \ {batch} : batch \intersect other = {}
        /\ batch \intersect r.left = {}
        /\ (\E n \in batch : IsWildcard(n)) => \A n, m \in batch : n = m
WorkersOK == \A w \in Workers : WorkerOK(worker[w], Len(mgrs)) /\ Apart(worker[w])

FrameOK(r, count) ==
    /\ r.mgr <= count
    /\ r.pc \in {"toggle", "switch", "swap", "start", "halt", "clear"} => r.mgr # 0
FramesOK == \A a \in Admins : FrameOK(admin[a], Len(mgrs))

\* Live loops and started managers belong together, one to one.
LoopsOK ==
    /\ \A m \in DOMAIN mgrs : mgrs[m].started => \E w \in Workers : worker[w].live /\ worker[w].mgr = m
    /\ \A w \in Workers : worker[w].live => mgrs[worker[w].mgr].started
    /\ \A w, v \in Workers : worker[w].live /\ worker[v].live /\ worker[w].mgr = worker[v].mgr => w = v

DownOK ==
    ~up => /\ mgrs = <<>> /\ current = 0
           /\ \A w \in Workers : worker[w].pc = "idle"
           /\ \A a \in Admins : admin[a].pc = "idle"

AcmeInv == TypeInv /\ WorkersOK /\ FramesOK /\ LoopsOK /\ DownOK

\* What one administrator holds is in use.
HeldIsCurrent ==
    \A a \in Admins : admin[a].pc \in {"toggle", "switch", "start"} => admin[a].mgr = current

-----------------------------------------------------------------------------
(* Stores.                                                                 *)

\* A store is a function from names to certificates.
LEMMA StoreFacts ==
    \A m : m \in FiledStores <=> IsStore(m) /\ \A n \in DOMAIN m : n \in m[n].names
BY DEF FiledStores, Stores, IsStore

\* In a store without certificates each is filed under a name of its own.
LEMMA StoreEmpty == Empty \in FiledStores
BY StoreFacts DEF IsStore, Empty

\* Put of a certificate under one of its names keeps certificates under their names.
LEMMA StorePut ==
    ASSUME NEW c \in FiledStores, NEW k \in Names, NEW v \in Cert, k \in v.names
    PROVE  Put(c, k, v) \in FiledStores
BY StoreFacts DEF IsStore, Put

\* So does ObtainCertificate, which files one certificate under each name of its batch.
LEMMA StoreCached ==
    ASSUME NEW c \in FiledStores, NEW batch \in SUBSET Names
    PROVE  [n \in DOMAIN c \union batch |->
                IF n \in batch THEN [names |-> batch, due |-> FALSE] ELSE c[n]] \in FiledStores
<1> DEFINE cert == [names |-> batch, due |-> FALSE]
           d == [n \in DOMAIN c \union batch |-> IF n \in batch THEN cert ELSE c[n]]
<1>1. IsStore(c) /\ \A n \in DOMAIN c : n \in c[n].names
  BY StoreFacts
<1>2. cert \in Cert /\ cert.names = batch
  BY DEF Cert
<1> HIDE DEF cert
<1>3. ASSUME NEW n \in DOMAIN c \union batch
      PROVE  d[n] \in Cert /\ n \in d[n].names
  BY <1>1, <1>2 DEF IsStore
<1>4. IsStore(d)
  BY <1>1, <1>3 DEF IsStore
<1> QED
  BY <1>3, <1>4, StoreFacts DEF cert

\* So does time: a certificate that comes to be due keeps its names.
LEMMA StoreDue ==
    ASSUME NEW c \in FiledStores
    PROVE  Due(c) \in FiledStores
<1>1. IsStore(c) /\ \A n \in DOMAIN c : n \in c[n].names
  BY StoreFacts
<1>2. ASSUME NEW n \in DOMAIN c
      PROVE  [c[n] EXCEPT !.due = TRUE] \in Cert /\ n \in [c[n] EXCEPT !.due = TRUE].names
  BY <1>1 DEF IsStore, Cert
<1> QED
  BY <1>1, <1>2, StoreFacts DEF IsStore, Due

-----------------------------------------------------------------------------
(* Names.                                                                  *)

Label == STRING \union {"*"}

\* A name is a sequence of labels that is not empty.
LEMMA NamesAreSequences == \A n \in Names : n \in Seq(Label) /\ n # <<>> /\ Len(n) >= 1
<1>1. ASSUME NEW n \in Names
      PROVE  n \in Seq(Label) /\ n # <<>>
  <2>0. PICK l \in Lists : \E i \in DOMAIN l : n = l[i].labels
    BY DEF Names, Written, Elements
  <2>1. PICK i \in DOMAIN l : n = l[i].labels
    BY <2>0
  <2>2. l \in Seq([labels : Seq(STRING) \ {<<>>}, caps : BOOLEAN])
    BY AcmeAssumption
  <2>3. l[i] \in [labels : Seq(STRING) \ {<<>>}, caps : BOOLEAN]
    BY <2>2, ElementOfSeq, LenProperties
  <2> QED
    BY <2>1, <2>3, SeqMonotonic DEF Label
<1> QED
  BY <1>1

\* The wildcard of a name has the name's parent, and is the only wildcard that has it.
LEMMA WildcardFacts ==
    ASSUME NEW n \in Seq(Label), Len(n) > 1
    PROVE  /\ Wildcard(n) \in Seq(Label) /\ IsWildcard(Wildcard(n))
           /\ Tail(Wildcard(n)) = Tail(n)
           /\ \A m \in Seq(Label) : IsWildcard(m) /\ Tail(m) = Tail(n) => m = Wildcard(n)
<1>1. Tail(n) \in Seq(Label) /\ Len(Tail(n)) = Len(n) - 1
  OBVIOUS
<1>2. Wildcard(n) \in Seq(Label) /\ Len(Wildcard(n)) = Len(n) /\ Wildcard(n)[1] = "*"
  <2> DEFINE star == <<"*">>
  <2>1. star \in Seq(Label) /\ Len(star) = 1 /\ star[1] = "*"
    <3>1. star[1] = "*"
      OBVIOUS
    <3>2. star \in Seq(Label)
      BY DEF Label
    <3>3. Len(star) = 1
      OBVIOUS
    <3> QED
      BY <3>1, <3>2, <3>3
  <2>0. Wildcard(n) = star \o Tail(n)
    BY DEF Wildcard
  <2> HIDE DEF star
  <2>2. /\ Wildcard(n) \in Seq(Label) /\ Len(Wildcard(n)) = 1 + Len(Tail(n))
        /\ \A i \in 1 .. 1 + Len(Tail(n)) :
               Wildcard(n)[i] = IF i <= 1 THEN star[i] ELSE Tail(n)[i - 1]
    <3> HIDE DEF star
    <3>1. /\ star \o Tail(n) \in Seq(Label) /\ Len(star \o Tail(n)) = Len(star) + Len(Tail(n))
          /\ \A i \in 1 .. Len(star) + Len(Tail(n)) :
                (star \o Tail(n))[i] = IF i <= Len(star) THEN star[i] ELSE Tail(n)[i - Len(star)]
      BY <2>1, <1>1, ConcatProperties, Zenon
    <3> QED
      BY <3>1, <2>0, <2>1, Zenon
  <2> QED
    BY <2>1, <2>2, <1>1
<1>3. Tail(Wildcard(n)) = Tail(n)
  BY <1>1, <1>2 DEF Wildcard
<1>4. ASSUME NEW m \in Seq(Label), IsWildcard(m), Tail(m) = Tail(n)
      PROVE  m = Wildcard(n)
  <2>1. Len(m) = Len(n)
    BY <1>4, <1>1 DEF IsWildcard
  <2>2. ASSUME NEW i \in 1 .. Len(n)
        PROVE  m[i] = Wildcard(n)[i]
    <3>1. CASE i = 1
      BY <3>1, <1>4, <1>2 DEF IsWildcard
    <3>2. CASE i > 1
      <4>1. m[i] = Tail(m)[i - 1] /\ Wildcard(n)[i] = Tail(Wildcard(n))[i - 1]
        BY <3>2, <2>1, <1>2, <1>4
      <4> QED
        BY <4>1, <1>4, <1>3
    <3> QED
      BY <3>1, <3>2
  <2> QED
    BY <2>1, <2>2, <1>2
<1> QED
  BY <1>2, <1>3, <1>4 DEF IsWildcard

\* The names that are asked for are names of lists, and so are those resolveDomains keeps.
LEMMA AskedFacts ==
    ASSUME TypeInv
    PROVE  /\ collectAllDomains \in Lists
           /\ Asked \subseteq Names
           /\ resolveDomains(collectAllDomains) \subseteq Asked
<1>1. collectAllDomains \in Lists
  BY DEF TypeInv, collectAllDomains, Conf
<1>2. Asked \subseteq Names
  BY <1>1 DEF Asked, Names, Written, Lower
<1> QED
  BY <1>1, <1>2 DEF resolveDomains, Asked

\* resolveDomains keeps each name that is asked for, or the wildcard above it.
LEMMA ResolveComplete ==
    ASSUME TypeInv, NEW n \in Asked
    PROVE  \/ n \in resolveDomains(collectAllDomains)
           \/ Len(n) > 1 /\ Wildcard(n) \in resolveDomains(collectAllDomains)
<1> DEFINE parents == {Tail(m) : m \in {k \in Asked : IsWildcard(k)}}
<1>1. resolveDomains(collectAllDomains)
          = {m \in Asked : IsWildcard(m) \/ Len(m) = 1 \/ Tail(m) \notin parents}
  BY DEF resolveDomains, Asked
<1>2. n \in Seq(Label) /\ Len(n) >= 1 /\ Len(n) \in Nat
  BY AskedFacts, NamesAreSequences
<1>3. CASE ~IsWildcard(n) /\ Len(n) # 1 /\ Tail(n) \in parents
  <2>1. PICK m \in Asked : IsWildcard(m) /\ Tail(m) = Tail(n)
    BY <1>3
  <2>2. m \in Seq(Label)
    BY AskedFacts, NamesAreSequences
  <2>3. Len(n) > 1
    <3>1. Len(n) # 1
      BY <1>3
    <3>2. \A k \in Nat : k >= 1 /\ k # 1 => k > 1
      OBVIOUS
    <3> QED
      BY <3>1, <3>2, <1>2, Zenon
  <2>4. m = Wildcard(n)
    BY <2>1, <2>2, <2>3, <1>2, WildcardFacts
  <2> QED
    BY <2>1, <2>3, <2>4, <1>1
<1> QED
  BY <1>1, <1>3

\* The batches of groupDomainBatches hold the names they are made of, each once, and a
\* wildcard has a batch of its own.
LEMMA GroupFacts ==
    ASSUME NEW names \in SUBSET Names
    PROVE  /\ groupDomainBatches(names) \in SUBSET SUBSET Names
           /\ UNION groupDomainBatches(names) = names
           /\ \A b, c \in groupDomainBatches(names) : b # c => b \intersect c = {}
           /\ \A b \in groupDomainBatches(names) :
                 (\E n \in b : IsWildcard(n)) => \A n, m \in b : n = m
<1> DEFINE alone == {n \in names : IsWildcard(n) \/ Len(n) = 1}
           grouped == names \ alone
<1>1. groupDomainBatches(names)
          = {{n} : n \in alone} \union {{m \in grouped : Tail(m) = Tail(n)} : n \in grouped}
  BY DEF groupDomainBatches
<1>2. groupDomainBatches(names) \in SUBSET SUBSET Names
  BY <1>1
<1>3. ASSUME NEW n \in names
      PROVE  \E b \in groupDomainBatches(names) : n \in b
  <2>1. CASE n \in alone
    BY <2>1, <1>1
  <2>2. CASE n \in grouped
    <3>1. {m \in grouped : Tail(m) = Tail(n)} \in groupDomainBatches(names)
      BY <2>2, <1>1
    <3> QED
      BY <2>2, <3>1
  <2> QED
    BY <2>1, <2>2
<1>4. UNION groupDomainBatches(names) = names
  BY <1>1, <1>3
<1>5. ASSUME NEW b \in groupDomainBatches(names), NEW c \in groupDomainBatches(names),
             NEW x \in b, x \in c
      PROVE  b = c
  <2>1. CASE x \in alone
    BY <2>1, <1>1, <1>5
  <2>2. CASE x \in grouped
    <3>1. b = {m \in grouped : Tail(m) = Tail(x)} /\ c = {m \in grouped : Tail(m) = Tail(x)}
      BY <2>2, <1>1, <1>5
    <3> QED
      BY <3>1
  <2> QED
    BY <2>1, <2>2, <1>1
<1>6. ASSUME NEW b \in groupDomainBatches(names), NEW x \in b, IsWildcard(x)
      PROVE  \A n, m \in b : n = m
  BY <1>1, <1>6
<1> QED
  BY <1>2, <1>4, <1>5, <1>6
-----------------------------------------------------------------------------
(* Goroutines.                                                             *)

\* A step of one goroutine keeps the others as they are.
LEMMA WorkerStep ==
    ASSUME AcmeInv, NEW w \in Workers, NEW r \in Worker, Len(mgrs') = Len(mgrs),
           worker' = [worker EXCEPT ![w] = r], WorkerOK(r, Len(mgrs)), Apart(r)
    PROVE  worker' \in [Workers -> Worker] /\ WorkersOK'
<1>1. worker' \in [Workers -> Worker]
  BY DEF AcmeInv, TypeInv
<1>2. ASSUME NEW v \in Workers
      PROVE  WorkerOK(worker'[v], Len(mgrs)) /\ Apart(worker'[v])
  BY DEF AcmeInv, TypeInv, WorkersOK
<1> QED
  BY <1>1, <1>2 DEF WorkersOK

\* Loops and managers belong together as before when the same managers are started and
\* the same goroutines are live, for the same managers.
LEMMA LoopsKept ==
    ASSUME AcmeInv, DOMAIN mgrs' = DOMAIN mgrs,
           \A m \in DOMAIN mgrs : mgrs'[m].started <=> mgrs[m].started,
           \A v \in Workers : (worker'[v].live <=> worker[v].live)
                              /\ (worker[v].live => worker'[v].mgr = worker[v].mgr)
    PROVE  LoopsOK'
<1>1. ASSUME NEW v \in Workers, worker[v].live
      PROVE  worker[v].mgr \in DOMAIN mgrs
  <2>1. worker[v] \in Worker /\ mgrs \in Seq(Manager) /\ WorkerOK(worker[v], Len(mgrs))
    BY DEF AcmeInv, TypeInv, WorkersOK
  <2>2. worker[v].mgr \in Nat /\ worker[v].mgr <= Len(mgrs) /\ worker[v].mgr # 0
    BY <1>1, <2>1 DEF Worker, WorkerOK
  <2> QED
    BY <2>1, <2>2
<1>2. /\ \A m \in DOMAIN mgrs : mgrs[m].started =>
            \E v \in Workers : worker[v].live /\ worker[v].mgr = m
      /\ \A v \in Workers : worker[v].live => mgrs[worker[v].mgr].started
      /\ \A v, u \in Workers :
            worker[v].live /\ worker[u].live /\ worker[v].mgr = worker[u].mgr => v = u
  BY DEF AcmeInv, LoopsOK
<1>3. \A m \in DOMAIN mgrs' : mgrs'[m].started =>
          \E v \in Workers : worker'[v].live /\ worker'[v].mgr = m
  BY <1>2, Zenon
<1>4. \A v \in Workers : worker'[v].live => mgrs'[worker'[v].mgr].started
  BY <1>1, <1>2, Zenon
<1>5. \A v, u \in Workers :
          worker'[v].live /\ worker'[u].live /\ worker'[v].mgr = worker'[u].mgr => v = u
  BY <1>2, Zenon
<1> QED
  BY <1>3, <1>4, <1>5 DEF LoopsOK

\* A goroutine that is not running belongs to no manager and holds nothing.
LEMMA IdleFacts ==
    /\ IdleWorker \in Worker /\ Apart(IdleWorker) /\ \A k \in Nat : WorkerOK(IdleWorker, k)
    /\ IdleWorker.live = FALSE /\ IdleWorker.pc = "idle"
BY DEF IdleWorker, Worker, WorkerOK, Apart, Cert

\* The goroutine that Spawn starts is for its manager, live when it is a loop.
LEMMA SpawnFacts ==
    ASSUME AcmeInv, NEW m \in Nat \ {0}, NEW loop \in BOOLEAN, Spawn(m, loop)
    PROVE  \E v \in Workers : \E r \in Worker :
               /\ worker[v].pc = "idle" /\ worker' = [worker EXCEPT ![v] = r]
               /\ r.pc = "ensure" /\ r.mgr = m /\ r.live = loop /\ Apart(r)
               /\ \A count \in Nat : m <= count => WorkerOK(r, count)
<1> DEFINE idle == {w \in Workers : worker[w].pc = "idle"}
           v == CHOOSE w \in idle : TRUE
           r == [IdleWorker EXCEPT !.pc = "ensure", !.mgr = m, !.loop = loop, !.live = loop]
<1>1. v \in Workers /\ worker[v].pc = "idle"
  BY DEF Spawn
<1>2. worker' = [worker EXCEPT ![v] = r]
  BY DEF Spawn
<1>3. r \in Worker /\ r.pc = "ensure" /\ r.mgr = m /\ r.loop = loop /\ r.live = loop
      /\ r.todo = {} /\ r.left = {}
  BY DEF IdleWorker, Worker, Cert
<1> HIDE DEF r
<1>4. Apart(r) /\ \A count \in Nat : m <= count => WorkerOK(r, count)
  BY <1>3 DEF Apart, WorkerOK
<1> HIDE DEF v
<1> QED
  BY <1>1, <1>2, <1>3, <1>4

\* What a goroutine turns to after its pass.
LEMMA AfterFacts ==
    ASSUME AcmeInv, NEW w \in Workers, worker[w].pc # "idle"
    PROVE  /\ After(w) \in Worker /\ WorkerOK(After(w), Len(mgrs)) /\ Apart(After(w))
           /\ After(w).live <=> worker[w].live
           /\ worker[w].live => After(w).mgr = worker[w].mgr
           /\ After(w).todo = {} /\ After(w).pc # "ensure"
<1>1. worker[w] \in Worker /\ Len(mgrs) \in Nat /\ WorkerOK(worker[w], Len(mgrs))
  BY DEF AcmeInv, TypeInv, WorkersOK
<1>2. CASE worker[w].loop
  <2> DEFINE r == [IdleWorker EXCEPT !.pc = "wait", !.mgr = worker[w].mgr, !.loop = TRUE,
                                     !.live = worker[w].live]
  <2>1. r \in Worker /\ r.pc = "wait" /\ r.mgr = worker[w].mgr /\ r.loop = TRUE
        /\ r.live = worker[w].live /\ r.todo = {} /\ r.left = {}
    BY <1>1 DEF IdleWorker, Worker, Cert
  <2>2. After(w) = r
    BY <1>2 DEF After
  <2> HIDE DEF r
  <2>3. WorkerOK(r, Len(mgrs)) /\ Apart(r)
    BY <1>1, <2>1 DEF WorkerOK, Apart
  <2> QED
    BY <2>1, <2>2, <2>3
<1>3. CASE ~worker[w].loop
  <2>1. After(w) = IdleWorker /\ ~worker[w].live
    BY <1>1, <1>3 DEF After, WorkerOK, Worker
  <2>2. IdleWorker.todo = {}
    BY DEF IdleWorker
  <2> QED
    BY <1>1, <2>1, <2>2, IdleFacts
<1> QED
  BY <1>2, <1>3

\* A goroutine that goes on with some of its batches.
LEMMA NextFacts ==
    ASSUME AcmeInv, NEW w \in Workers, worker[w].pc # "idle", NEW rest \in SUBSET worker[w].todo
    PROVE  /\ NextBatch(w, rest) \in Worker /\ WorkerOK(NextBatch(w, rest), Len(mgrs))
           /\ Apart(NextBatch(w, rest))
           /\ NextBatch(w, rest).live <=> worker[w].live
           /\ worker[w].live => NextBatch(w, rest).mgr = worker[w].mgr
<1>1. worker[w] \in Worker /\ Len(mgrs) \in Nat /\ WorkerOK(worker[w], Len(mgrs)) /\ Apart(worker[w])
  BY DEF AcmeInv, TypeInv, WorkersOK
<1>2. CASE rest = {}
  BY <1>2, AfterFacts DEF NextBatch
<1>3. CASE rest # {}
  <2> DEFINE r == [worker[w] EXCEPT !.pc = "obtain", !.todo = rest, !.left = {}]
  <2>1. r \in Worker /\ r.pc = "obtain" /\ r.mgr = worker[w].mgr /\ r.loop = worker[w].loop
        /\ r.live = worker[w].live /\ r.todo = rest /\ r.left = {}
    BY <1>1 DEF Worker
  <2>2. NextBatch(w, rest) = r
    BY <1>3 DEF NextBatch
  <2> HIDE DEF r
  <2>3. WorkerOK(r, Len(mgrs)) /\ Apart(r)
    BY <1>1, <2>1 DEF WorkerOK, Apart
  <2> QED
    BY <2>1, <2>2, <2>3
<1> QED
  BY <1>2, <1>3

\* A step of a goroutine that leaves the managers alone keeps the invariant.
LEMMA WorkerOnly ==
    ASSUME AcmeInv, NEW w \in Workers, worker[w].pc # "idle", NEW r \in Worker,
           worker' = [worker EXCEPT ![w] = r], WorkerOK(r, Len(mgrs)), Apart(r),
           r.live <=> worker[w].live, worker[w].live => r.mgr = worker[w].mgr,
           certs' \in FiledStores,
           UNCHANGED <<conf, account, mgrVars, admin, hosts, events, up>>
    PROVE  AcmeInv'
<1>0. UNCHANGED <<conf, account, mgrs, current, admin, hosts, events, up>>
  BY DEF mgrVars
<1>1. worker' \in [Workers -> Worker] /\ WorkersOK'
  BY <1>0, WorkerStep
<1>2. TypeInv'
  BY <1>0, <1>1 DEF AcmeInv, TypeInv
<1>3. FramesOK'
  BY <1>0 DEF AcmeInv, FramesOK
<1>4. \A v \in Workers : (worker'[v].live <=> worker[v].live)
                         /\ (worker[v].live => worker'[v].mgr = worker[v].mgr)
  BY DEF AcmeInv, TypeInv
<1>5. LoopsOK'
  BY <1>0, <1>4, LoopsKept
<1>6. DownOK'
  BY <1>0 DEF AcmeInv, DownOK
<1> QED
  BY <1>1, <1>2, <1>3, <1>5, <1>6 DEF AcmeInv

\* The pass of EnsureCertificates keeps the invariant.
LEMMA EnsureInv ==
    ASSUME AcmeInv, NEW w \in Workers, EnsureCertificates(w)
    PROVE  AcmeInv'
<1> DEFINE cache == mgrs[worker[w].mgr].cache
           need == {n \in resolveDomains(collectAllDomains) : needsRenewal(cache, n)}
           r == [worker[w] EXCEPT !.pc = "obtain", !.todo = groupDomainBatches(need)]
<1>1. /\ worker[w].pc = "ensure" /\ certs' = certs
      /\ UNCHANGED <<conf, account, mgrVars, admin, hosts, events, up>>
      /\ worker' = [worker EXCEPT ![w] = IF need = {} THEN After(w) ELSE r]
  BY DEF EnsureCertificates, storeVars
<1>2. /\ worker[w] \in Worker /\ Len(mgrs) \in Nat /\ WorkerOK(worker[w], Len(mgrs))
      /\ certs \in FiledStores /\ TypeInv
  BY DEF AcmeInv, TypeInv, WorkersOK
<1>3. need \in SUBSET Names
  BY <1>2, AskedFacts
<1> HIDE DEF need
<1>4. CASE need = {}
  BY <1>1, <1>2, <1>4, AfterFacts, WorkerOnly
<1>5. CASE need # {}
  <2> DEFINE batches == groupDomainBatches(need)
  <2>1. /\ batches \in SUBSET SUBSET Names
        /\ \A b, c \in batches : b # c => b \intersect c = {}
        /\ \A b \in batches : (\E n \in b : IsWildcard(n)) => \A n, m \in b : n = m
    BY <1>3, GroupFacts
  <2> HIDE DEF batches
  <2>2. r \in Worker /\ r.pc = "obtain" /\ r.mgr = worker[w].mgr /\ r.loop = worker[w].loop
        /\ r.live = worker[w].live /\ r.todo = batches /\ r.left = worker[w].left
        /\ r.cert = worker[w].cert
    BY <1>2, <2>1 DEF Worker, batches
  <2> HIDE DEF r
  <2>3. r.left = {}
    BY <1>1, <1>2, <2>2 DEF WorkerOK
  <2>4. WorkerOK(r, Len(mgrs))
    BY <1>1, <1>2, <2>2, <2>3 DEF WorkerOK
  <2>5. Apart(r)
    BY <2>1, <2>2, <2>3 DEF Apart
  <2> QED
    BY <1>1, <1>2, <1>5, <2>2, <2>4, <2>5, WorkerOnly
<1> QED
  BY <1>4, <1>5

\* The steps of a goroutine keep the invariant.
LEMMA WorkInv ==
    ASSUME AcmeInv, NEW w \in Workers, Work(w)
    PROVE  AcmeInv'
<1>0. /\ worker[w] \in Worker /\ Len(mgrs) \in Nat /\ WorkerOK(worker[w], Len(mgrs))
      /\ Apart(worker[w]) /\ certs \in FiledStores /\ mgrs \in Seq(Manager)
  BY DEF AcmeInv, TypeInv, WorkersOK
<1>1. CASE EnsureCertificates(w)
  BY <1>1, EnsureInv
<1>2. CASE ObtainCertificate(w)
  <2>1. PICK batch \in worker[w].todo :
          /\ mgrs' = [mgrs EXCEPT ![worker[w].mgr].cache =
                           [n \in DOMAIN @ \union batch |->
                               IF n \in batch THEN [names |-> batch, due |-> FALSE] ELSE @[n]]]
          /\ worker' = [worker EXCEPT ![w] = [worker[w] EXCEPT !.pc = "persist", !.left = batch,
                            !.todo = @ \ {batch}, !.cert = [names |-> batch, due |-> FALSE]]]
    BY <1>2 DEF ObtainCertificate
  <2>2. worker[w].pc = "obtain" /\ UNCHANGED <<conf, account, certs, current, admin, hosts, events, up>>
    BY <1>2 DEF ObtainCertificate, storeVars
  <2> DEFINE m == worker[w].mgr
             cert == [names |-> batch, due |-> FALSE]
             d == [n \in DOMAIN mgrs[m].cache \union batch |->
                      IF n \in batch THEN cert ELSE mgrs[m].cache[n]]
             r == [worker[w] EXCEPT !.pc = "persist", !.left = batch,
                                    !.todo = worker[w].todo \ {batch}, !.cert = cert]
  <2>3. m \in 1 .. Len(mgrs) /\ mgrs[m] \in Manager /\ mgrs[m].cache \in FiledStores
    <3>1. m \in Nat /\ m <= Len(mgrs) /\ m # 0
      BY <1>0, <2>2 DEF WorkerOK, Worker
    <3>2. m \in 1 .. Len(mgrs)
      BY <1>0, <3>1
    <3>3. mgrs[m] \in Manager
      BY <1>0, <3>2, ElementOfSeq
    <3> QED
      BY <3>2, <3>3 DEF Manager
  <2>4. batch \in SUBSET Names
    BY <1>0 DEF Worker
  <2>5. d \in FiledStores
    BY <2>3, <2>4, StoreCached
  <2>6. mgrs' = [mgrs EXCEPT ![m] = [mgrs[m] EXCEPT !.cache = d]]
    BY <2>1
  <2>7. worker' = [worker EXCEPT ![w] = r]
    BY <2>1
  <2>8. cert \in Cert /\ cert.names = batch
    BY <2>4 DEF Cert
  <2> HIDE DEF d, cert
  <2>9. /\ mgrs' \in Seq(Manager) /\ Len(mgrs') = Len(mgrs) /\ DOMAIN mgrs' = DOMAIN mgrs
        /\ \A i \in DOMAIN mgrs : mgrs'[i].started = mgrs[i].started
    BY <1>0, <2>3, <2>5, <2>6 DEF Manager
  <2>10. r \in Worker /\ r.pc = "persist" /\ r.mgr = m /\ r.loop = worker[w].loop
         /\ r.live = worker[w].live /\ r.todo = worker[w].todo \ {batch} /\ r.left = batch
         /\ r.cert = cert
    BY <1>0, <2>4, <2>8 DEF Worker
  <2> HIDE DEF r, m
  <2>11. WorkerOK(r, Len(mgrs)) /\ Apart(r)
    <3>1. WorkerOK(r, Len(mgrs))
      BY <1>0, <2>2, <2>8, <2>10 DEF WorkerOK, m
    <3>2. Apart(r)
      BY <1>0, <2>10 DEF Apart
    <3> QED
      BY <3>1, <3>2
  <2>12. worker' \in [Workers -> Worker] /\ WorkersOK'
    BY <2>7, <2>9, <2>10, <2>11, WorkerStep
  <2>13. TypeInv'
    BY <2>2, <2>9, <2>12 DEF AcmeInv, TypeInv
  <2>14. FramesOK'
    BY <2>2, <2>9 DEF AcmeInv, FramesOK
  <2>15. \A v \in Workers : (worker'[v].live <=> worker[v].live)
                            /\ (worker[v].live => worker'[v].mgr = worker[v].mgr)
    BY <2>7, <2>10 DEF AcmeInv, TypeInv, m
  <2>16. LoopsOK'
    BY <2>9, <2>15, LoopsKept
  <2>17. DownOK'
    BY <2>2 DEF AcmeInv, DownOK
  <2> QED
    BY <2>12, <2>13, <2>14, <2>16, <2>17 DEF AcmeInv
<1>3. CASE ObtainFails(w)
  <2>1. PICK batch \in worker[w].todo :
          worker' = [worker EXCEPT ![w] = NextBatch(w, worker[w].todo \ {batch})]
    BY <1>3 DEF ObtainFails
  <2>2. /\ worker[w].pc # "idle" /\ certs' = certs
        /\ UNCHANGED <<conf, account, mgrVars, admin, hosts, events, up>>
    BY <1>3 DEF ObtainFails, storeVars
  <2> DEFINE rest == worker[w].todo \ {batch}
  <2>3. rest \in SUBSET worker[w].todo
    OBVIOUS
  <2> HIDE DEF rest
  <2>4. worker' = [worker EXCEPT ![w] = NextBatch(w, rest)]
    BY <2>1 DEF rest
  <2> QED
    BY <1>0, <2>2, <2>3, <2>4, NextFacts, WorkerOnly
<1>4. CASE SaveCertificate(w)
  <2>1. PICK n \in worker[w].left :
          /\ certs' \in {Put(certs, n, worker[w].cert), certs}
          /\ worker' = [worker EXCEPT ![w] = IF worker[w].left = {n} THEN NextBatch(w, worker[w].todo)
                                             ELSE [worker[w] EXCEPT !.left = @ \ {n}]]
    BY <1>4 DEF SaveCertificate
  <2>2. worker[w].pc = "persist" /\ UNCHANGED <<conf, account, mgrVars, admin, hosts, events, up>>
    BY <1>4 DEF SaveCertificate
  <2>3. n \in Names /\ worker[w].cert \in Cert /\ n \in worker[w].cert.names
    BY <1>0 DEF Worker, WorkerOK
  <2>4. certs' \in FiledStores
    BY <1>0, <2>1, <2>3, StorePut
  <2>5. CASE worker[w].left = {n}
    <3>1. worker' = [worker EXCEPT ![w] = NextBatch(w, worker[w].todo)]
      BY <2>1, <2>5
    <3> QED
      BY <2>2, <2>4, <3>1, NextFacts, WorkerOnly
  <2>6. CASE worker[w].left # {n}
    <3> DEFINE r == [worker[w] EXCEPT !.left = worker[w].left \ {n}]
    <3>1. worker' = [worker EXCEPT ![w] = r]
      BY <2>1, <2>6
    <3>2. r \in Worker /\ r.pc = "persist" /\ r.mgr = worker[w].mgr /\ r.loop = worker[w].loop
          /\ r.live = worker[w].live /\ r.todo = worker[w].todo /\ r.left = worker[w].left \ {n}
          /\ r.cert = worker[w].cert
      BY <1>0, <2>2 DEF Worker
    <3> HIDE DEF r
    <3>3. WorkerOK(r, Len(mgrs))
      BY <1>0, <2>2, <3>2 DEF WorkerOK
    <3>4. Apart(r)
      BY <1>0, <3>2 DEF Apart
    <3> QED
      BY <2>2, <2>4, <3>1, <3>2, <3>3, <3>4, WorkerOnly
  <2> QED
    BY <2>5, <2>6
<1>5. CASE RenewalTick(w)
  <2> DEFINE r == [worker[w] EXCEPT !.pc = "ensure"]
  <2>1. /\ worker[w].pc = "wait" /\ worker' = [worker EXCEPT ![w] = r] /\ certs' = certs
        /\ UNCHANGED <<conf, account, mgrVars, admin, hosts, events, up>>
    BY <1>5 DEF RenewalTick, Step, storeVars
  <2>2. r \in Worker /\ r.pc = "ensure" /\ r.mgr = worker[w].mgr /\ r.loop = worker[w].loop
        /\ r.live = worker[w].live /\ r.todo = worker[w].todo /\ r.left = worker[w].left
        /\ r.cert = worker[w].cert
    BY <1>0 DEF Worker
  <2> HIDE DEF r
  <2>3. WorkerOK(r, Len(mgrs)) /\ Apart(r)
    BY <1>0, <2>1, <2>2 DEF WorkerOK, Apart
  <2> QED
    BY <1>0, <2>1, <2>2, <2>3, WorkerOnly
<1>6. CASE LoopEnds(w)
  <2>1. /\ worker[w].pc = "wait" /\ ~worker[w].live /\ certs' = certs
        /\ worker' = [worker EXCEPT ![w] = IdleWorker]
        /\ UNCHANGED <<conf, account, mgrVars, admin, hosts, events, up>>
    BY <1>6 DEF LoopEnds, storeVars
  <2> QED
    BY <1>0, <2>1, IdleFacts, WorkerOnly
<1> QED
  BY <1>1, <1>2, <1>3, <1>4, <1>5, <1>6 DEF Work
-----------------------------------------------------------------------------
(* Requests.                                                               *)

\* A request that is being served is served by a process that runs.
LEMMA ServedIsUp ==
    ASSUME AcmeInv, NEW a \in Admins, admin[a].pc # "idle"
    PROVE  up
BY DEF AcmeInv, DownOK

\* A step of one request keeps the frames of the others, also when a manager is made.
LEMMA FrameStep ==
    ASSUME AcmeInv, NEW a \in Admins, NEW r \in Frame, admin' = [admin EXCEPT ![a] = r],
           FrameOK(r, Len(mgrs')), Len(mgrs') \in Nat, Len(mgrs') >= Len(mgrs)
    PROVE  admin' \in [Admins -> Frame] /\ FramesOK'
<1>1. admin' \in [Admins -> Frame]
  BY DEF AcmeInv, TypeInv
<1>2. ASSUME NEW b \in Admins
      PROVE  FrameOK(admin'[b], Len(mgrs'))
  <2>1. CASE b = a
    BY <2>1 DEF AcmeInv, TypeInv
  <2>2. CASE b # a
    <3>1. admin'[b] = admin[b] /\ admin[b] \in Frame /\ Len(mgrs) \in Nat /\ FrameOK(admin[b], Len(mgrs))
      BY <2>2 DEF AcmeInv, TypeInv, FramesOK
    <3> QED
      BY <3>1 DEF FrameOK, Frame
  <2> QED
    BY <2>1, <2>2
<1> QED
  BY <1>1, <1>2 DEF FramesOK

\* The frame of a request that ends.
LEMMA LeaveFacts == IdleAdmin \in Frame /\ \A count \in Nat : FrameOK(IdleAdmin, count)
BY DEF IdleAdmin, Frame, FrameOK

\* The frame of a request that goes on.
LEMMA GoFacts ==
    ASSUME AcmeInv, NEW a \in Admins,
           NEW pc \in {"init", "switch", "notify", "start", "wipe", "clear"},
           pc \in {"switch", "start", "clear"} => admin[a].mgr # 0
    PROVE  /\ [admin[a] EXCEPT !.pc = pc] \in Frame
           /\ FrameOK([admin[a] EXCEPT !.pc = pc], Len(mgrs))
<1>1. admin[a] \in Frame /\ FrameOK(admin[a], Len(mgrs))
  BY DEF AcmeInv, TypeInv, FramesOK
<1> QED
  BY <1>1 DEF Frame, FrameOK

\* A step of a request that leaves managers and goroutines alone keeps the invariant.
LEMMA FrameOnly ==
    ASSUME AcmeInv, up, NEW a \in Admins, NEW r \in Frame, FrameOK(r, Len(mgrs)),
           admin' = [admin EXCEPT ![a] = r],
           conf' \in Conf \union {NoConf}, account' \in BOOLEAN, certs' \in FiledStores,
           current' \in 0 .. Len(mgrs), events' \in 0 .. MaxEvents,
           UNCHANGED <<mgrs, worker, hosts, up>>
    PROVE  AcmeInv'
<1>0. Len(mgrs) \in Nat /\ Len(mgrs') = Len(mgrs)
  BY DEF AcmeInv, TypeInv
<1>1. admin' \in [Admins -> Frame] /\ FramesOK'
  <2>1. Len(mgrs') \in Nat /\ Len(mgrs') >= Len(mgrs) /\ FrameOK(r, Len(mgrs'))
    BY <1>0
  <2> QED
    BY <2>1, FrameStep
<1>2. TypeInv'
  BY <1>1 DEF AcmeInv, TypeInv
<1>3. WorkersOK' /\ LoopsOK'
  BY DEF AcmeInv, WorkersOK, LoopsOK
<1>4. DownOK'
  BY DEF DownOK
<1> QED
  BY <1>1, <1>2, <1>3, <1>4 DEF AcmeInv

\* A change of one manager leaves the others.
LEMMA ManagerStep ==
    ASSUME NEW ms \in Seq(Manager), NEW m \in 1 .. Len(ms), NEW t \in Manager
    PROVE  LET ns == [ms EXCEPT ![m] = t] IN
           /\ ns \in Seq(Manager) /\ Len(ns) = Len(ms) /\ DOMAIN ns = DOMAIN ms
           /\ ns[m] = t /\ \A i \in DOMAIN ms : i # m => ns[i] = ms[i]
OBVIOUS

\* Start gives a manager that has no loop one.
LEMMA StartFacts ==
    ASSUME AcmeInv, NEW m \in 1 .. Len(mgrs), Start(m)
    PROVE  /\ worker' \in [Workers -> Worker] /\ mgrs' \in Seq(Manager) /\ Len(mgrs') = Len(mgrs)
           /\ WorkersOK' /\ LoopsOK'
           /\ \A i \in DOMAIN mgrs : mgrs'[i].started => mgrs[i].started \/ i = m
<1>0. mgrs \in Seq(Manager) /\ Len(mgrs) \in Nat /\ mgrs[m] \in Manager /\ worker \in [Workers -> Worker]
  BY DEF AcmeInv, TypeInv
<1>1. CASE mgrs[m].started
  BY <1>0, <1>1 DEF Start, AcmeInv, WorkersOK, LoopsOK
<1>2. CASE ~mgrs[m].started
  <2>1. Spawn(m, TRUE) /\ mgrs' = [mgrs EXCEPT ![m] = [mgrs[m] EXCEPT !.started = TRUE]]
    BY <1>2 DEF Start
  <2>2. PICK v \in Workers : \E r \in Worker :
               /\ worker[v].pc = "idle" /\ worker' = [worker EXCEPT ![v] = r]
               /\ r.pc = "ensure" /\ r.mgr = m /\ r.live = TRUE /\ Apart(r)
               /\ \A count \in Nat : m <= count => WorkerOK(r, count)
    <3>1. m \in Nat \ {0}
      BY <1>0
    <3> QED
      BY <2>1, <3>1, SpawnFacts, Zenon
  <2>3. PICK r \in Worker :
               /\ worker[v].pc = "idle" /\ worker' = [worker EXCEPT ![v] = r]
               /\ r.pc = "ensure" /\ r.mgr = m /\ r.live = TRUE /\ Apart(r)
               /\ \A count \in Nat : m <= count => WorkerOK(r, count)
    BY <2>2
  <2>4. /\ mgrs' \in Seq(Manager) /\ Len(mgrs') = Len(mgrs) /\ DOMAIN mgrs' = DOMAIN mgrs
        /\ mgrs'[m].started = TRUE /\ \A i \in DOMAIN mgrs : i # m => mgrs'[i] = mgrs[i]
    <3> DEFINE t == [mgrs[m] EXCEPT !.started = TRUE]
    <3>1. t \in Manager /\ t.started = TRUE
      BY <1>0 DEF Manager
    <3>2. mgrs' = [mgrs EXCEPT ![m] = t]
      BY <2>1
    <3> HIDE DEF t
    <3> QED
      BY <1>0, <3>1, <3>2, ManagerStep
  <2>5. WorkerOK(r, Len(mgrs))
    BY <1>0, <2>3
  <2>6. worker' \in [Workers -> Worker] /\ WorkersOK'
    BY <2>3, <2>4, <2>5, WorkerStep
  <2>7. /\ worker'[v].live /\ worker'[v].mgr = m
        /\ \A u \in Workers : u # v => worker'[u] = worker[u]
    BY <1>0, <2>3
  <2>8. ~worker[v].live
    BY <2>3 DEF AcmeInv, WorkersOK, WorkerOK
  <2>9. /\ \A i \in DOMAIN mgrs : mgrs[i].started =>
              \E w \in Workers : worker[w].live /\ worker[w].mgr = i
        /\ \A w \in Workers : worker[w].live => mgrs[worker[w].mgr].started
        /\ \A w, u \in Workers :
              worker[w].live /\ worker[u].live /\ worker[w].mgr = worker[u].mgr => w = u
    BY DEF AcmeInv, LoopsOK
  <2>10. ASSUME NEW u \in Workers, worker[u].live
         PROVE  worker[u].mgr \in DOMAIN mgrs /\ worker[u].mgr # m
    <3>1. worker[u] \in Worker /\ WorkerOK(worker[u], Len(mgrs))
      BY DEF AcmeInv, TypeInv, WorkersOK
    <3>2. worker[u].mgr \in Nat /\ worker[u].mgr <= Len(mgrs) /\ worker[u].mgr # 0
      BY <2>10, <3>1 DEF Worker, WorkerOK
    <3>3. worker[u].mgr \in DOMAIN mgrs
      BY <1>0, <3>2
    <3> QED
      BY <2>9, <2>10, <3>3, <1>2
  <2>11. \A i \in DOMAIN mgrs' : mgrs'[i].started =>
             \E w \in Workers : worker'[w].live /\ worker'[w].mgr = i
    BY <2>4, <2>7, <2>8, <2>9
  <2>12. \A w \in Workers : worker'[w].live => mgrs'[worker'[w].mgr].started
    BY <2>4, <2>7, <2>9, <2>10
  <2>13. \A w, u \in Workers :
             worker'[w].live /\ worker'[u].live /\ worker'[w].mgr = worker'[u].mgr => w = u
    BY <2>7, <2>9, <2>10
  <2>14. LoopsOK'
    BY <2>11, <2>12, <2>13 DEF LoopsOK
  <2> QED
    BY <2>4, <2>6, <2>14
<1> QED
  BY <1>1, <1>2

\* Stop leaves a manager without a loop.
LEMMA StopFacts ==
    ASSUME AcmeInv, NEW m \in 1 .. Len(mgrs), Stop(m)
    PROVE  /\ worker' \in [Workers -> Worker] /\ mgrs' \in Seq(Manager) /\ Len(mgrs') = Len(mgrs)
           /\ WorkersOK' /\ LoopsOK'
           /\ \A i \in DOMAIN mgrs : mgrs'[i].started => mgrs[i].started /\ i # m
<1>0. mgrs \in Seq(Manager) /\ Len(mgrs) \in Nat /\ mgrs[m] \in Manager /\ worker \in [Workers -> Worker]
  BY DEF AcmeInv, TypeInv
<1>1. /\ mgrs' = [mgrs EXCEPT ![m] = [mgrs[m] EXCEPT !.started = FALSE]]
      /\ worker' = [w \in Workers |-> IF worker[w].mgr = m THEN [worker[w] EXCEPT !.live = FALSE]
                                      ELSE worker[w]]
  BY DEF Stop
<1>2. /\ mgrs' \in Seq(Manager) /\ Len(mgrs') = Len(mgrs) /\ DOMAIN mgrs' = DOMAIN mgrs
      /\ mgrs'[m].started = FALSE /\ \A i \in DOMAIN mgrs : i # m => mgrs'[i] = mgrs[i]
  <2> DEFINE t == [mgrs[m] EXCEPT !.started = FALSE]
  <2>1. t \in Manager /\ t.started = FALSE
    BY <1>0 DEF Manager
  <2>2. mgrs' = [mgrs EXCEPT ![m] = t]
    BY <1>1
  <2> HIDE DEF t
  <2> QED
    BY <1>0, <2>1, <2>2, ManagerStep
<1>3. ASSUME NEW w \in Workers
      PROVE  /\ worker'[w] \in Worker /\ WorkerOK(worker'[w], Len(mgrs)) /\ Apart(worker'[w])
             /\ worker'[w].mgr = worker[w].mgr
             /\ worker'[w].live <=> worker[w].live /\ worker[w].mgr # m
  <2>1. worker[w] \in Worker /\ WorkerOK(worker[w], Len(mgrs)) /\ Apart(worker[w])
    BY DEF AcmeInv, TypeInv, WorkersOK
  <2>2. CASE worker[w].mgr # m
    BY <1>1, <2>1, <2>2
  <2>3. CASE worker[w].mgr = m
    <3> DEFINE r == [worker[w] EXCEPT !.live = FALSE]
    <3>1. worker'[w] = r
      BY <1>1, <2>3
    <3>2. r \in Worker /\ r.pc = worker[w].pc /\ r.mgr = worker[w].mgr /\ r.loop = worker[w].loop
          /\ r.live = FALSE /\ r.todo = worker[w].todo /\ r.left = worker[w].left
          /\ r.cert = worker[w].cert
      BY <2>1 DEF Worker
    <3> HIDE DEF r
    <3>3. WorkerOK(r, Len(mgrs))
      BY <2>1, <3>2 DEF WorkerOK
    <3>4. Apart(r)
      BY <2>1, <3>2 DEF Apart
    <3> QED
      BY <3>1, <3>2, <3>3, <3>4, <2>3
  <2> QED
    BY <2>2, <2>3
<1>4. worker' \in [Workers -> Worker] /\ WorkersOK'
  <2>1. worker' \in [Workers -> Worker]
    <3>1. worker' = [w \in Workers |-> worker'[w]]
      BY <1>1
    <3> QED
      BY <3>1, <1>3
  <2> QED
    BY <2>1, <1>2, <1>3 DEF WorkersOK
<1>5. /\ \A i \in DOMAIN mgrs : mgrs[i].started =>
            \E w \in Workers : worker[w].live /\ worker[w].mgr = i
      /\ \A w \in Workers : worker[w].live => mgrs[worker[w].mgr].started
      /\ \A w, u \in Workers :
            worker[w].live /\ worker[u].live /\ worker[w].mgr = worker[u].mgr => w = u
  BY DEF AcmeInv, LoopsOK
<1>6. \A i \in DOMAIN mgrs' : mgrs'[i].started =>
          \E w \in Workers : worker'[w].live /\ worker'[w].mgr = i
  BY <1>2, <1>3, <1>5
<1>7. ASSUME NEW w \in Workers, worker'[w].live
      PROVE  mgrs'[worker'[w].mgr].started
  <2>1. worker[w].live /\ worker[w].mgr # m
    BY <1>3, <1>7
  <2>2. worker[w] \in Worker /\ WorkerOK(worker[w], Len(mgrs))
    BY DEF AcmeInv, TypeInv, WorkersOK
  <2>3. worker[w].mgr \in Nat /\ worker[w].mgr <= Len(mgrs) /\ worker[w].mgr # 0
    BY <2>1, <2>2 DEF Worker, WorkerOK
  <2>4. worker[w].mgr \in DOMAIN mgrs
    BY <1>0, <2>3
  <2> QED
    BY <1>2, <1>3, <1>5, <2>1, <2>4
<1>8. \A w, u \in Workers :
          worker'[w].live /\ worker'[u].live /\ worker'[w].mgr = worker'[u].mgr => w = u
  BY <1>3, <1>5
<1>9. LoopsOK'
  BY <1>6, <1>7, <1>8 DEF LoopsOK
<1> QED
  BY <1>2, <1>4, <1>9

\* NotifyDomainsChanged starts a goroutine that is no loop.
LEMMA NotifyFacts ==
    ASSUME AcmeInv, NotifyDomainsChanged, UNCHANGED mgrs
    PROVE  worker' \in [Workers -> Worker] /\ WorkersOK' /\ LoopsOK'
<1>0. current \in 0 .. Len(mgrs) /\ Len(mgrs) \in Nat /\ worker \in [Workers -> Worker]
  BY DEF AcmeInv, TypeInv
<1>1. CASE UNCHANGED worker
  BY <1>1 DEF AcmeInv, TypeInv, WorkersOK, LoopsOK
<1>2. CASE current # 0 /\ Spawn(current, FALSE)
  <2>1. current \in Nat \ {0} /\ current <= Len(mgrs)
    BY <1>0, <1>2
  <2>2. PICK v \in Workers : \E r \in Worker :
               /\ worker[v].pc = "idle" /\ worker' = [worker EXCEPT ![v] = r]
               /\ r.pc = "ensure" /\ r.mgr = current /\ r.live = FALSE /\ Apart(r)
               /\ \A count \in Nat : current <= count => WorkerOK(r, count)
    BY <1>2, <2>1, SpawnFacts, Zenon
  <2>3. PICK r \in Worker :
               /\ worker[v].pc = "idle" /\ worker' = [worker EXCEPT ![v] = r]
               /\ r.pc = "ensure" /\ r.mgr = current /\ r.live = FALSE /\ Apart(r)
               /\ \A count \in Nat : current <= count => WorkerOK(r, count)
    BY <2>2
  <2>4. WorkerOK(r, Len(mgrs))
    BY <1>0, <2>1, <2>3
  <2>5. worker' \in [Workers -> Worker] /\ WorkersOK'
    BY <2>3, <2>4, WorkerStep
  <2>6. ~worker[v].live
    BY <2>3 DEF AcmeInv, WorkersOK, WorkerOK
  <2>7. \A u \in Workers : (worker'[u].live <=> worker[u].live)
                           /\ (worker[u].live => worker'[u].mgr = worker[u].mgr)
    BY <1>0, <2>3, <2>6
  <2>8. LoopsOK'
    BY <2>7, LoopsKept
  <2> QED
    BY <2>5, <2>8
<1> QED
  BY <1>1, <1>2 DEF NotifyDomainsChanged

\* A step that starts or stops a manager, and the frame of its request.
LEMMA SwitchStep ==
    ASSUME AcmeInv, NEW a \in Admins, NEW m \in 1 .. Len(mgrs), Start(m) \/ Stop(m), up,
           NEW r \in Frame, FrameOK(r, Len(mgrs)), admin' = [admin EXCEPT ![a] = r],
           UNCHANGED <<storeVars, current, hosts, events, up>>
    PROVE  AcmeInv'
<1>1. /\ worker' \in [Workers -> Worker] /\ mgrs' \in Seq(Manager) /\ Len(mgrs') = Len(mgrs)
      /\ WorkersOK' /\ LoopsOK'
  BY StartFacts, StopFacts
<1>2. Len(mgrs') \in Nat /\ Len(mgrs') >= Len(mgrs) /\ FrameOK(r, Len(mgrs'))
  BY <1>1 DEF AcmeInv, TypeInv
<1>3. admin' \in [Admins -> Frame] /\ FramesOK'
  BY <1>2, FrameStep
<1>4. TypeInv'
  BY <1>1, <1>3 DEF AcmeInv, TypeInv, storeVars
<1>5. DownOK'
  BY DEF DownOK
<1> QED
  BY <1>1, <1>3, <1>4, <1>5 DEF AcmeInv

\* The steps of a request keep the invariant.
LEMMA RequestInv ==
    ASSUME AcmeInv, NEW a \in Admins, Request(a)
    PROVE  AcmeInv'
<1> USE DEF storeVars, mgrVars
<1>0. /\ admin[a] \in Frame /\ FrameOK(admin[a], Len(mgrs)) /\ Len(mgrs) \in Nat
      /\ conf \in Conf \union {NoConf} /\ account \in BOOLEAN /\ certs \in FiledStores
      /\ current \in 0 .. Len(mgrs) /\ current \in Nat /\ events \in 0 .. MaxEvents
      /\ mgrs \in Seq(Manager)
  BY DEF AcmeInv, TypeInv, FramesOK
<1>e. ASSUME Event PROVE events' \in 0 .. MaxEvents
  BY <1>e, <1>0, AcmeAssumption DEF Event
<1>m. /\ admin[a].mgr \in Nat /\ admin[a].mgr <= Len(mgrs)
      /\ admin[a].pc \in {"toggle", "switch", "swap", "start", "halt", "clear"} => admin[a].mgr # 0
  BY <1>0 DEF Frame, FrameOK
<1>1. CASE SaveRequest(a)
  <2>1. PICK c \in Saves : admin' = [admin EXCEPT ![a] = [pc |-> "save", conf |-> c, mgr |-> 0]]
    BY <1>1 DEF SaveRequest, Hold
  <2>2. c \in Conf \union {NoConf}
    BY AcmeAssumption
  <2>3. up /\ Event /\ UNCHANGED <<conf, account, certs, mgrs, current, worker, hosts, up>>
    BY <1>1 DEF SaveRequest
  <2>4. [pc |-> "save", conf |-> c, mgr |-> 0] \in Frame /\ FrameOK([pc |-> "save", conf |-> c, mgr |-> 0], Len(mgrs))
    BY <1>0, <2>2 DEF Frame, FrameOK
  <2> QED
    BY <1>0, <1>e, <2>1, <2>3, <2>4, FrameOnly
<1>2. CASE SaveConfiguration(a)
  <2>1. /\ admin[a].pc \in {"save", "toggle", "domains"}
        /\ UNCHANGED <<account, certs, mgrs, current, worker, hosts, events, up>>
    BY <1>2 DEF SaveConfiguration, At
  <2>2. up
    BY <2>1, ServedIsUp
  <2>3. CASE UNCHANGED conf /\ Leave(a)
    BY <1>0, <2>1, <2>2, <2>3, LeaveFacts, FrameOnly DEF Leave
  <2>4. CASE conf' = admin[a].conf /\ ~(UNCHANGED conf /\ Leave(a))
    <3>1. PICK pc \in {"init", "switch", "notify"} :
             Go(a, pc) /\ (pc = "switch" => admin[a].pc = "toggle")
      BY <1>2, <2>1, <2>4 DEF SaveConfiguration, At
    <3>2. admin' = [admin EXCEPT ![a] = [admin[a] EXCEPT !.pc = pc]]
      BY <3>1 DEF Go
    <3>3. [admin[a] EXCEPT !.pc = pc] \in Frame /\ FrameOK([admin[a] EXCEPT !.pc = pc], Len(mgrs))
      BY <3>1, <1>m, GoFacts
    <3>4. conf' \in Conf \union {NoConf}
      BY <1>0, <2>4 DEF Frame
    <3> QED
      BY <1>0, <2>1, <2>2, <3>2, <3>3, <3>4, FrameOnly
  <2> QED
    BY <1>2, <2>3, <2>4 DEF SaveConfiguration
<1>3. CASE CreateManager(a)
  <2>1. admin[a].pc = "init" /\ UNCHANGED <<conf, certs, current, worker, hosts, events, up>>
    BY <1>3 DEF CreateManager, At
  <2>2. up
    BY <2>1, ServedIsUp
  <2>3. CASE UNCHANGED mgrs /\ Leave(a)
    <3>1. account' \in BOOLEAN
      BY <1>0, <1>3 DEF CreateManager, registerIfNeeded
    <3> QED
      BY <1>0, <2>1, <2>2, <2>3, <3>1, LeaveFacts, FrameOnly DEF Leave
  <2>4. CASE ~(UNCHANGED mgrs /\ Leave(a))
    <3>1. PICK cache \in {certs, Empty} : mgrs' = Append(mgrs, [started |-> FALSE, cache |-> cache])
      BY <1>3, <2>4 DEF CreateManager, loadCertificatesFromStore, NewManager
    <3>2. /\ account' = TRUE /\ Len(mgrs) < MaxManagers
          /\ admin' = [admin EXCEPT ![a] = [pc |-> "swap", conf |-> conf, mgr |-> Len(mgrs) + 1]]
      BY <1>3, <2>4 DEF CreateManager, registerIfNeeded, Hold
    <3> DEFINE t == [started |-> FALSE, cache |-> cache]
    <3>3. t \in Manager /\ t.started = FALSE
      BY <1>0, StoreEmpty DEF Manager
    <3>4. mgrs' = Append(mgrs, t)
      BY <3>1
    <3> HIDE DEF t
    <3>5. /\ mgrs' \in Seq(Manager) /\ Len(mgrs') = Len(mgrs) + 1
          /\ \A i \in 1 .. Len(mgrs) : mgrs'[i] = mgrs[i]
          /\ mgrs'[Len(mgrs) + 1] = t
      BY <1>0, <3>3, <3>4
    <3>6. Len(mgrs') \in Nat /\ Len(mgrs') >= Len(mgrs) /\ Len(mgrs') <= MaxManagers
          /\ Len(mgrs) + 1 \in Nat /\ Len(mgrs) + 1 <= Len(mgrs') /\ Len(mgrs) + 1 # 0
      BY <1>0, <3>2, <3>5, AcmeAssumption
    <3> DEFINE r == [pc |-> "swap", conf |-> conf, mgr |-> Len(mgrs) + 1]
    <3>7. r \in Frame /\ FrameOK(r, Len(mgrs'))
      BY <1>0, <3>6 DEF Frame, FrameOK
    <3>8. admin' \in [Admins -> Frame] /\ FramesOK'
      BY <3>2, <3>6, <3>7, FrameStep
    <3>9. TypeInv'
      BY <2>1, <3>2, <3>5, <3>6, <3>8 DEF AcmeInv, TypeInv
    <3>10. WorkersOK'
      <4>1. ASSUME NEW w \in Workers
            PROVE  WorkerOK(worker[w], Len(mgrs')) /\ Apart(worker[w])
        <5>1. worker[w] \in Worker /\ WorkerOK(worker[w], Len(mgrs)) /\ Apart(worker[w])
          BY DEF AcmeInv, TypeInv, WorkersOK
        <5> QED
          BY <1>0, <3>6, <5>1 DEF WorkerOK, Worker
      <4> QED
        BY <2>1, <4>1 DEF WorkersOK
    <3>11. LoopsOK'
      <4>1. DOMAIN mgrs = 1 .. Len(mgrs) /\ DOMAIN mgrs' = 1 .. Len(mgrs) + 1
        BY <1>0, <3>5
      <4>2. \A m \in DOMAIN mgrs' : mgrs'[m].started =>
                \E w \in Workers : worker'[w].live /\ worker'[w].mgr = m
        <5> SUFFICES ASSUME NEW m \in DOMAIN mgrs', mgrs'[m].started
                     PROVE  \E w \in Workers : worker'[w].live /\ worker'[w].mgr = m
          OBVIOUS
        <5>1. m # Len(mgrs) + 1
          BY <3>3, <3>5
        <5>2. m \in DOMAIN mgrs /\ mgrs[m].started
          BY <1>0, <3>5, <4>1, <5>1
        <5> QED
          BY <2>1, <5>2 DEF AcmeInv, LoopsOK
      <4>3. \A w \in Workers : worker'[w].live => mgrs'[worker'[w].mgr].started
        <5> SUFFICES ASSUME NEW w \in Workers, worker[w].live
                     PROVE  mgrs'[worker[w].mgr].started
          BY <2>1
        <5>1. worker[w] \in Worker /\ WorkerOK(worker[w], Len(mgrs))
          BY DEF AcmeInv, TypeInv, WorkersOK
        <5>2. worker[w].mgr \in Nat /\ worker[w].mgr <= Len(mgrs) /\ worker[w].mgr # 0
          BY <5>1 DEF Worker, WorkerOK
        <5>3. worker[w].mgr \in 1 .. Len(mgrs)
          BY <1>0, <5>2
        <5> QED
          BY <3>5, <5>3 DEF AcmeInv, LoopsOK
      <4> QED
        BY <2>1, <4>2, <4>3 DEF AcmeInv, LoopsOK
    <3>12. DownOK'
      BY <2>1, <2>2 DEF DownOK
    <3> QED
      BY <3>8, <3>9, <3>10, <3>11, <3>12 DEF AcmeInv
  <2> QED
    BY <2>3, <2>4
<1>4. CASE SwapIn(a)
  <2>1. admin[a].pc = "swap" /\ UNCHANGED <<conf, account, certs, mgrs, worker, hosts, events, up>>
    BY <1>4 DEF SwapIn, At
  <2>2. up
    BY <2>1, ServedIsUp
  <2>3. current' \in 0 .. Len(mgrs)
    BY <1>0, <1>4, <1>m, <2>1 DEF SwapIn
  <2>4. CASE Leave(a)
    BY <1>0, <2>1, <2>2, <2>3, <2>4, LeaveFacts, FrameOnly DEF Leave
  <2>5. CASE Go(a, "start")
    <3>1. [admin[a] EXCEPT !.pc = "start"] \in Frame /\ FrameOK([admin[a] EXCEPT !.pc = "start"], Len(mgrs))
      BY <1>m, <2>1, GoFacts
    <3>2. admin' = [admin EXCEPT ![a] = [admin[a] EXCEPT !.pc = "start"]]
      BY <2>5 DEF Go
    <3> QED
      BY <1>0, <2>1, <2>2, <2>3, <3>1, <3>2, FrameOnly
  <2> QED
    BY <1>4, <2>4, <2>5 DEF SwapIn
<1>5. CASE StartCreated(a)
  <2>1. /\ admin[a].pc = "start" /\ Start(admin[a].mgr) /\ admin' = [admin EXCEPT ![a] = IdleAdmin]
        /\ UNCHANGED <<storeVars, current, hosts, events, up>>
    BY <1>5 DEF StartCreated, At, Leave
  <2>2. up /\ admin[a].mgr \in 1 .. Len(mgrs)
    BY <1>0, <1>m, <2>1, ServedIsUp
  <2> QED
    BY <1>0, <2>1, <2>2, LeaveFacts, SwitchStep
<1>6. CASE ToggleEnabled(a)
  <2>1. /\ up /\ Event /\ conf # NoConf /\ current # 0
        /\ UNCHANGED <<conf, account, certs, mgrs, current, worker, hosts, up>>
    BY <1>6 DEF ToggleEnabled
  <2>2. PICK e \in BOOLEAN : admin' = [admin EXCEPT ![a] =
            [pc |-> "toggle", conf |-> [conf EXCEPT !.enabled = e], mgr |-> current]]
    BY <1>6 DEF ToggleEnabled, Hold
  <2> DEFINE c == [conf EXCEPT !.enabled = e]
             r == [pc |-> "toggle", conf |-> c, mgr |-> current]
  <2>3. c \in Conf \union {NoConf}
    BY <1>0, <2>1 DEF Conf
  <2> HIDE DEF c
  <2>4. r \in Frame /\ FrameOK(r, Len(mgrs))
    BY <1>0, <2>1, <2>3 DEF Frame, FrameOK
  <2>5. admin' = [admin EXCEPT ![a] = r]
    BY <2>2 DEF c
  <2> HIDE DEF r
  <2> QED
    BY <1>0, <1>e, <2>1, <2>4, <2>5, FrameOnly
<1>7. CASE Switch(a)
  <2>1. /\ admin[a].pc = "switch" /\ (Start(admin[a].mgr) \/ Stop(admin[a].mgr))
        /\ admin' = [admin EXCEPT ![a] = IdleAdmin]
        /\ UNCHANGED <<storeVars, current, hosts, events, up>>
    BY <1>7 DEF Switch, At, Leave
  <2>2. up /\ admin[a].mgr \in 1 .. Len(mgrs)
    BY <1>0, <1>m, <2>1, ServedIsUp
  <2> QED
    BY <1>0, <2>1, <2>2, LeaveFacts, SwitchStep
<1>8. CASE UpdateDomains(a)
  <2>1. /\ up /\ Event /\ conf # NoConf
        /\ UNCHANGED <<conf, account, certs, mgrs, current, worker, hosts, up>>
    BY <1>8 DEF UpdateDomains
  <2>2. PICK l \in Lists : admin' = [admin EXCEPT ![a] =
            [pc |-> "domains", conf |-> [conf EXCEPT !.domains = l], mgr |-> 0]]
    BY <1>8 DEF UpdateDomains, Hold
  <2> DEFINE c == [conf EXCEPT !.domains = l]
             r == [pc |-> "domains", conf |-> c, mgr |-> 0]
  <2>3. c \in Conf \union {NoConf}
    BY <1>0, <2>1 DEF Conf
  <2> HIDE DEF c
  <2>4. r \in Frame /\ FrameOK(r, Len(mgrs))
    BY <1>0, <2>3 DEF Frame, FrameOK
  <2>5. admin' = [admin EXCEPT ![a] = r]
    BY <2>2 DEF c
  <2> HIDE DEF r
  <2> QED
    BY <1>0, <1>e, <2>1, <2>4, <2>5, FrameOnly
<1>9. CASE NotifyUpdated(a)
  <2>1. /\ admin[a].pc = "notify" /\ NotifyDomainsChanged /\ admin' = [admin EXCEPT ![a] = IdleAdmin]
        /\ UNCHANGED <<conf, account, certs, mgrs, current, hosts, events, up>>
    BY <1>9 DEF NotifyUpdated, At, Leave
  <2>2. worker' \in [Workers -> Worker] /\ WorkersOK' /\ LoopsOK'
    BY <2>1, NotifyFacts
  <2>3. admin' \in [Admins -> Frame] /\ FramesOK'
    <3>1. Len(mgrs') \in Nat /\ Len(mgrs') >= Len(mgrs)
      BY <1>0, <2>1
    <3> QED
      BY <2>1, <3>1, LeaveFacts, FrameStep
  <2>4. TypeInv'
    BY <2>1, <2>2, <2>3 DEF AcmeInv, TypeInv
  <2>5. DownOK'
    BY <2>1, ServedIsUp DEF DownOK
  <2> QED
    BY <2>2, <2>3, <2>4, <2>5 DEF AcmeInv
<1>10. CASE ResetAll(a)
  <2>1. /\ up /\ Event /\ current' = 0
        /\ UNCHANGED <<conf, account, certs, mgrs, worker, hosts, up>>
    BY <1>10 DEF ResetAll
  <2>2. PICK pc \in {"wipe", "halt"} : /\ pc = "halt" => current # 0
                                      /\ admin' = [admin EXCEPT ![a] = [pc |-> pc, conf |-> NoConf, mgr |-> current]]
    BY <1>10 DEF ResetAll, Hold
  <2> DEFINE r == [pc |-> pc, conf |-> NoConf, mgr |-> current]
  <2>3. r \in Frame /\ FrameOK(r, Len(mgrs))
    BY <1>0, <2>2 DEF Frame, FrameOK
  <2>4. admin' = [admin EXCEPT ![a] = r] /\ current' \in 0 .. Len(mgrs)
    BY <1>0, <2>1, <2>2
  <2> HIDE DEF r
  <2> QED
    BY <1>0, <1>e, <2>1, <2>3, <2>4, FrameOnly
<1>11. CASE ResetStops(a)
  <2>1. /\ admin[a].pc = "halt" /\ Stop(admin[a].mgr)
        /\ admin' = [admin EXCEPT ![a] = [admin[a] EXCEPT !.pc = "wipe"]]
        /\ UNCHANGED <<storeVars, current, hosts, events, up>>
    BY <1>11 DEF ResetStops, At, Go
  <2>2. up /\ admin[a].mgr \in 1 .. Len(mgrs)
    BY <1>0, <1>m, <2>1, ServedIsUp
  <2>3. [admin[a] EXCEPT !.pc = "wipe"] \in Frame /\ FrameOK([admin[a] EXCEPT !.pc = "wipe"], Len(mgrs))
    BY GoFacts
  <2> QED
    BY <2>1, <2>2, <2>3, SwitchStep
<1>12. CASE StoreResetAll(a)
  <2>1. /\ admin[a].pc = "wipe" /\ UNCHANGED <<mgrs, current, worker, hosts, events, up>>
        /\ conf' \in {conf, NoConf} /\ account' \in {account, FALSE} /\ certs' \in {certs, Empty}
    BY <1>12 DEF StoreResetAll, At
  <2>2. up
    BY <2>1, ServedIsUp
  <2>3. conf' \in Conf \union {NoConf} /\ account' \in BOOLEAN /\ certs' \in FiledStores
    BY <1>0, <2>1, StoreEmpty
  <2>4. CASE Leave(a)
    BY <1>0, <2>1, <2>2, <2>3, <2>4, LeaveFacts, FrameOnly DEF Leave
  <2>5. CASE admin[a].mgr # 0 /\ Go(a, "clear")
    <3>1. [admin[a] EXCEPT !.pc = "clear"] \in Frame /\ FrameOK([admin[a] EXCEPT !.pc = "clear"], Len(mgrs))
      BY <2>5, GoFacts
    <3>2. admin' = [admin EXCEPT ![a] = [admin[a] EXCEPT !.pc = "clear"]]
      BY <2>5 DEF Go
    <3> QED
      BY <1>0, <2>1, <2>2, <2>3, <3>1, <3>2, FrameOnly
  <2> QED
    BY <1>12, <2>4, <2>5 DEF StoreResetAll
<1>13. CASE ResetClears(a)
  <2>1. /\ admin[a].pc = "clear" /\ admin' = [admin EXCEPT ![a] = IdleAdmin]
        /\ mgrs' = [mgrs EXCEPT ![admin[a].mgr] = [mgrs[admin[a].mgr] EXCEPT !.cache = Empty]]
        /\ UNCHANGED <<conf, account, certs, current, worker, hosts, events, up>>
    BY <1>13 DEF ResetClears, At, Leave
  <2> DEFINE m == admin[a].mgr
             t == [mgrs[m] EXCEPT !.cache = Empty]
  <2>2. m \in 1 .. Len(mgrs) /\ mgrs[m] \in Manager
    BY <1>0, <1>m, <2>1
  <2>3. t \in Manager /\ t.started = mgrs[m].started
    BY <2>2, StoreEmpty DEF Manager
  <2>4. mgrs' = [mgrs EXCEPT ![m] = t]
    BY <2>1
  <2> HIDE DEF t, m
  <2>5. /\ mgrs' \in Seq(Manager) /\ Len(mgrs') = Len(mgrs) /\ DOMAIN mgrs' = DOMAIN mgrs
        /\ mgrs'[m] = t /\ \A i \in DOMAIN mgrs : i # m => mgrs'[i] = mgrs[i]
    BY <1>0, <2>2, <2>3, <2>4, ManagerStep
  <2>6. \A i \in DOMAIN mgrs : mgrs'[i].started = mgrs[i].started
    BY <2>3, <2>5
  <2>7. LoopsOK'
    BY <2>1, <2>5, <2>6, LoopsKept
  <2>8. WorkersOK'
    BY <2>1, <2>5 DEF AcmeInv, WorkersOK
  <2>9. admin' \in [Admins -> Frame] /\ FramesOK'
    <3>1. Len(mgrs') \in Nat /\ Len(mgrs') >= Len(mgrs)
      BY <1>0, <2>5
    <3> QED
      BY <2>1, <3>1, LeaveFacts, FrameStep
  <2>10. TypeInv'
    BY <2>1, <2>5, <2>9 DEF AcmeInv, TypeInv
  <2>11. DownOK'
    BY <2>1, ServedIsUp DEF DownOK
  <2> QED
    BY <2>7, <2>8, <2>9, <2>10, <2>11 DEF AcmeInv
<1> QED
  BY <1>1, <1>2, <1>3, <1>4, <1>5, <1>6, <1>7, <1>8, <1>9, <1>10, <1>11, <1>12, <1>13 DEF Request
-----------------------------------------------------------------------------
(* The process, and the invariant.                                         *)

\* A process that starts without a manager keeps the invariant.
LEMMA BootPlain ==
    ASSUME AcmeInv, ~up, conf' = SeedFromYAML, account' \in BOOLEAN, up' = TRUE,
           UNCHANGED <<certs, mgrs, current, worker, admin, hosts, events>>
    PROVE  AcmeInv'
<1>1. TypeInv'
  BY AcmeAssumption DEF AcmeInv, TypeInv, SeedFromYAML
<1>2. WorkersOK' /\ FramesOK' /\ LoopsOK'
  BY DEF AcmeInv, WorkersOK, FramesOK, LoopsOK
<1> QED
  BY <1>1, <1>2 DEF AcmeInv, DownOK

\* A process that starts with a manager, and its loop, keeps the invariant.
LEMMA BootInv ==
    ASSUME AcmeInv, BootManager
    PROVE  AcmeInv'
<1>1. /\ ~up /\ conf' = SeedFromYAML /\ account' = TRUE /\ current' = 1 /\ up' = TRUE
      /\ Spawn(1, TRUE) /\ UNCHANGED <<certs, admin, hosts, events>>
  BY DEF BootManager, registerIfNeeded
<1>2. PICK cache \in {certs, Empty} : mgrs' = <<[started |-> TRUE, cache |-> cache]>>
  BY DEF BootManager, loadCertificatesFromStore, NewManager
<1> DEFINE t == [started |-> TRUE, cache |-> cache]
<1>3. t \in Manager /\ t.started = TRUE /\ mgrs' = <<t>>
  BY <1>2, StoreEmpty DEF AcmeInv, TypeInv, Manager
<1> HIDE DEF t
<1>4. mgrs' \in Seq(Manager) /\ Len(mgrs') = 1 /\ DOMAIN mgrs' = {1} /\ mgrs'[1].started
  BY <1>3
<1>5. /\ worker \in [Workers -> Worker] /\ admin \in [Admins -> Frame]
      /\ \A w \in Workers : worker[w].pc = "idle" /\ WorkerOK(worker[w], 0) /\ Apart(worker[w])
      /\ \A a \in Admins : FrameOK(admin[a], 0)
  BY <1>1 DEF AcmeInv, TypeInv, DownOK, WorkersOK, FramesOK
<1>6. PICK v \in Workers : \E r \in Worker :
             /\ worker[v].pc = "idle" /\ worker' = [worker EXCEPT ![v] = r]
             /\ r.pc = "ensure" /\ r.mgr = 1 /\ r.live = TRUE /\ Apart(r)
             /\ \A count \in Nat : 1 <= count => WorkerOK(r, count)
  <2>1. 1 \in Nat \ {0}
    OBVIOUS
  <2> QED
    BY <1>1, <2>1, SpawnFacts, Zenon
<1>7. PICK r \in Worker :
             /\ worker' = [worker EXCEPT ![v] = r]
             /\ r.mgr = 1 /\ r.live = TRUE /\ Apart(r)
             /\ \A count \in Nat : 1 <= count => WorkerOK(r, count)
  BY <1>6
<1>8. WorkerOK(r, 1)
  BY <1>7
<1>9. /\ worker' \in [Workers -> Worker] /\ worker'[v] = r
      /\ \A u \in Workers : u # v => worker'[u] = worker[u]
  BY <1>5, <1>7
<1>10. WorkersOK'
  <2>1. ASSUME NEW u \in Workers
        PROVE  WorkerOK(worker'[u], 1) /\ Apart(worker'[u])
    <3>1. CASE u = v
      BY <3>1, <1>7, <1>8, <1>9
    <3>2. CASE u # v
      <4>1. worker'[u] = worker[u] /\ worker[u] \in Worker /\ WorkerOK(worker[u], 0) /\ Apart(worker[u])
        BY <3>2, <1>5, <1>9
      <4> QED
        BY <4>1 DEF WorkerOK, Worker
    <3> QED
      BY <3>1, <3>2
  <2> QED
    BY <2>1, <1>4 DEF WorkersOK
<1>11. \A u \in Workers : worker'[u].live => u = v
  BY <1>5, <1>9 DEF WorkerOK
<1>12. LoopsOK'
  BY <1>4, <1>7, <1>9, <1>11 DEF LoopsOK
<1>13. FramesOK'
  <2>1. ASSUME NEW a \in Admins
        PROVE  FrameOK(admin[a], 1)
    <3>1. admin[a] \in Frame /\ FrameOK(admin[a], 0)
      BY <1>5
    <3> QED
      BY <3>1 DEF FrameOK, Frame
  <2> QED
    BY <1>1, <1>4, <2>1 DEF FramesOK
<1>14. TypeInv'
  BY <1>1, <1>4, <1>9, AcmeAssumption DEF AcmeInv, TypeInv, SeedFromYAML
<1> QED
  BY <1>1, <1>10, <1>12, <1>13, <1>14 DEF AcmeInv, DownOK

\* No process: no goroutines, no frames, only the tables and the routes.
Quiet ==
    /\ mgrs = <<>> /\ current = 0 /\ up = FALSE
    /\ worker = [w \in Workers |-> IdleWorker] /\ admin = [a \in Admins |-> IdleAdmin]
    /\ conf \in Conf \union {NoConf} /\ account \in BOOLEAN /\ certs \in FiledStores
    /\ hosts \in Lists /\ events \in 0 .. MaxEvents

\* Nothing of the invariant is lost when all goroutines and frames are.
LEMMA EmptyInv == Quiet => AcmeInv
<1> SUFFICES ASSUME Quiet PROVE AcmeInv
  OBVIOUS
<1> USE DEF Quiet
<1>1. Len(mgrs) = 0 /\ DOMAIN mgrs = {} /\ mgrs \in Seq(Manager)
  OBVIOUS
<1>2. TypeInv
  <2>1. Len(mgrs) <= MaxManagers /\ current \in 0 .. Len(mgrs)
    BY <1>1, AcmeAssumption
  <2>2. worker \in [Workers -> Worker]
    BY IdleFacts
  <2>3. admin \in [Admins -> Frame]
    BY LeaveFacts
  <2>4. up \in BOOLEAN
    OBVIOUS
  <2> QED
    BY <1>1, <2>1, <2>2, <2>3, <2>4 DEF TypeInv
<1>3. WorkersOK
  BY <1>1, IdleFacts DEF WorkersOK
<1>4. FramesOK
  BY <1>1, LeaveFacts DEF FramesOK
<1>5. LoopsOK
  BY <1>1, IdleFacts DEF LoopsOK
<1>6. DownOK
  BY IdleFacts DEF DownOK, IdleAdmin
<1> QED
  BY <1>2, <1>3, <1>4, <1>5, <1>6 DEF AcmeInv

\* Certificates that come to be due keep their names.
LEMMA AgeInv ==
    ASSUME AcmeInv, CertificatesAge
    PROVE  AcmeInv'
<1>0. mgrs \in Seq(Manager) /\ Len(mgrs) \in Nat /\ worker \in [Workers -> Worker]
      /\ events \in 0 .. MaxEvents /\ certs \in FiledStores
  BY DEF AcmeInv, TypeInv
<1>1. /\ certs' = Due(certs) /\ events' \in 0 .. MaxEvents
      /\ mgrs' = [i \in DOMAIN mgrs |-> [mgrs[i] EXCEPT !.cache = Due(mgrs[i].cache)]]
      /\ worker' = [w \in Workers |-> IF worker[w].pc = "persist"
                                     THEN [worker[w] EXCEPT !.cert = [worker[w].cert EXCEPT !.due = TRUE]]
                                     ELSE worker[w]]
      /\ UNCHANGED <<conf, account, current, admin, hosts, up>>
  BY <1>0, AcmeAssumption DEF CertificatesAge, Event
<1>2. ASSUME NEW i \in 1 .. Len(mgrs)
      PROVE  mgrs'[i] \in Manager /\ mgrs'[i].started = mgrs[i].started
  <2>0. mgrs[i] \in Manager /\ i \in DOMAIN mgrs
    BY <1>0, ElementOfSeq
  <2>1. mgrs[i] \in Manager /\ mgrs[i].cache \in FiledStores
    BY <2>0 DEF Manager
  <2>2. Due(mgrs[i].cache) \in FiledStores
    BY <2>1, StoreDue
  <2>3. mgrs'[i] = [mgrs[i] EXCEPT !.cache = Due(mgrs[i].cache)]
    BY <1>1, <2>0, Zenon
  <2> QED
    BY <2>1, <2>2, <2>3 DEF Manager
<1>3. /\ mgrs' \in Seq(Manager) /\ Len(mgrs') = Len(mgrs) /\ DOMAIN mgrs' = DOMAIN mgrs
      /\ \A i \in DOMAIN mgrs : mgrs'[i].started = mgrs[i].started
  <2>1. DOMAIN mgrs = 1 .. Len(mgrs) /\ DOMAIN mgrs' = 1 .. Len(mgrs)
        /\ mgrs' = [i \in 1 .. Len(mgrs) |-> mgrs'[i]]
    BY <1>0, <1>1
  <2>2. mgrs' \in [1 .. Len(mgrs) -> Manager]
    BY <1>2, <2>1
  <2>3. mgrs' \in Seq(Manager) /\ Len(mgrs') = Len(mgrs)
    BY <1>0, <2>2
  <2> QED
    BY <1>2, <2>1, <2>3
<1>4. ASSUME NEW w \in Workers
      PROVE  /\ worker'[w] \in Worker /\ WorkerOK(worker'[w], Len(mgrs)) /\ Apart(worker'[w])
             /\ worker'[w].live <=> worker[w].live
             /\ worker'[w].mgr = worker[w].mgr /\ worker'[w].pc = worker[w].pc
  <2>1. worker[w] \in Worker /\ WorkerOK(worker[w], Len(mgrs)) /\ Apart(worker[w])
    BY DEF AcmeInv, TypeInv, WorkersOK
  <2>2. CASE worker[w].pc # "persist"
    BY <1>1, <2>1, <2>2
  <2>3. CASE worker[w].pc = "persist"
    <3> DEFINE c == [worker[w].cert EXCEPT !.due = TRUE]
               r == [worker[w] EXCEPT !.cert = c]
    <3>1. c \in Cert /\ c.names = worker[w].cert.names
      BY <2>1 DEF Worker, Cert
    <3>2. worker'[w] = r
      BY <1>1, <2>3
    <3> HIDE DEF c
    <3>3. r \in Worker /\ r.pc = worker[w].pc /\ r.mgr = worker[w].mgr /\ r.loop = worker[w].loop
          /\ r.live = worker[w].live /\ r.todo = worker[w].todo /\ r.left = worker[w].left
          /\ r.cert = c
      BY <2>1, <3>1 DEF Worker
    <3> HIDE DEF r
    <3>4. WorkerOK(r, Len(mgrs))
      BY <2>1, <3>1, <3>3 DEF WorkerOK
    <3>5. Apart(r)
      BY <2>1, <3>3 DEF Apart
    <3> QED
      BY <3>2, <3>3, <3>4, <3>5
  <2> QED
    BY <2>2, <2>3
<1>5. worker' \in [Workers -> Worker] /\ WorkersOK'
  <2>1. worker' = [w \in Workers |-> worker'[w]]
    BY <1>1
  <2>2. worker' \in [Workers -> Worker]
    BY <2>1, <1>4
  <2> QED
    BY <2>2, <1>3, <1>4 DEF WorkersOK
<1>6. LoopsOK'
  BY <1>3, <1>4, LoopsKept
<1>7. certs' \in FiledStores
  BY <1>0, <1>1, StoreDue
<1>8. TypeInv'
  BY <1>1, <1>3, <1>5, <1>7 DEF AcmeInv, TypeInv
<1>9. FramesOK'
  BY <1>1, <1>3 DEF AcmeInv, FramesOK
<1>10. DownOK'
  <2>1. ASSUME ~up PROVE mgrs' = <<>>
    BY <2>1, <1>3 DEF AcmeInv, DownOK
  <2> QED
    BY <1>1, <1>4, <2>1 DEF AcmeInv, DownOK
<1> QED
  BY <1>5, <1>6, <1>8, <1>9, <1>10 DEF AcmeInv

\* The invariant of the certificates: the tables, managers, goroutines and frames have
\* their types, certificates are filed under names of their own, goroutines work on
\* batches that are apart, and live loops and started managers belong together.
THEOREM AcmeInvCorrect == AcmeSpec => []AcmeInv
<1>1. AcmeInit => AcmeInv
  <2> SUFFICES ASSUME AcmeInit PROVE AcmeInv
    OBVIOUS
  <2>1. conf \in Conf \union {NoConf} /\ account \in BOOLEAN /\ certs \in FiledStores
        /\ hosts \in Lists /\ events \in 0 .. MaxEvents
    <3>1. conf \in Conf \union {NoConf} /\ hosts \in Lists
      BY AcmeAssumption DEF AcmeInit
    <3>2. account \in BOOLEAN
      BY DEF AcmeInit
    <3>3. certs \in FiledStores
      BY StoreEmpty DEF AcmeInit
    <3>4. events \in 0 .. MaxEvents
      BY AcmeAssumption DEF AcmeInit
    <3> QED
      BY <3>1, <3>2, <3>3, <3>4
  <2> QED
    BY <2>1, EmptyInv DEF AcmeInit, Quiet
<1>2. AcmeInv /\ [AcmeNext]_acmeVars => AcmeInv'
  <2> SUFFICES ASSUME AcmeInv, [AcmeNext]_acmeVars PROVE AcmeInv'
    OBVIOUS
  <2>1. CASE \E w \in Workers : Work(w)
    BY <2>1, WorkInv
  <2>2. CASE \E a \in Admins : Request(a)
    BY <2>2, RequestInv
  <2>3. CASE BootManager
    BY <2>3, BootInv
  <2>4. CASE BootFails
    BY <2>4, BootPlain DEF BootFails, mgrVars, AcmeInv, TypeInv
  <2>5. CASE BootWithout
    BY <2>5, BootPlain DEF BootWithout, mgrVars, AcmeInv, TypeInv
  <2>6. CASE Crash
    <3>1. /\ mgrs' = <<>> /\ current' = 0 /\ up' = FALSE /\ worker' = [w \in Workers |-> IdleWorker]
          /\ admin' = [a \in Admins |-> IdleAdmin] /\ Event
          /\ UNCHANGED <<conf, account, certs, hosts>>
      BY <2>6 DEF Crash, storeVars
    <3>2. /\ conf' \in Conf \union {NoConf} /\ account' \in BOOLEAN /\ certs' \in FiledStores
          /\ hosts' \in Lists /\ events' \in 0 .. MaxEvents
      BY <3>1, AcmeAssumption DEF AcmeInv, TypeInv, Event
    <3>3. Quiet'
      BY <3>1, <3>2 DEF Quiet
    <3> QED
      BY <3>3, EmptyInv, PTL
  <2>7. CASE RoutesChange
    <3>1. /\ up /\ NotifyDomainsChanged /\ hosts' \in Lists /\ Event
          /\ UNCHANGED <<conf, account, certs, mgrs, current, admin, up>>
      BY <2>7 DEF RoutesChange, storeVars, mgrVars
    <3>2. worker' \in [Workers -> Worker] /\ WorkersOK' /\ LoopsOK'
      BY <3>1, NotifyFacts
    <3>3. TypeInv'
      BY <3>1, <3>2, AcmeAssumption DEF AcmeInv, TypeInv, Event
    <3>4. FramesOK' /\ DownOK'
      BY <3>1 DEF AcmeInv, FramesOK, DownOK
    <3> QED
      BY <3>2, <3>3, <3>4 DEF AcmeInv
  <2>8. CASE CertificatesAge
    BY <2>8, AgeInv
  <2>9. CASE UNCHANGED acmeVars
    <3>1. UNCHANGED <<conf, account, certs, mgrs, current, worker, admin, hosts, events, up>>
      BY <2>9 DEF acmeVars, storeVars, mgrVars
    <3> QED
      BY <3>1 DEF AcmeInv, TypeInv, WorkersOK, FramesOK, LoopsOK, DownOK
  <2> QED
    BY <2>1, <2>2, <2>3, <2>4, <2>5, <2>6, <2>7, <2>8, <2>9 DEF AcmeNext
<1> QED
  BY <1>1, <1>2, PTL DEF AcmeSpec
-----------------------------------------------------------------------------
(* What follows from the invariant.                                        *)

\* The types of AcmeTypeOK are those of the invariant.
LEMMA TypesFollow == AcmeInv => AcmeTypeOK
<1> SUFFICES ASSUME AcmeInv PROVE AcmeTypeOK
  OBVIOUS
<1>1. conf \in Conf \union {NoConf} /\ account \in BOOLEAN /\ IsStore(certs)
  BY StoreFacts DEF AcmeInv, TypeInv
<1>2. ASSUME NEW i \in 1 .. Len(mgrs)
      PROVE  mgrs[i].started \in BOOLEAN /\ IsStore(mgrs[i].cache)
  <2>1. mgrs[i] \in Manager
    BY DEF AcmeInv, TypeInv
  <2> QED
    BY <2>1, StoreFacts DEF Manager
<1>3. ASSUME NEW w \in Workers
      PROVE  worker[w] \in [pc : {"idle", "ensure", "obtain", "persist", "wait"},
                             mgr : 0 .. Len(mgrs), loop : BOOLEAN, live : BOOLEAN,
                             todo : SUBSET SUBSET Names, left : SUBSET Names, cert : Cert]
  <2>1. worker[w] \in Worker /\ WorkerOK(worker[w], Len(mgrs)) /\ Len(mgrs) \in Nat
    BY DEF AcmeInv, TypeInv, WorkersOK
  <2> QED
    BY <2>1 DEF Worker, WorkerOK
<1>4. ASSUME NEW a \in Admins
      PROVE  admin[a] \in [pc : {"idle", "save", "toggle", "domains", "init", "switch", "notify",
                                  "swap", "start", "halt", "wipe", "clear"},
                            conf : Conf \union {NoConf}, mgr : 0 .. Len(mgrs)]
  <2>1. admin[a] \in Frame /\ FrameOK(admin[a], Len(mgrs)) /\ Len(mgrs) \in Nat
    BY DEF AcmeInv, TypeInv, FramesOK
  <2> QED
    BY <2>1 DEF Frame, FrameOK
<1> QED
  BY <1>1, <1>2, <1>3, <1>4 DEF AcmeInv, TypeInv, AcmeTypeOK

\* A certificate filed under names of its own serves them: what answers a handshake for
\* a name, from the cache or from the store, is valid for it, and is shown as active
\* when the name is in use.
THEOREM CertificatesServeCorrect == AcmeSpec => []CertificatesServe
<1>1. AcmeInv => CertificatesServe
  <2> SUFFICES ASSUME AcmeInv PROVE CertificatesServe
    OBVIOUS
  <2>1. ASSUME NEW m \in FiledStores, NEW n \in Names, NEW k \in GetCertificate(m, n)
        PROVE  /\ n \in m[k].names \/ (Len(n) > 1 /\ Wildcard(n) \in m[k].names)
               /\ k = n \/ (Len(n) > 1 /\ k = Wildcard(n))
    BY StoreFacts DEF GetCertificate
  <2>2. \A m \in {certs} \union {mgrs[i].cache : i \in DOMAIN mgrs} : m \in FiledStores
    <3>1. certs \in FiledStores /\ mgrs \in Seq(Manager)
      BY DEF AcmeInv, TypeInv
    <3>2. ASSUME NEW i \in DOMAIN mgrs PROVE mgrs[i].cache \in FiledStores
      <4>1. mgrs[i] \in Manager
        BY <3>1
      <4> QED
        BY <4>1 DEF Manager
    <3> QED
      BY <3>1, <3>2
  <2>3. ServedCovers
    BY <2>1, <2>2, Zenon DEF ServedCovers
  <2>4. ASSUME NEW n \in Asked, NEW k \in GetCertificate(certs, n)
        PROVE  isCertDomainActive(k, Asked)
    <3>1. n \in Names /\ certs \in FiledStores
      BY AskedFacts DEF AcmeInv, TypeInv
    <3>2. k = n \/ (Len(n) > 1 /\ k = Wildcard(n))
      BY <2>1, <2>4, <3>1, Zenon
    <3>3. CASE k = n
      BY <3>3 DEF isCertDomainActive
    <3>4. CASE Len(n) > 1 /\ k = Wildcard(n)
      <4>1. IsWildcard(k) /\ Tail(n) = Tail(k)
        BY <3>1, <3>4, NamesAreSequences, WildcardFacts
      <4> QED
        BY <3>4, <4>1 DEF isCertDomainActive
    <3> QED
      BY <3>2, <3>3, <3>4
  <2> QED
    BY <2>3, <2>4 DEF CertificatesServe, ShownActive
<1> QED
  BY <1>1, AcmeInvCorrect, PTL

\* A manager has one renewal loop while it is started and none once it is stopped, with
\* any number of administrators at work.
THEOREM OneLoopCorrect == AcmeSpec => [](AcmeTypeOK /\ OneLoop)
<1>1. AcmeInv => OneLoop
  <2> SUFFICES ASSUME AcmeInv, NEW m \in DOMAIN mgrs
               PROVE  Cardinality({w \in Workers : worker[w].mgr = m /\ worker[w].live})
                          = IF mgrs[m].started THEN 1 ELSE 0
    BY DEF OneLoop
  <2> DEFINE L == {w \in Workers : worker[w].mgr = m /\ worker[w].live}
  <2>1. CASE mgrs[m].started
    <3>1. PICK w \in Workers : worker[w].live /\ worker[w].mgr = m
      BY <2>1 DEF AcmeInv, LoopsOK
    <3>2. L = {w}
      BY <3>1 DEF AcmeInv, LoopsOK
    <3>3. Cardinality({w}) = 1
      BY FS_Singleton
    <3> HIDE DEF L
    <3>4. Cardinality(L) = 1
      BY <3>2, <3>3
    <3> QED
      BY <2>1, <3>4 DEF L
  <2>2. CASE ~mgrs[m].started
    <3>1. L = {}
      BY <2>2 DEF AcmeInv, LoopsOK
    <3>2. Cardinality(L) = 0
      BY <3>1, FS_EmptySet
    <3> QED
      BY <2>2, <3>2
  <2> QED
    BY <2>1, <2>2
<1> QED
  BY <1>1, TypesFollow, AcmeInvCorrect, PTL

\* A pass asks the CA for everything that is missing, and for nothing twice.
THEOREM PassesCompleteCorrect == AcmeSpec => PassesComplete
<1>1. AcmeInv => BatchesApart
  BY DEF AcmeInv, WorkersOK, Apart, BatchesApart
<1>2. AcmeInv /\ [AcmeNext]_acmeVars =>
        [\A w \in Workers : worker[w].pc = "ensure" /\ worker'[w].pc # "ensure" /\ up'
                                => PassCovers(w)]_acmeVars
  <2> SUFFICES ASSUME AcmeInv, AcmeNext, NEW w \in Workers, worker[w].pc = "ensure",
                      worker'[w].pc # "ensure", up'
               PROVE  PassCovers(w)
    OBVIOUS
  <2>0. worker \in [Workers -> Worker]
    BY DEF AcmeInv, TypeInv
  <2>1. EnsureCertificates(w)
    <3>1. ASSUME NEW v \in Workers, NEW r, worker' = [worker EXCEPT ![v] = r],
                 v # w
          PROVE  FALSE
      BY <2>0, <3>1
    <3>2. CASE \E v \in Workers : Work(v)
      <4>1. PICK v \in Workers : Work(v)
        BY <3>2
      <4>2. v = w
        BY <4>1, <3>1 DEF Work, EnsureCertificates, ObtainCertificate, ObtainFails, SaveCertificate,
           RenewalTick, LoopEnds, Step
      <4> QED
        BY <4>1, <4>2 DEF Work, ObtainCertificate, ObtainFails, SaveCertificate, RenewalTick, LoopEnds
    <3>3. ASSUME NEW m, NEW loop, Spawn(m, loop) PROVE FALSE
      <4>1. PICK v \in Workers : worker[v].pc = "idle" /\ \E r : worker' = [worker EXCEPT ![v] = r]
        BY <3>3 DEF Spawn
      <4> QED
        BY <4>1, <3>1
    <3>4. ASSUME NEW m, Start(m) \/ Stop(m) PROVE FALSE
      <4>1. CASE Start(m)
        BY <4>1, <3>3 DEF Start
      <4>2. CASE Stop(m)
        <5>1. worker'[w] \in {worker[w], [worker[w] EXCEPT !.live = FALSE]}
          BY <4>2 DEF Stop
        <5> QED
          BY <2>0, <5>1 DEF Worker
      <4> QED
        BY <3>4, <4>1, <4>2
    <3>5. CASE \E a \in Admins : Request(a)
      BY <3>3, <3>4, <3>5 DEF Request, SaveRequest, SaveConfiguration, CreateManager, SwapIn, StartCreated,
         ToggleEnabled, Switch, UpdateDomains, NotifyUpdated, NotifyDomainsChanged, ResetAll, ResetStops,
         StoreResetAll, ResetClears
    <3>6. CASE CertificatesAge
      <4>1. worker'[w] = worker[w]
        BY <3>6 DEF CertificatesAge
      <4> QED
        BY <4>1
    <3> QED
      BY <3>2, <3>3, <3>5, <3>6 DEF AcmeNext, BootManager, BootFails, BootWithout, Crash, RoutesChange,
         NotifyDomainsChanged
  <2> DEFINE cache == mgrs[worker[w].mgr].cache
             need == {n \in resolveDomains(collectAllDomains) : needsRenewal(cache, n)}
             got == {n \in DOMAIN cache : ~cache[n].due} \union UNION worker'[w].todo
  <2>2. need \subseteq UNION worker'[w].todo
    <3>1. worker'[w] = IF need = {} THEN After(w)
                       ELSE [worker[w] EXCEPT !.pc = "obtain", !.todo = groupDomainBatches(need)]
      BY <2>0, <2>1 DEF EnsureCertificates
    <3>2. need \in SUBSET Names
      BY AskedFacts DEF AcmeInv
    <3> HIDE DEF need
    <3>3. CASE need # {}
      <4>1. worker'[w].todo = groupDomainBatches(need)
        BY <2>0, <3>1, <3>3 DEF Worker
      <4> QED
        BY <3>2, <4>1, GroupFacts
    <3> QED
      BY <3>3
  <2>3. resolveDomains(collectAllDomains) \subseteq got
    BY <2>2 DEF needsRenewal
  <2> HIDE DEF got
  <2>4. \A n \in Asked : n \in got \/ (Len(n) > 1 /\ Wildcard(n) \in got)
    BY <2>3, ResolveComplete DEF AcmeInv
  <2> QED
    BY <2>4 DEF PassCovers, got
<1> QED
  BY <1>1, <1>2, AcmeInvCorrect, PTL DEF AcmeSpec, PassesComplete, NothingForgotten
-----------------------------------------------------------------------------
(* One administrator.                                                      *)

Alone == \A a, b \in Admins : a = b
AloneInv == HeldIsCurrent /\ StartedIsCurrent

\* A step that touches neither the frames, nor legoManager, nor what is started.
LEMMA AloneKept ==
    ASSUME AloneInv, UNCHANGED <<admin, current>>, DOMAIN mgrs' = DOMAIN mgrs,
           \A m \in DOMAIN mgrs : mgrs'[m].started <=> mgrs[m].started
    PROVE  AloneInv'
BY Zenon DEF AloneInv, HeldIsCurrent, StartedIsCurrent, At

\* A step after which only the manager in use is started, and the frame holds that one.
LEMMA AloneFrame ==
    ASSUME Alone, NEW a \in Admins, NEW r \in Frame, admin' = [admin EXCEPT ![a] = r],
           admin \in [Admins -> Frame],
           r.pc \in {"toggle", "switch", "start"} => r.mgr = current',
           \A m \in DOMAIN mgrs' : mgrs'[m].started => m = current'
    PROVE  AloneInv'
BY DEF Alone, AloneInv, HeldIsCurrent, StartedIsCurrent, At

\* The steps of the one administrator keep what is started and what is in use together.
LEMMA AloneRequest ==
    ASSUME Alone, AcmeInv, AcmeInv', AloneInv, NEW a \in Admins, Request(a)
    PROVE  AloneInv'
<1> USE DEF storeVars, mgrVars
<1>0. /\ admin \in [Admins -> Frame] /\ admin' \in [Admins -> Frame] /\ admin[a] \in Frame
      /\ mgrs \in Seq(Manager) /\ Len(mgrs) \in Nat /\ DOMAIN mgrs = 1 .. Len(mgrs)
      /\ current \in 0 .. Len(mgrs)
  BY DEF AcmeInv, TypeInv
<1>f. FrameOK(admin[a], Len(mgrs))
  BY DEF AcmeInv, FramesOK
<1>h. /\ admin[a].pc \in {"toggle", "switch", "start"} => admin[a].mgr = current
      /\ \A m \in DOMAIN mgrs : mgrs[m].started =>
            m = current \/ (admin[a].pc = "halt" /\ admin[a].mgr = m)
  BY DEF Alone, AloneInv, HeldIsCurrent, StartedIsCurrent, At
<1>k. ASSUME NEW r, admin' = [admin EXCEPT ![a] = r], admin[a].pc # "halt",
             DOMAIN mgrs' = DOMAIN mgrs, \A m \in DOMAIN mgrs : mgrs'[m].started <=> mgrs[m].started,
             current' = current, r.pc \in {"toggle", "switch", "start"} => r.mgr = current
      PROVE  AloneInv'
  <2>1. r \in Frame
    BY <1>0, <1>k
  <2>2. \A m \in DOMAIN mgrs' : mgrs'[m].started => m = current'
    BY <1>h, <1>k
  <2> QED
    BY <1>0, <1>k, <2>1, <2>2, AloneFrame
<1>i. IdleAdmin.pc = "idle"
  BY DEF IdleAdmin
<1>1. CASE SaveRequest(a)
  <2>1. PICK c : admin' = [admin EXCEPT ![a] = [pc |-> "save", conf |-> c, mgr |-> 0]]
    BY <1>1 DEF SaveRequest, Hold
  <2>2. UNCHANGED <<mgrs, current>> /\ admin[a].pc = "idle"
    BY <1>1 DEF SaveRequest, At
  <2> QED
    BY <2>1, <2>2, <1>k
<1>2. CASE SaveConfiguration(a)
  <2>1. UNCHANGED <<mgrs, current>> /\ admin[a].pc \in {"save", "toggle", "domains"}
    BY <1>2 DEF SaveConfiguration, At
  <2>2. CASE Leave(a)
    BY <2>1, <2>2, <1>i, <1>k DEF Leave
  <2>3. CASE ~Leave(a)
    <3>1. PICK pc \in {"init", "switch", "notify"} :
             Go(a, pc) /\ (pc = "switch" => admin[a].pc = "toggle")
      BY <1>2, <2>1, <2>3 DEF SaveConfiguration, At
    <3> DEFINE r == [admin[a] EXCEPT !.pc = pc]
    <3>2. admin' = [admin EXCEPT ![a] = r]
      BY <3>1 DEF Go
    <3>3. r.pc = pc /\ r.mgr = admin[a].mgr
      BY <1>0 DEF Frame
    <3> HIDE DEF r
    <3> QED
      BY <2>1, <3>1, <3>2, <3>3, <1>h, <1>k
  <2> QED
    BY <2>2, <2>3
<1>3. CASE CreateManager(a)
  <2>1. current' = current /\ admin[a].pc = "init"
    BY <1>3 DEF CreateManager, At
  <2>2. CASE UNCHANGED mgrs /\ Leave(a)
    BY <2>1, <2>2, <1>i, <1>k DEF Leave
  <2>3. CASE ~(UNCHANGED mgrs /\ Leave(a))
    <3>1. PICK cache : mgrs' = Append(mgrs, [started |-> FALSE, cache |-> cache])
      BY <1>3, <2>3 DEF CreateManager, loadCertificatesFromStore, NewManager
    <3> DEFINE r == [pc |-> "swap", conf |-> conf, mgr |-> Len(mgrs) + 1]
               t == [started |-> FALSE, cache |-> cache]
    <3>2. admin' = [admin EXCEPT ![a] = r] /\ r.pc = "swap"
      BY <1>3, <2>3 DEF CreateManager, Hold
    <3>3. t.started = FALSE /\ mgrs' = Append(mgrs, t)
      BY <3>1
    <3> HIDE DEF r, t
    <3>4. DOMAIN mgrs' = 1 .. Len(mgrs) + 1 /\ mgrs'[Len(mgrs) + 1] = t
          /\ \A i \in 1 .. Len(mgrs) : mgrs'[i] = mgrs[i]
      BY <1>0, <3>3
    <3>5. ASSUME NEW m \in DOMAIN mgrs', mgrs'[m].started PROVE m = current'
      <4>1. m # Len(mgrs) + 1
        BY <3>3, <3>4, <3>5
      <4>2. m \in DOMAIN mgrs /\ mgrs[m].started
        BY <1>0, <3>4, <3>5, <4>1
      <4> QED
        BY <1>h, <2>1, <4>2
    <3>6. r \in Frame
      BY <1>0, <3>2
    <3> QED
      BY <1>0, <3>2, <3>5, <3>6, AloneFrame
  <2> QED
    BY <2>2, <2>3
<1>4. CASE SwapIn(a)
  <2>1. mgrs' = mgrs /\ admin[a].pc = "swap"
    BY <1>4 DEF SwapIn, At
  <2>2. CASE current # 0
    <3>1. current' = current /\ admin' = [admin EXCEPT ![a] = IdleAdmin]
      BY <1>4, <2>2 DEF SwapIn, Leave
    <3> QED
      BY <2>1, <3>1, <1>i, <1>k
  <2>3. CASE current = 0
    <3>1. current' = admin[a].mgr
      BY <1>4, <2>3 DEF SwapIn
    <3>2. \A m \in DOMAIN mgrs' : mgrs'[m].started => m = current'
      BY <1>0, <1>h, <2>1, <2>3
    <3>3. PICK r : admin' = [admin EXCEPT ![a] = r] /\ (r.pc = "idle" \/ r.mgr = admin[a].mgr)
      <4>1. CASE Leave(a)
        BY <4>1, <1>i DEF Leave
      <4>2. CASE Go(a, "start")
        <5>1. admin' = [admin EXCEPT ![a] = [admin[a] EXCEPT !.pc = "start"]]
          BY <4>2 DEF Go
        <5>2. [admin[a] EXCEPT !.pc = "start"].mgr = admin[a].mgr
          BY <1>0 DEF Frame
        <5> QED
          BY <5>1, <5>2
      <4> QED
        BY <1>4, <2>3, <4>1, <4>2 DEF SwapIn
    <3>4. r \in Frame
      BY <1>0, <3>3
    <3> QED
      BY <1>0, <3>1, <3>2, <3>3, <3>4, AloneFrame
  <2> QED
    BY <2>2, <2>3
<1>5. CASE StartCreated(a) \/ Switch(a)
  <2>1. /\ admin[a].pc \in {"start", "switch"} /\ (Start(admin[a].mgr) \/ Stop(admin[a].mgr))
        /\ admin' = [admin EXCEPT ![a] = IdleAdmin] /\ current' = current
    BY <1>5 DEF StartCreated, Switch, At, Leave
  <2>2. admin[a].mgr \in 1 .. Len(mgrs)
    BY <1>0, <1>f, <2>1 DEF FrameOK, Frame
  <2>3. /\ \A i \in DOMAIN mgrs : mgrs'[i].started => mgrs[i].started \/ i = admin[a].mgr
        /\ DOMAIN mgrs' = DOMAIN mgrs
    <3>1. mgrs' \in Seq(Manager) /\ Len(mgrs') = Len(mgrs)
      BY <2>1, <2>2, StartFacts, StopFacts
    <3>2. \A i \in DOMAIN mgrs : mgrs'[i].started => mgrs[i].started \/ i = admin[a].mgr
      BY <2>1, <2>2, StartFacts, StopFacts
    <3> QED
      BY <1>0, <3>1, <3>2
  <2>4. \A m \in DOMAIN mgrs' : mgrs'[m].started => m = current'
    BY <1>h, <2>1, <2>3
  <2> QED
    BY <1>0, <1>i, <2>1, <2>4, LeaveFacts, AloneFrame
<1>6. CASE ToggleEnabled(a)
  <2>1. PICK c : admin' = [admin EXCEPT ![a] = [pc |-> "toggle", conf |-> c, mgr |-> current]]
    BY <1>6 DEF ToggleEnabled, Hold
  <2>2. UNCHANGED <<mgrs, current>> /\ admin[a].pc = "idle"
    BY <1>6 DEF ToggleEnabled, At
  <2> QED
    BY <2>1, <2>2, <1>k
<1>7. CASE UpdateDomains(a)
  <2>1. PICK c : admin' = [admin EXCEPT ![a] = [pc |-> "domains", conf |-> c, mgr |-> 0]]
    BY <1>7 DEF UpdateDomains, Hold
  <2>2. UNCHANGED <<mgrs, current>> /\ admin[a].pc = "idle"
    BY <1>7 DEF UpdateDomains, At
  <2> QED
    BY <2>1, <2>2, <1>k
<1>8. CASE NotifyUpdated(a)
  <2>1. UNCHANGED <<mgrs, current>> /\ admin[a].pc = "notify" /\ admin' = [admin EXCEPT ![a] = IdleAdmin]
    BY <1>8 DEF NotifyUpdated, At, Leave
  <2> QED
    BY <2>1, <1>i, <1>k
<1>9. CASE ResetAll(a)
  <2>1. mgrs' = mgrs /\ admin[a].pc = "idle" /\ current' = 0
    BY <1>9 DEF ResetAll, At
  <2> DEFINE r == [pc |-> IF current = 0 THEN "wipe" ELSE "halt", conf |-> NoConf, mgr |-> current]
  <2>2. admin' = [admin EXCEPT ![a] = r]
    BY <1>9 DEF ResetAll, Hold
  <2>3. admin'[a] = r
    BY <1>0, <2>2
  <2>4. HeldIsCurrent'
    BY <2>3 DEF Alone, HeldIsCurrent
  <2>5. ASSUME NEW m \in DOMAIN mgrs', mgrs'[m].started
        PROVE  admin'[a].pc = "halt" /\ admin'[a].mgr = m
    <3>1. m = current /\ current # 0
      BY <1>0, <1>h, <2>1, <2>5
    <3> QED
      BY <2>3, <3>1
  <2> QED
    BY <2>4, <2>5 DEF AloneInv, StartedIsCurrent, At
<1>10. CASE ResetStops(a)
  <2> DEFINE r == [admin[a] EXCEPT !.pc = "wipe"]
  <2>1. /\ admin[a].pc = "halt" /\ Stop(admin[a].mgr) /\ current' = current
        /\ admin' = [admin EXCEPT ![a] = r]
    BY <1>10 DEF ResetStops, At, Go
  <2>2. r \in Frame /\ r.pc = "wipe"
    BY <1>0 DEF Frame
  <2> HIDE DEF r
  <2>3. admin[a].mgr \in 1 .. Len(mgrs)
    BY <1>0, <1>f, <2>1 DEF FrameOK, Frame
  <2>4. mgrs' \in Seq(Manager) /\ Len(mgrs') = Len(mgrs)
    BY <2>1, <2>3, StopFacts
  <2>5. \A i \in DOMAIN mgrs : mgrs'[i].started => mgrs[i].started /\ i # admin[a].mgr
    BY <2>1, <2>3, StopFacts
  <2>6. DOMAIN mgrs' = DOMAIN mgrs
    BY <1>0, <2>4
  <2>7. \A m \in DOMAIN mgrs' : mgrs'[m].started => m = current'
    BY <1>h, <2>1, <2>5, <2>6
  <2> QED
    BY <1>0, <2>1, <2>2, <2>7, AloneFrame
<1>11. CASE StoreResetAll(a)
  <2>1. UNCHANGED <<mgrs, current>> /\ admin[a].pc = "wipe"
    BY <1>11 DEF StoreResetAll, At
  <2>2. CASE Leave(a)
    BY <2>1, <2>2, <1>i, <1>k DEF Leave
  <2>3. CASE Go(a, "clear")
    <3> DEFINE r == [admin[a] EXCEPT !.pc = "clear"]
    <3>1. admin' = [admin EXCEPT ![a] = r]
      BY <2>3 DEF Go
    <3>2. r.pc = "clear"
      BY <1>0 DEF Frame
    <3> HIDE DEF r
    <3> QED
      BY <2>1, <3>1, <3>2, <1>k
  <2> QED
    BY <1>11, <2>2, <2>3 DEF StoreResetAll
<1>12. CASE ResetClears(a)
  <2>1. /\ admin[a].pc = "clear" /\ admin' = [admin EXCEPT ![a] = IdleAdmin] /\ current' = current
        /\ mgrs' = [mgrs EXCEPT ![admin[a].mgr] = [mgrs[admin[a].mgr] EXCEPT !.cache = Empty]]
    BY <1>12 DEF ResetClears, At, Leave
  <2>2. admin[a].mgr \in 1 .. Len(mgrs) /\ mgrs[admin[a].mgr] \in Manager
    BY <1>0, <1>f, <2>1 DEF FrameOK, Frame
  <2> DEFINE t == [mgrs[admin[a].mgr] EXCEPT !.cache = Empty]
  <2>3. t.started = mgrs[admin[a].mgr].started
    BY <2>2 DEF Manager
  <2>4. mgrs' = [mgrs EXCEPT ![admin[a].mgr] = t]
    BY <2>1
  <2> HIDE DEF t
  <2>5. DOMAIN mgrs' = DOMAIN mgrs /\ \A m \in DOMAIN mgrs : mgrs'[m].started <=> mgrs[m].started
    BY <1>0, <2>3, <2>4
  <2> QED
    BY <2>1, <2>5, <1>i, <1>k
<1> QED
  BY <1>1, <1>2, <1>3, <1>4, <1>5, <1>6, <1>7, <1>8, <1>9, <1>10, <1>11, <1>12 DEF Request

\* With one administrator at work each started manager has one renewal loop, and only the
\* manager in use is started, or the one a reset is about to stop: no reset leaves a loop
\* behind that goes on asking the CA with the old account.
THEOREM LoopsMatchCorrect == Alone => (AcmeSpec => []LoopsMatch)
<1> SUFFICES ASSUME Alone PROVE AcmeSpec => []LoopsMatch
  OBVIOUS
<1>1. AcmeInit => AloneInv
  BY DEF AcmeInit, AloneInv, HeldIsCurrent, StartedIsCurrent, IdleAdmin
<1>2. AloneInv /\ AcmeInv /\ AcmeInv' /\ [AcmeNext]_acmeVars => AloneInv'
  <2> SUFFICES ASSUME AloneInv, AcmeInv, AcmeInv', [AcmeNext]_acmeVars PROVE AloneInv'
    OBVIOUS
  <2> USE DEF storeVars, mgrVars
  <2>0. mgrs \in Seq(Manager) /\ DOMAIN mgrs = 1 .. Len(mgrs)
    BY DEF AcmeInv, TypeInv
  <2>1. CASE \E w \in Workers : Work(w)
    <3>1. PICK w \in Workers : Work(w)
      BY <2>1
    <3>2. CASE ObtainCertificate(w)
      <4>1. PICK d : mgrs' = [mgrs EXCEPT ![worker[w].mgr] = [mgrs[worker[w].mgr] EXCEPT !.cache = d]]
        BY <3>2 DEF ObtainCertificate
      <4>2. UNCHANGED <<admin, current>>
        BY <3>2 DEF ObtainCertificate
      <4>3. ASSUME NEW m \in DOMAIN mgrs
            PROVE  mgrs'[m].started <=> mgrs[m].started
        <5>1. mgrs[m] \in Manager
          BY <2>0
        <5>2. CASE m = worker[w].mgr
          BY <2>0, <4>1, <5>1, <5>2 DEF Manager
        <5>3. CASE m # worker[w].mgr
          BY <2>0, <4>1, <5>3
        <5> QED
          BY <5>2, <5>3
      <4>4. DOMAIN mgrs' = DOMAIN mgrs
        BY <4>1
      <4> QED
        BY <4>2, <4>3, <4>4, AloneKept
    <3>3. CASE ~ObtainCertificate(w)
      <4>1. UNCHANGED <<admin, current, mgrs>>
        BY <3>1, <3>3 DEF Work, EnsureCertificates, ObtainFails, SaveCertificate, RenewalTick, LoopEnds
      <4> QED
        BY <4>1, AloneKept
    <3> QED
      BY <3>2, <3>3
  <2>2. CASE \E a \in Admins : Request(a)
    BY <2>2, AloneRequest
  <2>3. CASE BootManager
    <3>1. PICK cache : mgrs' = <<NewManager(TRUE, cache)>>
      BY <2>3 DEF BootManager
    <3>2. current' = 1 /\ admin' = admin /\ \A a \in Admins : admin[a].pc = "idle"
      BY <2>3 DEF BootManager, AcmeInv, DownOK
    <3>3. DOMAIN mgrs' = {1}
      BY <3>1
    <3> QED
      BY <3>2, <3>3 DEF AloneInv, HeldIsCurrent, StartedIsCurrent
  <2>4. CASE BootFails \/ BootWithout \/ RoutesChange \/ UNCHANGED acmeVars
    <3>1. UNCHANGED <<admin, current, mgrs>>
      BY <2>4 DEF BootFails, BootWithout, RoutesChange, acmeVars
    <3> QED
      BY <3>1, AloneKept
  <2>5. CASE Crash
    <3>1. mgrs' = <<>> /\ admin' = [a \in Admins |-> IdleAdmin]
      BY <2>5 DEF Crash
    <3> QED
      BY <3>1 DEF AloneInv, HeldIsCurrent, StartedIsCurrent, IdleAdmin
  <2>6. CASE CertificatesAge
    <3>1. /\ UNCHANGED <<admin, current>>
          /\ mgrs' = [i \in DOMAIN mgrs |-> [mgrs[i] EXCEPT !.cache = Due(mgrs[i].cache)]]
      BY <2>6 DEF CertificatesAge
    <3>2. ASSUME NEW m \in DOMAIN mgrs PROVE mgrs'[m].started <=> mgrs[m].started
      <4>1. mgrs[m] \in Manager
        BY <2>0
      <4> DEFINE d == Due(mgrs[m].cache)
      <4>2. mgrs'[m] = [mgrs[m] EXCEPT !.cache = d]
        BY <3>1, Zenon
      <4> HIDE DEF d
      <4> QED
        BY <4>1, <4>2 DEF Manager
    <3>3. DOMAIN mgrs' = DOMAIN mgrs
      BY <3>1
    <3> QED
      BY <3>1, <3>2, <3>3, AloneKept
  <2> QED
    BY <2>1, <2>2, <2>3, <2>4, <2>5, <2>6 DEF AcmeNext
<1>3. AcmeTypeOK /\ OneLoop /\ AloneInv => LoopsMatch
  BY DEF AloneInv, LoopsMatch
<1> QED
  BY <1>1, <1>2, <1>3, AcmeInvCorrect, OneLoopCorrect, PTL DEF AcmeSpec
=============================================================================
