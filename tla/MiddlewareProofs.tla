-------------------------- MODULE MiddlewareProofs --------------------------
(***************************************************************************)
(* Proofs about what counts requests: the circuit breaker, for every       *)
(* threshold and number of requests at once, and the metrics manager, for  *)
(* every tree of collectors and any number of workers and clients; and     *)
(* about the cache subsystem they report through, for any number of        *)
(* goroutines and caches.                                                  *)
(***************************************************************************)
EXTENDS CircuitBreaker, Metrics, CacheHub, FiniteSetTheorems, SequenceTheorems, TLAPS

-----------------------------------------------------------------------------
(* Circuit breaker.                                                        *)

\* What a request has loaded was the count at some time, so it is bounded by the
\* failures counted since; and a request that is past a comparison still has the
\* value that passed it.
LoadedIsSound ==
    \A r \in Requests :
        /\ 0 <= count[r] /\ count[r] <= failures
        /\ pc[r] \in {"check", "halfOpen", "rejected"} => count[r] >= FailureThreshold
        /\ pc[r] = "cas" => count[r] > 0

\* A stored time, and one about to be stored, is no younger than the latest taken.
TimesTaken ==
    /\ latest <= lastFailure
    /\ \A r \in Requests : pc[r] = "store" => latest <= stamp[r]

IInv == TypeOK /\ CountIsSound /\ LoadedIsSound /\ TimesTaken

\* Ages stay ages as time passes, and keep their order.
LEMMA OlderType ==
    \A a, b \in Age : Older(a) \in Age /\ (a <= b => Older(a) <= Older(b))
BY BreakerAssumption DEF Older, Age, BreakerAssumption

\* The half-open count lies between zero and the count it is computed from.
LEMMA ReducedBounds == \A n \in Int : n >= 0 => Reduced(n) \in Int /\ 0 <= Reduced(n) /\ Reduced(n) <= n
BY BreakerAssumption DEF Reduced, BreakerAssumption

\* The specification starts in the inductive invariant.
LEMMA IInvInit == Init => IInv
<1> SUFFICES ASSUME Init PROVE IInv
  OBVIOUS
<1>1. healthy \in BOOLEAN
  BY DEF Init
<1>2. TypeOK
  BY <1>1, BreakerAssumption DEF Init, TypeOK, Age, BreakerAssumption
<1>3. CountIsSound /\ LoadedIsSound
  BY DEF Init, CountIsSound, LoadedIsSound
<1>4. TimesTaken
  BY BreakerAssumption DEF Init, TimesTaken, BreakerAssumption
<1> QED BY <1>2, <1>3, <1>4 DEF IInv

\* Every atomic operation of every request keeps the inductive invariant.
LEMMA IInvStep == IInv /\ [Next]_vars => IInv'
<1> SUFFICES ASSUME IInv, [Next]_vars PROVE IInv'
  OBVIOUS
<1> USE BreakerAssumption DEF BreakerAssumption, IInv, TypeOK, CountIsSound, LoadedIsSound, TimesTaken, Goto
<1>1. ASSUME NEW r \in Requests, Arrive(r) PROVE IInv'
  BY <1>1 DEF Arrive
<1>2. ASSUME NEW r \in Requests, Check(r) PROVE IInv'
  BY <1>2 DEF Check
<1>3. ASSUME NEW r \in Requests, HalfOpen(r) PROVE IInv'
  <2>1. /\ Reduced(count[r]) \in Int /\ 0 <= Reduced(count[r])
        /\ Reduced(count[r]) <= count[r]
    BY ReducedBounds
  <2> QED BY <1>3, <2>1 DEF HalfOpen
<1>4. ASSUME NEW r \in Requests, BackendFails(r) PROVE IInv'
  BY <1>4 DEF BackendFails
<1>5. ASSUME NEW r \in Requests, BackendAnswers(r) PROVE IInv'
  BY <1>5 DEF BackendAnswers
<1>6. ASSUME NEW r \in Requests, CountFailure(r) PROVE IInv'
  BY <1>6 DEF CountFailure, Age
<1>7. ASSUME NEW r \in Requests, TakeTime(r) PROVE IInv'
  BY <1>7 DEF TakeTime, Age
<1>8. ASSUME NEW r \in Requests, StoreTime(r) PROVE IInv'
  BY <1>8 DEF StoreTime
<1>9. ASSUME NEW r \in Requests, LoadForDecrement(r) PROVE IInv'
  BY <1>9 DEF LoadForDecrement
<1>10. ASSUME NEW r \in Requests, Decrement(r) PROVE IInv'
  BY <1>10 DEF Decrement
<1>11. ASSUME NEW r \in Requests, Rejected(r) PROVE IInv'
  BY <1>11 DEF Rejected
<1>12. ASSUME Tick PROVE IInv'
  BY <1>12, OlderType DEF Tick
<1>13. ASSUME Backend PROVE IInv'
  BY <1>13 DEF Backend
<1>14. ASSUME UNCHANGED vars PROVE IInv'
  BY <1>14 DEF vars
<1> QED
  BY <1>1, <1>2, <1>3, <1>4, <1>5, <1>6, <1>7, <1>8, <1>9, <1>10, <1>11, <1>12, <1>13, <1>14
     DEF Next, Serve

\* The inductive invariant holds in every reachable state.
THEOREM IInvCorrect == Spec => []IInv
BY IInvInit, IInvStep, PTL DEF Spec

\* Type correctness of the breaker's state.
THEOREM TypeCorrect == Spec => []TypeOK
<1>1. IInv => TypeOK BY DEF IInv
<1> QED BY <1>1, IInvCorrect, PTL

\* The failure count is never negative and never exceeds the failures counted,
\* however the Load, Add and CompareAndSwap operations of any number of requests
\* interleave.
THEOREM CountIsSoundCorrect == Spec => []CountIsSound
<1>1. IInv => CountIsSound BY DEF IInv
<1> QED BY <1>1, IInvCorrect, PTL

\* No request is turned away before failure-threshold failures have been counted.
THEOREM RejectionJustifiedCorrect == Spec => []RejectionJustified
<1>1. IInv => RejectionJustified
  BY BreakerAssumption DEF IInv, TypeOK, LoadedIsSound, RejectionJustified, BreakerAssumption
<1> QED BY <1>1, IInvCorrect, PTL

\* What the runs check of the breaker's count and of its rejections, for any
\* number of requests and any thresholds.
THEOREM BreakerSoundCorrect == Spec => []BreakerSound
<1>1. TypeOK /\ CountIsSound /\ RejectionJustified => BreakerSound BY DEF BreakerSound
<1> QED BY <1>1, TypeCorrect, CountIsSoundCorrect, RejectionJustifiedCorrect, PTL

\* No request is turned away later than the recovery time after the latest failure
\* whose time was taken, in whatever order the times are stored.
THEOREM RejectionTimelyCorrect == Spec => RejectionTimely
<1>1. IInv /\ [Next]_vars =>
        [\A r \in Requests : pc[r] = "check" /\ pc'[r] = "rejected" => latest < Recovery]_vars
  <2> SUFFICES ASSUME IInv, Next, NEW r \in Requests, pc[r] = "check", pc'[r] = "rejected"
              PROVE  latest < Recovery
    OBVIOUS
  <2>1. lastFailure < Recovery
    <3> USE DEF IInv, TypeOK, Goto
    <3>1. CASE \E q \in Requests : Check(q)
      BY <3>1 DEF Check
    <3>2. CASE \E q \in Requests : Arrive(q) \/ HalfOpen(q) \/ BackendFails(q) \/ BackendAnswers(q)
      BY <3>2 DEF Arrive, HalfOpen, BackendFails, BackendAnswers
    <3>3. CASE \E q \in Requests : CountFailure(q) \/ TakeTime(q) \/ StoreTime(q)
      BY <3>3 DEF CountFailure, TakeTime, StoreTime
    <3>4. CASE \E q \in Requests : LoadForDecrement(q) \/ Decrement(q) \/ Rejected(q)
      BY <3>4 DEF LoadForDecrement, Decrement, Rejected
    <3>5. CASE Tick \/ Backend
      BY <3>5 DEF Tick, Backend
    <3> QED BY <3>1, <3>2, <3>3, <3>4, <3>5 DEF Next, Serve
  <2> QED BY <2>1, BreakerAssumption DEF IInv, TypeOK, TimesTaken, Age, BreakerAssumption
<1> QED BY <1>1, IInvCorrect, PTL DEF Spec, RejectionTimely

-----------------------------------------------------------------------------
(* Metrics manager.                                                        *)

MetricRecord == [name : Names, parent : Nat, count : Nat, routed : Nat]
WorkerRecord == [at : Stages, cur : Nat, copy : Nat]
ClientRecord == [at : {"out", "registered", "stream", "panicked"}, open : BOOLEAN,
                 queued : 0 .. Buffer, dropped : BOOLEAN, told : [1 .. MaxObjects -> Nat]]
ReporterRecord == [at : {"idle", "send", "panicked"}, name : Names]

\* The metrics ever created: a parent is older than its children.
TreeTypes ==
    /\ metrics \in Seq(MetricRecord) /\ Len(metrics) \in 1 .. MaxObjects
    /\ \A i \in Ids : metrics[i].parent < i
    /\ connectionMetricsMap \in [Names -> 0 .. Len(metrics)]

\* The global metric is there for ever, so that the recursion of
\* TrackMetricsForConnection ends at a registered name.
TreeInv == TreeTypes /\ Registered(Global) /\ ParentsRegistered

\* A worker on its way up is at a metric that exists, and the count it has copied
\* there was right when it copied it.
WorkerInv ==
    /\ worker \in [Workers -> WorkerRecord]
    /\ \A w \in Workers : worker[w].at \in {"update", "notify", "broadcast"} => worker[w].cur \in Ids
    /\ \A w \in Workers : worker[w].at \in {"notify", "broadcast"} =>
                              worker[w].copy <= metrics[worker[w].cur].count
    /\ phase = "built" => \A w \in Workers : worker[w].at = "off"

\* The metric that worker w is about to count at.
Owed(w) == CASE worker[w].at = "update" -> worker[w].cur
             [] worker[w].at \in {"notify", "broadcast"} -> metrics[worker[w].cur].parent
             [] OTHER -> NoMetric

\* The sets that EveryLevelCounts counts are finite.
CountInv == EveryLevelCounts /\ \A i \in Ids : IsFiniteSet(CountedBelow(i))

\* What a client was told is not ahead of the counts.
ClientInv ==
    /\ client \in [Clients -> ClientRecord]
    /\ clients \subseteq Clients /\ clientCount = Cardinality(clients)
    /\ \A c \in clients : client[c].open /\ client[c].at \in {"registered", "stream"}
    /\ \A c \in Clients : \A i \in 1 .. MaxObjects :
           IF i \in Ids THEN client[c].told[i] <= metrics[i].count ELSE client[c].told[i] = 0

\* Worker w is about to tell the present count of metric i.
Telling(w, i) ==
    worker[w].cur = i /\ worker[w].at \in {"notify", "broadcast"} /\ worker[w].copy = metrics[i].count

\* NothingMissed with the worker that has the last count.
ToldInv ==
    \A c \in clients : client[c].at = "stream" /\ ~client[c].dropped /\ listening =>
        \A n \in Names : Registered(n) =>
            \/ client[c].told[connectionMetricsMap[n]] = metrics[connectionMetricsMap[n]].count
            \/ \E w \in Workers : Telling(w, connectionMetricsMap[n])

RestInv ==
    /\ reporter \in [Reporters -> ReporterRecord] /\ made \in 0 .. MaxReports
    /\ chanClosed \in BOOLEAN /\ listening \in BOOLEAN
    /\ phase \in {"built", "run", "unheard", "silent", "stopped"}

MetricsInv == TreeInv /\ WorkerInv /\ CountInv /\ ClientInv /\ ToldInv /\ RestInv

-----------------------------------------------------------------------------
\* The type invariant is a part of the inductive one.
LEMMA TypesFollow == MetricsInv => MetricsTypeOK
<1> SUFFICES ASSUME MetricsInv PROVE MetricsTypeOK
  OBVIOUS
<1>1. clientCount \in 0 .. Cardinality(Clients)
  <2>1. IsFiniteSet(Clients) /\ clients \subseteq Clients /\ clientCount = Cardinality(clients)
    BY MetricsAssumption DEF MetricsInv, ClientInv, MetricsAssumption
  <2>2. Cardinality(clients) <= Cardinality(Clients) /\ IsFiniteSet(clients)
    BY <2>1, FS_Subset
  <2>3. Cardinality(clients) \in Nat
    BY <2>2, FS_CardinalityType
  <2>4. Cardinality(Clients) \in Nat
    BY <2>1, FS_CardinalityType
  <2> QED BY <2>1, <2>2, <2>3, <2>4
<1>2. /\ \A n \in Names : connectionMetricsMap[n] \in Ids \union {NoMetric}
      /\ \A i \in Ids : metrics[i].name \in Names /\ metrics[i].parent \in Ids \union {NoMetric}
  <2>1. /\ Len(metrics) \in Nat /\ \A i \in Ids : metrics[i] \in MetricRecord /\ metrics[i].parent < i
        /\ \A n \in Names : connectionMetricsMap[n] \in 0 .. Len(metrics)
    BY DEF MetricsInv, TreeInv, TreeTypes, Ids
  <2>2. \A i \in Ids : metrics[i].name \in Names /\ metrics[i].parent \in Nat
    BY <2>1 DEF MetricRecord
  <2> QED BY <2>1, <2>2 DEF Ids, NoMetric
<1>3. \A r \in Reporters : reporter[r].at \in {"idle", "send", "panicked"} /\ reporter[r].name \in Names
  BY DEF MetricsInv, RestInv, ReporterRecord
<1>4. \A w \in Workers : worker[w].at \in Stages
  BY DEF MetricsInv, WorkerInv, WorkerRecord
<1>5. \A c \in Clients : client[c].queued \in 0 .. Buffer
  BY DEF MetricsInv, ClientInv, ClientRecord
<1> QED BY <1>1, <1>2, <1>3, <1>4, <1>5 DEF MetricsInv, ClientInv, RestInv, MetricsTypeOK

\* The manager starts with an empty tree and no client.
LEMMA MetricsInitInv == MetricsInit => MetricsInv
<1> SUFFICES ASSUME MetricsInit PROVE MetricsInv
  OBVIOUS
<1> DEFINE m == [name |-> Global, parent |-> NoMetric, count |-> 0, routed |-> 0]
<1>1. m \in MetricRecord /\ m.parent = 0 /\ m.count = 0 /\ m.routed = 0
  BY MetricsAssumption DEF MetricRecord, NoMetric, MetricsAssumption
<1>2. metrics = <<m>>
  BY DEF MetricsInit
<1> HIDE DEF m
<1>3. metrics \in Seq(MetricRecord) /\ Len(metrics) = 1 /\ metrics[1] = m /\ Ids = {1}
  BY <1>1, <1>2 DEF Ids
<1>4. TreeInv
  BY <1>1, <1>3, MetricsAssumption DEF MetricsInit, TreeInv, TreeTypes, Registered, ParentsRegistered,
     NoMetric, MetricsAssumption, Ids
<1>5. WorkerInv
  BY DEF MetricsInit, WorkerInv, WorkerRecord, Stages, NoMetric
<1>6. CountInv
  <2>1. \A i \in Ids : CountedBelow(i) = {} /\ Due(i) = {}
    BY <1>1, <1>3 DEF CountedBelow, Due, MetricsInit
  <2>2. IsFiniteSet({}) /\ Cardinality({}) = 0
    BY FS_EmptySet
  <2> QED BY <1>1, <1>3, <2>1, <2>2 DEF CountInv, EveryLevelCounts
<1>7. ClientInv
  <2>1. Outside \in ClientRecord
    BY MetricsAssumption DEF Outside, ClientRecord, Untold, MetricsAssumption
  <2>2. \A i \in 1 .. MaxObjects : Outside.told[i] = 0
    BY DEF Outside, Untold
  <2>3. clientCount = Cardinality(clients) /\ clients = {}
    BY FS_EmptySet DEF MetricsInit
  <2>4. client = [c \in Clients |-> Outside]
    BY DEF MetricsInit
  <2> QED BY <1>1, <1>3, <2>1, <2>2, <2>3, <2>4 DEF ClientInv
<1>8. ToldInv
  BY DEF ToldInv, MetricsInit
<1>9. RestInv
  <2>1. Idle \in ReporterRecord
    BY MetricsAssumption DEF Idle, ReporterRecord, MetricsAssumption
  <2>2. MaxReports \in Nat
    BY MetricsAssumption DEF MetricsAssumption
  <2>3. reporter \in [Reporters -> ReporterRecord] /\ made \in 0 .. MaxReports
    BY <2>1, <2>2 DEF MetricsInit
  <2> QED BY <2>3, Zenon DEF RestInv, MetricsInit
<1> QED BY <1>4, <1>5, <1>6, <1>7, <1>8, <1>9 DEF MetricsInv

-----------------------------------------------------------------------------
(* What the invariants rest on.                                              *)

\* Due in terms of what each worker owes.
DueOwed == \A i \in Ids : Due(i) = {w \in Workers : Owed(w) = i}
\* A metric waits for exactly the workers that still owe it a count.
LEMMA DueIsOwed == WorkerInv => DueOwed
<1> SUFFICES ASSUME WorkerInv, NEW i \in Ids, NEW w \in Workers
             PROVE  w \in Due(i) <=> Owed(w) = i
  BY DEF Due, DueOwed
<1>1. worker[w].at \in Stages /\ i # NoMetric
  BY DEF WorkerInv, WorkerRecord, Ids, NoMetric
<1> QED BY <1>1 DEF Due, Owed, Stages

\* What the type of the tree says of a metric and of a registered name.
LEMMA TreeFacts ==
    ASSUME TreeInv
    PROVE  /\ Len(metrics) \in Nat /\ Len(metrics) <= MaxObjects /\ MaxObjects \in Nat
           /\ \A j \in Ids :
                  /\ j \in 1 .. MaxObjects /\ metrics[j] \in MetricRecord
                  /\ metrics[j].count \in Nat /\ metrics[j].routed \in Nat
                  /\ metrics[j].parent \in 0 .. Len(metrics) /\ metrics[j].parent < j
           /\ \A n \in Names : Registered(n) => connectionMetricsMap[n] \in Ids
<1>1. Len(metrics) \in Nat /\ Len(metrics) <= MaxObjects /\ MaxObjects \in Nat
  BY MetricsAssumption DEF TreeInv, TreeTypes, MetricsAssumption
<1>2. \A j \in Ids : metrics[j] \in MetricRecord /\ metrics[j].parent < j /\ j \in 1 .. MaxObjects
  BY <1>1 DEF TreeInv, TreeTypes, Ids
<1>3. \A j \in Ids : metrics[j].count \in Nat /\ metrics[j].routed \in Nat /\ metrics[j].parent \in Nat
  BY <1>2 DEF MetricRecord
<1>4. \A n \in Names : Registered(n) => connectionMetricsMap[n] \in Ids
  BY <1>1 DEF TreeInv, TreeTypes, Ids, Registered, NoMetric
<1>5. \A j \in Ids : metrics[j].parent \in 0 .. Len(metrics)
  BY <1>1, <1>2, <1>3 DEF Ids
<1> QED BY <1>1, <1>2, <1>3, <1>4, <1>5

\* Names, parents and the map are left alone.
SameTree ==
    /\ connectionMetricsMap' = connectionMetricsMap /\ metrics' \in Seq(MetricRecord)
    /\ Len(metrics') = Len(metrics) /\ \A i \in Ids : metrics'[i].parent = metrics[i].parent

\* A step that changes counts only keeps the tree.
LEMMA TreeKept == TreeInv /\ SameTree => TreeInv' /\ Ids' = Ids
<1> SUFFICES ASSUME TreeInv, SameTree PROVE TreeInv' /\ Ids' = Ids
  OBVIOUS
<1>1. Ids' = Ids
  BY DEF SameTree, Ids
<1>2. TreeTypes'
  BY <1>1 DEF TreeInv, TreeTypes, SameTree
<1>3. \A n \in Names : Registered(n)' = Registered(n) /\ (Registered(n) => connectionMetricsMap[n] \in Ids)
  BY DEF SameTree, Registered, TreeInv, TreeTypes, Ids, NoMetric
<1>4. ParentsRegistered'
  BY <1>3 DEF SameTree, TreeInv, ParentsRegistered, Registered
<1>5. Registered(Global)'
  BY DEF SameTree, Registered, TreeInv
<1> QED BY <1>1, <1>2, <1>4, <1>5 DEF TreeInv

\* The sums stay as they are when the tree does and every worker owes what it owed.
LEMMA CountKept ==
    WorkerInv /\ WorkerInv' /\ CountInv /\ metrics' = metrics /\ (\A w \in Workers : Owed(w)' = Owed(w))
        => CountInv'
<1> SUFFICES ASSUME WorkerInv, WorkerInv', CountInv, metrics' = metrics, \A w \in Workers : Owed(w)' = Owed(w)
             PROVE  CountInv'
  OBVIOUS
<1>1. Ids' = Ids /\ \A i \in Ids : CountedBelow(i)' = CountedBelow(i)
  BY DEF Ids, CountedBelow
<1>2. DueOwed'
  BY DueIsOwed, PTL
<1>3. \A i \in Ids : Due(i)' = Due(i)
  BY <1>1, <1>2, DueIsOwed DEF DueOwed
<1> QED BY <1>1, <1>3 DEF CountInv, EveryLevelCounts

\* Nothing that the clients and the workers are compared with changes.
LEMMA ClientsKept ==
    /\ ClientInv /\ metrics' = metrics /\ UNCHANGED <<clients, clientCount, client>> => ClientInv'
    /\ ToldInv /\ UNCHANGED <<treeVars, worker, clients, client, listening>> => ToldInv'
<1>1. ClientInv /\ metrics' = metrics /\ UNCHANGED <<clients, clientCount, client>> => ClientInv'
  BY DEF ClientInv, Ids
<1>2. ToldInv /\ UNCHANGED <<treeVars, worker, clients, client, listening>> => ToldInv'
  BY DEF ToldInv, treeVars, Registered, Telling
<1> QED BY <1>1, <1>2

-----------------------------------------------------------------------------
(* The steps.                                                                *)

\* A step of a reporter, or of the manager, that leaves tree, workers and clients.
LEMMA QuietSteps ==
    ASSUME MetricsInv,
           \/ \E r \in Reporters : GiveUp(r) \/ SendOnClosed(r) \/ \E n \in Names : Report(r, n)
           \/ CloseMetricsChan \/ StopCollectingMetrics \/ RemoveListener
    PROVE  MetricsInv'
<1>1. UNCHANGED <<treeVars, worker, clients, clientCount, client>>
  BY DEF GiveUp, SendOnClosed, Report, CloseMetricsChan, StopCollectingMetrics, RemoveListener, brokerVars
<1>2. (phase' = "built" => phase = "built") /\ (listening' => listening)
  BY DEF GiveUp, SendOnClosed, Report, CloseMetricsChan, StopCollectingMetrics, RemoveListener, brokerVars
<1>3. TreeInv'
  BY <1>1 DEF MetricsInv, TreeInv, TreeTypes, Ids, Registered, ParentsRegistered, treeVars
<1>4. WorkerInv'
  BY <1>1, <1>2 DEF MetricsInv, WorkerInv, treeVars, Ids
<1>5. CountInv'
  BY <1>1, <1>4, CountKept DEF MetricsInv, Owed, treeVars
<1>6. ClientInv' /\ ToldInv'
  BY <1>1, <1>2, ClientsKept DEF MetricsInv, treeVars, ToldInv, Registered, Telling
<1>7. RestInv'
  <2>1. Idle \in ReporterRecord /\ [Idle EXCEPT !.at = "panicked"] \in ReporterRecord
    BY MetricsAssumption DEF Idle, ReporterRecord, MetricsAssumption
  <2>2. \A n \in Names : [at |-> "send", name |-> n] \in ReporterRecord
    BY DEF ReporterRecord
  <2>3. MaxReports \in Nat
    BY MetricsAssumption DEF MetricsAssumption
  <2>4. reporter' \in [Reporters -> ReporterRecord]
    BY <2>1, <2>2 DEF MetricsInv, RestInv, GiveUp, SendOnClosed, Report, CloseMetricsChan, StopCollectingMetrics,
       RemoveListener
  <2>5. made' \in 0 .. MaxReports
    BY <2>3 DEF MetricsInv, RestInv, GiveUp, SendOnClosed, Report, CloseMetricsChan, StopCollectingMetrics,
       RemoveListener
  <2>6. chanClosed' \in BOOLEAN /\ listening' \in BOOLEAN
    BY Zenon DEF MetricsInv, RestInv, GiveUp, SendOnClosed, Report, CloseMetricsChan, StopCollectingMetrics,
       RemoveListener, brokerVars
  <2>7. phase' \in {"built", "run", "unheard", "silent", "stopped"}
    BY DEF MetricsInv, RestInv, GiveUp, SendOnClosed, Report, CloseMetricsChan, StopCollectingMetrics,
       RemoveListener
  <2> QED BY <2>4, <2>5, <2>6, <2>7 DEF RestInv
<1> QED BY <1>3, <1>4, <1>5, <1>6, <1>7 DEF MetricsInv

\* The goroutines start: nobody owed anything, nobody does.
LEMMA StartStep == ASSUME MetricsInv, StartCollectingMetrics PROVE MetricsInv'
<1>1. UNCHANGED <<treeVars, reporter, made, chanClosed, listening, clients, clientCount, client>> /\ phase' = "run"
  BY DEF StartCollectingMetrics, brokerVars
<1>2. \A w \in Workers : worker[w] \in WorkerRecord /\ worker[w].at = "off"
  BY DEF MetricsInv, WorkerInv, StartCollectingMetrics
<1>3. worker' = [w \in Workers |-> [worker[w] EXCEPT !.at = "idle"]]
  BY DEF StartCollectingMetrics
<1>4. \A w \in Workers : worker'[w] \in WorkerRecord /\ worker'[w].at = "idle"
  BY <1>2, <1>3 DEF WorkerRecord, Stages
<1>5. WorkerInv'
  BY <1>1, <1>3, <1>4 DEF WorkerInv
<1>6. TreeInv'
  BY <1>1 DEF MetricsInv, TreeInv, TreeTypes, Ids, Registered, ParentsRegistered, treeVars
<1>7. CountInv'
  BY <1>1, <1>2, <1>4, <1>5, CountKept DEF MetricsInv, Owed, treeVars
<1>8. ClientInv'
  BY <1>1, ClientsKept DEF MetricsInv, treeVars
<1>9. ToldInv'
  BY <1>1, <1>2 DEF MetricsInv, ToldInv, Registered, Telling, treeVars
<1>10. RestInv'
  BY <1>1 DEF MetricsInv, RestInv
<1> QED BY <1>5, <1>6, <1>7, <1>8, <1>9, <1>10 DEF MetricsInv

\* The broker is stopped: no client is left to be told.
LEMMA CloseClientsStep == ASSUME MetricsInv, CloseClients PROVE MetricsInv'
<1>1. /\ UNCHANGED <<treeVars, reporter, worker, made, chanClosed, listening>> /\ phase' = "silent"
      /\ clients' = {} /\ clientCount' = 0
      /\ client' = [c \in Clients |-> IF c \in clients THEN [client[c] EXCEPT !.open = FALSE] ELSE client[c]]
  BY DEF CloseClients
<1>2. \A c \in Clients : client'[c] \in ClientRecord /\ client'[c].told = client[c].told
  BY <1>1, ZenonT(30) DEF MetricsInv, ClientInv, ClientRecord
<1>3. ClientInv'
  <2>1. clientCount' = Cardinality(clients')
    BY <1>1, FS_EmptySet
  <2>2. Ids' = Ids /\ metrics' = metrics
    BY <1>1 DEF Ids, treeVars
  <2>3. client' \in [Clients -> ClientRecord]
    BY <1>1, <1>2
  <2> QED BY <1>1, <1>2, <2>1, <2>2, <2>3 DEF MetricsInv, ClientInv
<1>4. TreeInv'
  BY <1>1 DEF MetricsInv, TreeInv, TreeTypes, Ids, Registered, ParentsRegistered, treeVars
<1>5. WorkerInv'
  BY <1>1 DEF MetricsInv, WorkerInv, treeVars, Ids
<1>6. CountInv'
  BY <1>1, <1>5, CountKept DEF MetricsInv, Owed, treeVars
<1>7. ToldInv'
  BY <1>1 DEF ToldInv
<1>8. RestInv'
  BY <1>1 DEF MetricsInv, RestInv
<1> QED BY <1>3, <1>4, <1>5, <1>6, <1>7, <1>8 DEF MetricsInv

\* The first d elements of a sequence.
LEMMA FirstElements ==
    ASSUME NEW D, NEW s \in Seq(D), NEW d \in 0 .. Len(s)
    PROVE  /\ SubSeq(s, 1, d) \in Seq(D) /\ Len(SubSeq(s, 1, d)) = d
           /\ \A i \in 1 .. d : SubSeq(s, 1, d)[i] = s[i]
<1>1. d \in Int /\ 1 \in Int /\ Len(s) \in Nat /\ \A i \in 1 .. d : s[i] \in D
  OBVIOUS
<1>2. /\ SubSeq(s, 1, d) \in Seq(D) /\ Len(SubSeq(s, 1, d)) = IF 1 <= d THEN d - 1 + 1 ELSE 0
      /\ \A i \in 1 .. d - 1 + 1 : SubSeq(s, 1, d)[i] = s[1 + i - 1]
  BY ONLY <1>1, SubSeqProperties
<1> QED BY <1>1, <1>2

\* The name one level up is a name, of the same server unless it is the global one.
LEMMA FrontName ==
    ASSUME NEW n \in Names, n # Global
    PROVE  /\ Front(n) \in Names /\ Len(Front(n)) = Len(n) - 1 /\ Len(n) > 0
           /\ Front(n) = Global \/ serverOf(Front(n)) = serverOf(n)
<1>1. n \in Seq(STRING) /\ Len(n) \in Nat /\ Len(n) > 0
  BY MetricsAssumption DEF MetricsAssumption, Global
<1>2. Front(n) = SubSeq(n, 1, Len(n) - 1)
  BY DEF Front
<1>3. Front(n) \in Names
  BY <1>1, <1>2, MetricsAssumption DEF MetricsAssumption
<1>4. Len(Front(n)) = Len(n) - 1 /\ \A i \in 1 .. Len(n) - 1 : Front(n)[i] = n[i]
  <2>1. Len(n) - 1 \in 0 .. Len(n)
    BY <1>1
  <2> QED BY ONLY <1>1, <1>2, <2>1, FirstElements
<1>5. Front(n) \in Seq(STRING)
  BY <1>3, MetricsAssumption DEF MetricsAssumption
<1>6. ASSUME Front(n) # Global PROVE Head(Front(n)) = Head(n)
  BY <1>1, <1>4, <1>5, <1>6 DEF Global
<1> QED BY <1>1, <1>3, <1>4, <1>6 DEF serverOf

\* A server's metrics go: what stays registered keeps its parent.
LEMMA RemoveStep == ASSUME MetricsInv, NEW p, RemoveMetricsForServer(p) PROVE MetricsInv'
<1> DEFINE gone(n) == n # Global /\ serverOf(n) = p
<1>1. /\ UNCHANGED <<metrics, reporter, worker, made, phase, chanClosed, listening, clients, clientCount, client>>
      /\ connectionMetricsMap' = [n \in Names |-> IF gone(n) THEN NoMetric ELSE connectionMetricsMap[n]]
  BY DEF RemoveMetricsForServer, brokerVars
<1>2. \A n \in Names : connectionMetricsMap'[n] = IF gone(n) THEN NoMetric ELSE connectionMetricsMap[n]
  BY <1>1
<1>3. \A n \in Names : n # Global => Front(n) \in Names /\ (gone(Front(n)) => gone(n))
  BY FrontName
<1>g. Global \in Names /\ ~gone(Global)
  BY MetricsAssumption DEF MetricsAssumption
<1> HIDE DEF gone
<1>4. TreeInv'
  <2>1. TreeTypes'
    BY <1>1, <1>2 DEF MetricsInv, TreeInv, TreeTypes, Ids, NoMetric
  <2>2. Registered(Global)'
    BY <1>2, <1>g DEF MetricsInv, TreeInv, Registered
  <2>3. ParentsRegistered'
    BY <1>1, <1>2, <1>3 DEF MetricsInv, TreeInv, ParentsRegistered, Registered
  <2> QED BY <2>1, <2>2, <2>3 DEF TreeInv
<1>5. WorkerInv'
  BY <1>1 DEF MetricsInv, WorkerInv, Ids
<1>6. CountInv'
  BY <1>1, <1>5, CountKept DEF MetricsInv, Owed
<1>7. ClientInv'
  BY <1>1, ClientsKept DEF MetricsInv
<1>8. ToldInv'
  BY <1>1, <1>2 DEF MetricsInv, ToldInv, Registered, Telling
<1>9. RestInv'
  BY <1>1 DEF MetricsInv, RestInv
<1> QED BY <1>4, <1>5, <1>6, <1>7, <1>8, <1>9 DEF MetricsInv

\* A worker that goes up owes what it owed: the count at the next level.
LEMMA ClimbOwes ==
    ASSUME TreeInv, WorkerInv, NEW w \in Workers, worker[w].at \in {"notify", "broadcast"}, Climb(w),
           UNCHANGED <<metrics, phase>>
    PROVE  /\ WorkerInv' /\ \A v \in Workers : Owed(v)' = Owed(v)
           /\ \A v \in Workers : v # w => worker'[v] = worker[v]
<1> DEFINE up == metrics[worker[w].cur].parent
           next == IF up = NoMetric THEN [at |-> "idle", cur |-> NoMetric, copy |-> 0]
                                    ELSE [at |-> "update", cur |-> up, copy |-> 0]
<1>1. worker' = [worker EXCEPT ![w] = next]
  BY DEF Climb
<1>2. worker[w].cur \in Ids /\ metrics[worker[w].cur] \in MetricRecord /\ up < worker[w].cur
  BY DEF WorkerInv, TreeInv, TreeTypes, Ids
<1>3. up \in 0 .. Len(metrics) /\ Len(metrics) \in Nat
  <2>1. up \in Nat
    BY <1>2 DEF MetricRecord
  <2>2. Len(metrics) \in Nat
    BY DEF TreeInv, TreeTypes
  <2> QED BY <1>2, <2>1, <2>2 DEF Ids
<1>4. /\ next \in WorkerRecord
      /\ \/ next.at = "idle" /\ up = NoMetric
         \/ next.at = "update" /\ next.cur = up /\ up \in Ids
  <2> HIDE DEF up
  <2>1. CASE up = NoMetric
    BY <2>1 DEF WorkerRecord, Stages, NoMetric
  <2>2. CASE up # NoMetric
    <3>1. up \in Nat /\ up \in Ids
      BY <1>3, <2>2 DEF NoMetric, Ids
    <3> QED BY <2>2, <3>1 DEF WorkerRecord, Stages
  <2> QED BY <2>1, <2>2
<1> HIDE DEF next, up
<1>5. worker' \in [Workers -> WorkerRecord] /\ worker'[w] = next /\ \A v \in Workers : v # w => worker'[v] = worker[v]
  BY <1>1, <1>4 DEF WorkerInv
<1>6. Ids' = Ids /\ phase # "built"
  BY DEF Ids, WorkerInv
<1>7. WorkerInv'
  BY <1>4, <1>5, <1>6 DEF WorkerInv
<1>8. Owed(w)' = up /\ Owed(w) = up
  BY <1>4, <1>5 DEF Owed, up
<1> QED BY <1>5, <1>7, <1>8 DEF Owed

\* What a step does that changes the workers, and the clients they tell, only.
LEMMA WorkerOnly ==
    ASSUME MetricsInv, UNCHANGED <<treeVars, reporter, made, phase, chanClosed, listening>>, WorkerInv',
           \A v \in Workers : Owed(v)' = Owed(v)
    PROVE  TreeInv' /\ CountInv' /\ RestInv'
<1>1. TreeInv'
  BY DEF MetricsInv, TreeInv, TreeTypes, Ids, Registered, ParentsRegistered, treeVars
<1>2. CountInv'
  BY CountKept DEF MetricsInv, treeVars
<1>3. RestInv'
  BY DEF MetricsInv, RestInv
<1> QED BY <1>1, <1>2, <1>3

\* A worker ends.
LEMMA WorkerEndsStep == ASSUME MetricsInv, NEW w \in Workers, WorkerEnds(w) PROVE MetricsInv'
<1>1. /\ UNCHANGED <<treeVars, reporter, made, phase, chanClosed, listening, clients, clientCount, client>>
      /\ worker[w].at = "idle" /\ phase = "stopped" /\ worker' = [worker EXCEPT ![w].at = "ended"]
  BY DEF WorkerEnds, brokerVars
<1>2. /\ worker' \in [Workers -> WorkerRecord] /\ worker'[w].at = "ended"
      /\ \A v \in Workers : v # w => worker'[v] = worker[v]
  BY <1>1 DEF MetricsInv, WorkerInv, WorkerRecord, Stages
<1>3. WorkerInv'
  BY <1>1, <1>2 DEF MetricsInv, WorkerInv, treeVars, Ids
<1>4. \A v \in Workers : Owed(v)' = Owed(v)
  BY <1>1, <1>2 DEF Owed, treeVars
<1>5. ToldInv'
  BY <1>1, <1>2 DEF MetricsInv, ToldInv, Registered, Telling, treeVars
<1>6. ClientInv'
  BY <1>1, ClientsKept DEF MetricsInv, treeVars
<1> QED BY <1>1, <1>3, <1>4, <1>5, <1>6, WorkerOnly DEF MetricsInv

\* A worker asks for listeners: it goes past a count only when no client is there.
LEMMA NotifyStep == ASSUME MetricsInv, NEW w \in Workers, notifyListeners(w) PROVE MetricsInv'
<1>1. /\ UNCHANGED <<treeVars, reporter, made, phase, chanClosed, listening, clients, clientCount, client>>
      /\ worker[w].at = "notify"
  BY DEF notifyListeners, brokerVars
<1>2. ClientInv'
  BY <1>1, ClientsKept DEF MetricsInv, treeVars
<1>3. CASE listening /\ clientCount # 0
  <2>1. worker' = [worker EXCEPT ![w].at = "broadcast"]
    BY <1>3 DEF notifyListeners
  <2>2. /\ worker' \in [Workers -> WorkerRecord] /\ worker'[w].at = "broadcast" /\ worker'[w].cur = worker[w].cur
        /\ worker'[w].copy = worker[w].copy /\ \A v \in Workers : v # w => worker'[v] = worker[v]
    BY <2>1 DEF MetricsInv, WorkerInv, WorkerRecord, Stages
  <2>3. WorkerInv'
    BY <1>1, <2>2 DEF MetricsInv, WorkerInv, treeVars, Ids
  <2>4. \A v \in Workers : Owed(v)' = Owed(v)
    BY <1>1, <2>2 DEF Owed, treeVars
  <2>5. ToldInv'
    BY <1>1, <2>2 DEF MetricsInv, ToldInv, Registered, Telling, treeVars
  <2> QED BY <1>1, <1>2, <2>3, <2>4, <2>5, WorkerOnly DEF MetricsInv
<1>4. CASE ~(listening /\ clientCount # 0)
  <2>1. Climb(w)
    BY <1>4 DEF notifyListeners
  <2>2. WorkerInv' /\ \A v \in Workers : Owed(v)' = Owed(v)
    BY <1>1, <2>1, ClimbOwes DEF MetricsInv, treeVars
  <2>3. listening => clients = {}
    <3>1. IsFiniteSet(clients)
      BY MetricsAssumption, FS_Subset DEF MetricsInv, ClientInv, MetricsAssumption
    <3> QED BY <1>4, <3>1, FS_EmptySet DEF MetricsInv, ClientInv
  <2>4. ToldInv'
    BY <1>1, <2>3 DEF ToldInv
  <2> QED BY <1>1, <1>2, <2>2, <2>4, WorkerOnly DEF MetricsInv
<1> QED BY <1>3, <1>4

\* What a client knows after an event of metric i with count k.
LEMMA OfferFacts ==
    ASSUME NEW c \in ClientRecord, NEW i \in 1 .. MaxObjects, NEW k \in Nat
    PROVE  /\ Offer(c, <<i, k>>) \in ClientRecord
           /\ Offer(c, <<i, k>>).at = c.at /\ (c.open => Offer(c, <<i, k>>).open)
           /\ ~Offer(c, <<i, k>>).dropped => ~c.dropped
           /\ Offer(c, <<i, k>>).told = IF Offer(c, <<i, k>>).dropped THEN Untold
                  ELSE [c.told EXCEPT ![i] = IF k > c.told[i] THEN k ELSE c.told[i]]
<1> DEFINE next == IF c.queued < Buffer THEN [c EXCEPT !.queued = @ + 1] ELSE [c EXCEPT !.dropped = TRUE]
           news == [c.told EXCEPT ![i] = IF k > c.told[i] THEN k ELSE c.told[i]]
           told == IF next.dropped THEN Untold ELSE news
<1>1. c.told \in [1 .. MaxObjects -> Nat] /\ c.queued \in 0 .. Buffer /\ Buffer \in Nat
  BY MetricsAssumption DEF ClientRecord, MetricsAssumption
<1>2. news \in [1 .. MaxObjects -> Nat] /\ Untold \in [1 .. MaxObjects -> Nat]
  BY <1>1 DEF Untold
<1>3. next \in ClientRecord
  <2>1. CASE c.queued < Buffer
    BY <1>1, <2>1 DEF ClientRecord
  <2>2. CASE ~(c.queued < Buffer)
    BY <2>2 DEF ClientRecord
  <2> QED BY <2>1, <2>2
<1>4. next.at = c.at /\ next.open = c.open /\ (~next.dropped => ~c.dropped)
  BY DEF ClientRecord
<1>5. Offer(c, <<i, k>>) = [next EXCEPT !.told = told]
  BY DEF Offer
<1>6. told \in [1 .. MaxObjects -> Nat]
  BY <1>2
<1> HIDE DEF next, news
<1>7. /\ Offer(c, <<i, k>>) \in ClientRecord
      /\ Offer(c, <<i, k>>).at = next.at /\ Offer(c, <<i, k>>).open = next.open
      /\ Offer(c, <<i, k>>).dropped = next.dropped
      /\ Offer(c, <<i, k>>).told = told
  <2> HIDE DEF told
  <2> QED BY <1>3, <1>5, <1>6 DEF ClientRecord
<1> QED BY <1>4, <1>7 DEF news

\* A worker sends the count it copied: a client that misses nothing has it, or the
\* later one of another worker, before it.
LEMMA BroadcastStep == ASSUME MetricsInv, NEW w \in Workers, broadcastAll(w) PROVE MetricsInv'
<1> DEFINE i == worker[w].cur
           k == worker[w].copy
<1>1. /\ UNCHANGED <<treeVars, reporter, made, phase, chanClosed, listening, clients, clientCount>>
      /\ worker[w].at = "broadcast" /\ Climb(w)
      /\ client' = [c \in Clients |-> IF c \in clients THEN Offer(client[c], <<i, k>>) ELSE client[c]]
  BY DEF broadcastAll
<1>2. /\ WorkerInv' /\ \A v \in Workers : Owed(v)' = Owed(v)
      /\ \A v \in Workers : v # w => worker'[v] = worker[v]
  BY <1>1, ClimbOwes DEF MetricsInv, treeVars
<1>3. TreeInv' /\ CountInv' /\ RestInv'
  BY <1>1, <1>2, WorkerOnly
<1>4. i \in Ids /\ i \in 1 .. MaxObjects /\ k \in Nat /\ k <= metrics[i].count /\ metrics[i].count \in Nat
  <2>1. i \in Ids /\ k \in Nat /\ k <= metrics[i].count
    BY <1>1 DEF MetricsInv, WorkerInv, WorkerRecord
  <2> HIDE DEF i, k
  <2> QED BY <2>1, TreeFacts DEF MetricsInv
<1>5. \A c \in Clients : client[c] \in ClientRecord
  BY DEF MetricsInv, ClientInv
<1>u. clients \subseteq Clients /\ Ids' = Ids /\ metrics' = metrics /\ connectionMetricsMap' = connectionMetricsMap
  BY <1>1 DEF MetricsInv, ClientInv, Ids, treeVars
<1> HIDE DEF i, k
<1>6. \A c \in Clients : client'[c] = IF c \in clients THEN Offer(client[c], <<i, k>>) ELSE client[c]
  BY <1>1
<1>7. \A c \in Clients :
          /\ client'[c] \in ClientRecord
          /\ client'[c].at = client[c].at /\ (client[c].open => client'[c].open)
          /\ ~client'[c].dropped => ~client[c].dropped
  <2> SUFFICES ASSUME NEW c \in Clients
               PROVE  /\ client'[c] \in ClientRecord
                      /\ client'[c].at = client[c].at /\ (client[c].open => client'[c].open)
                      /\ ~client'[c].dropped => ~client[c].dropped
    OBVIOUS
  <2>1. CASE c \in clients
    <3> DEFINE d == client[c]
               o == Offer(d, <<i, k>>)
    <3>1. client'[c] = o
      BY <1>6, <2>1
    <3>2. d \in ClientRecord
      BY <1>5
    <3> HIDE DEF d
    <3>3. o \in ClientRecord /\ o.at = d.at /\ (d.open => o.open) /\ (~o.dropped => ~d.dropped)
      BY <1>4, <3>2, OfferFacts, ZenonT(30)
    <3> QED BY ONLY <3>1, <3>3, Zenon DEF d
  <2>2. CASE c \notin clients
    BY <1>5, <1>6, <2>2
  <2> QED BY <2>1, <2>2
<1>8. \A c \in Clients : client[c].told \in [1 .. MaxObjects -> Nat]
  BY <1>5 DEF ClientRecord
<1>9. \A c \in clients : client'[c].told = IF client'[c].dropped THEN Untold
                 ELSE [client[c].told EXCEPT ![i] = IF k > client[c].told[i] THEN k ELSE client[c].told[i]]
  BY <1>4, <1>5, <1>6, <1>u, OfferFacts
<1>10. ASSUME NEW c \in clients, ~client'[c].dropped
       PROVE  /\ client'[c].told[i] = IF k > client[c].told[i] THEN k ELSE client[c].told[i]
              /\ \A j \in 1 .. MaxObjects : j # i => client'[c].told[j] = client[c].told[j]
  <2>1. client'[c].told = [client[c].told EXCEPT ![i] = IF k > client[c].told[i] THEN k ELSE client[c].told[i]]
    BY <1>9, <1>10
  <2>2. client[c].told \in [1 .. MaxObjects -> Nat]
    BY <1>8, <1>u
  <2> HIDE DEF ClientRecord
  <2> QED BY ONLY <2>1, <2>2, <1>4
<1>11. ClientInv'
  <2>1. client' \in [Clients -> ClientRecord]
    <3>1. \A c \in Clients : client'[c] \in ClientRecord
      BY <1>7, Zenon
    <3>2. client' = [c \in Clients |-> client'[c]]
      BY <1>1
    <3> QED BY <3>1, <3>2, Zenon
  <2>2. ASSUME NEW c \in Clients, NEW j \in 1 .. MaxObjects
        PROVE  IF j \in Ids THEN client'[c].told[j] <= metrics[j].count ELSE client'[c].told[j] = 0
    <3>1. IF j \in Ids THEN client[c].told[j] <= metrics[j].count ELSE client[c].told[j] = 0
      BY DEF MetricsInv, ClientInv
    <3>2. j \in Ids => metrics[j].count \in Nat
      BY TreeFacts DEF MetricsInv
    <3>3. CASE c \notin clients
      BY <1>6, <3>1, <3>3
    <3>4. CASE c \in clients /\ client'[c].dropped
      <4>1. client'[c].told = Untold
        BY <1>9, <3>4
      <4> QED BY <3>2, <4>1 DEF Untold
    <3>5. CASE c \in clients /\ ~client'[c].dropped
      BY <1>4, <1>10, <3>1, <3>5
    <3> QED BY <3>3, <3>4, <3>5
  <2>3. clients' \subseteq Clients /\ clientCount' = Cardinality(clients')
    BY <1>1 DEF MetricsInv, ClientInv
  <2>4. \A c \in clients' : client'[c].open /\ client'[c].at \in {"registered", "stream"}
    <3>1. \A c \in clients : c \in Clients /\ client[c].open /\ client[c].at \in {"registered", "stream"}
      BY Zenon DEF MetricsInv, ClientInv
    <3> QED BY <1>1, <1>7, <3>1, Zenon
  <2> QED BY <1>u, <2>1, <2>2, <2>3, <2>4 DEF ClientInv
<1>12. ToldInv'
  <2> SUFFICES ASSUME NEW c \in clients, client'[c].at = "stream", ~client'[c].dropped, listening,
                      NEW n \in Names, Registered(n)
               PROVE  \/ client'[c].told[connectionMetricsMap[n]] = metrics[connectionMetricsMap[n]].count
                      \/ \E v \in Workers : Telling(v, connectionMetricsMap[n])'
    BY <1>1, <1>u DEF ToldInv, Registered
  <2> DEFINE j == connectionMetricsMap[n]
  <2>1. j \in Ids /\ j \in 1 .. MaxObjects
    BY TreeFacts DEF MetricsInv
  <2>2. client[c].told[j] = metrics[j].count \/ \E v \in Workers : Telling(v, j)
    <3>1. ToldInv /\ client[c].at = "stream" /\ ~client[c].dropped
      BY <1>7, <1>u, Zenon DEF MetricsInv
    <3> QED BY <3>1 DEF ToldInv
  <2> HIDE DEF j
  <2>3. CASE client[c].told[j] = metrics[j].count
    <3>1. client'[c].told[j] = metrics[j].count
      BY <1>4, <1>10, <2>1, <2>3
    <3> QED BY <3>1 DEF j
  <2>4. CASE Telling(w, j)
    <3>1. i = j /\ k = metrics[j].count
      BY <2>4 DEF Telling, i, k
    <3>2. client[c].told[j] <= metrics[j].count /\ client[c].told[j] \in Nat
      BY <1>8, <1>u, <2>1 DEF MetricsInv, ClientInv
    <3>3. client'[c].told[j] = metrics[j].count
      BY <1>4, <1>10, <2>1, <3>1, <3>2
    <3> QED BY <3>3 DEF j
  <2>6. j' = j
    BY <1>u DEF j
  <2>5. ASSUME NEW v \in Workers, v # w, Telling(v, j) PROVE Telling(v, j)'
    BY <1>2, <1>u, <2>5, <2>6 DEF Telling
  <2> QED BY <2>2, <2>3, <2>4, <2>5, <2>6 DEF j
<1> QED BY <1>2, <1>3, <1>11, <1>12 DEF MetricsInv

\* An event is written, or a client leaves.
LEMMA ClientLeavesStep ==
    ASSUME MetricsInv, NEW c \in Clients, ServeEvent(c) \/ Unsubscribe(c) PROVE MetricsInv'
<1>1. UNCHANGED <<treeVars, reporter, worker, made, phase, chanClosed, listening>>
  BY DEF ServeEvent, Unsubscribe
<1>2. WorkerInv' /\ \A v \in Workers : Owed(v)' = Owed(v)
  BY <1>1 DEF MetricsInv, WorkerInv, treeVars, Ids, Owed
<1>3. TreeInv' /\ CountInv' /\ RestInv'
  BY <1>1, <1>2, WorkerOnly
<1>4. client \in [Clients -> ClientRecord] /\ Outside \in ClientRecord /\ Outside.told = Untold
  BY MetricsAssumption DEF MetricsInv, ClientInv, Outside, ClientRecord, Untold, MetricsAssumption
<1>5. /\ client' \in [Clients -> ClientRecord]
      /\ \A d \in Clients : d # c => client'[d] = client[d]
      /\ \/ /\ clients' = clients /\ clientCount' = clientCount /\ client'[c].told = client[c].told
            /\ client'[c].at = client[c].at
            /\ (client[c].open => client'[c].open) /\ (~client'[c].dropped => ~client[c].dropped)
         \/ /\ clients' = clients \ {c} /\ client'[c].told = Untold
            /\ clientCount' = IF c \in clients THEN clientCount - 1 ELSE clientCount
  <2>1. CASE ServeEvent(c)
    <3>1. client' = [client EXCEPT ![c].queued = client[c].queued - 1] /\ client[c].queued > 0
      BY <2>1 DEF ServeEvent
    <3>2. client[c].queued - 1 \in 0 .. Buffer
      BY <1>4, <3>1, MetricsAssumption DEF ClientRecord, MetricsAssumption
    <3> DEFINE d == client[c]
               e == [d EXCEPT !.queued = d.queued - 1]
    <3>3. client'[c] = e /\ client' \in [Clients -> {client[b] : b \in Clients} \union {e}]
          /\ \A b \in Clients : b # c => client'[b] = client[b]
      BY <1>4, <3>1
    <3>4. d \in ClientRecord /\ d.queued - 1 \in 0 .. Buffer
      BY <1>4, <3>2
    <3> HIDE DEF d
    <3>5. e \in ClientRecord /\ e.at = d.at /\ e.told = d.told /\ (d.open => e.open) /\ (~e.dropped => ~d.dropped)
      BY <3>4 DEF ClientRecord
    <3> HIDE DEF e
    <3>6. client' \in [Clients -> ClientRecord]
      BY <1>4, <3>3, <3>5
    <3>7. UNCHANGED <<clients, clientCount>>
      BY <2>1 DEF ServeEvent
    <3> QED BY <3>3, <3>5, <3>6, <3>7, Zenon DEF d
  <2>2. CASE Unsubscribe(c)
    <3>1. client' = [client EXCEPT ![c] = Outside]
      BY <2>2 DEF Unsubscribe
    <3>2. /\ clients' = clients \ {c} 
          /\ clientCount' = IF c \in clients THEN clientCount - 1 ELSE clientCount
      BY <2>2 DEF Unsubscribe
    <3> QED BY <1>4, <3>1, <3>2
  <2> QED BY <2>1, <2>2
<1>6. clientCount' = Cardinality(clients') /\ clients' \subseteq Clients /\ clients' \subseteq clients
  <2>1. IsFiniteSet(clients) /\ clientCount = Cardinality(clients) /\ clients \subseteq Clients
    BY MetricsAssumption, FS_Subset DEF MetricsInv, ClientInv, MetricsAssumption
  <2>2. Cardinality(clients \ {c}) = IF c \in clients THEN clientCount - 1 ELSE clientCount
    BY <2>1, FS_RemoveElement
  <2> QED BY <1>5, <2>1, <2>2
<1>7. ClientInv'
  <2>1. Ids' = Ids /\ metrics' = metrics
    BY <1>1 DEF Ids, treeVars
  <2>2. \A j \in Ids : metrics[j].count \in Nat
    BY TreeFacts DEF MetricsInv
  <2>3. \A d \in Clients : client'[d].told = client[d].told \/ client'[d].told = Untold
    BY <1>5
  <2>4. \A d \in Clients : \A i \in 1 .. MaxObjects :
           IF i \in Ids THEN client'[d].told[i] <= metrics[i].count ELSE client'[d].told[i] = 0
    <3> SUFFICES ASSUME NEW d \in Clients, NEW i \in 1 .. MaxObjects
                 PROVE  IF i \in Ids THEN client'[d].told[i] <= metrics[i].count ELSE client'[d].told[i] = 0
      OBVIOUS
    <3>1. CASE client'[d].told = client[d].told
      BY <3>1 DEF MetricsInv, ClientInv
    <3>2. CASE client'[d].told = Untold
      BY <2>2, <3>2 DEF Untold
    <3> QED BY <2>3, <3>1, <3>2
  <2>5. \A d \in clients' : client'[d].open /\ client'[d].at \in {"registered", "stream"}
    BY <1>5, <1>6 DEF MetricsInv, ClientInv
  <2> QED BY <1>5, <1>6, <2>1, <2>4, <2>5 DEF ClientInv
<1>8. ToldInv'
  <2>1. \A d \in clients' : d \in clients /\ client'[d].told = client[d].told /\ client'[d].at = client[d].at
                            /\ (~client'[d].dropped => ~client[d].dropped)
    BY <1>5, <1>6
  <2> QED BY <1>1, <2>1 DEF MetricsInv, ToldInv, Registered, Telling, treeVars
<1> QED BY <1>2, <1>3, <1>7, <1>8 DEF MetricsInv

\* What a client knows after the snapshot: every registered count, unless one was
\* dropped.
LEMMA WelcomeFacts ==
    ASSUME TreeInv, NEW c \in ClientRecord,
           \A i \in 1 .. MaxObjects : IF i \in Ids THEN c.told[i] <= metrics[i].count ELSE c.told[i] = 0
    PROVE  /\ Welcome(c) \in ClientRecord /\ (c.open => Welcome(c).open)
           /\ \A i \in 1 .. MaxObjects :
                  IF i \in Ids THEN Welcome(c).told[i] <= metrics[i].count ELSE Welcome(c).told[i] = 0
           /\ ~Welcome(c).dropped => \A n \in Names : Registered(n) =>
                  Welcome(c).told[connectionMetricsMap[n]] = metrics[connectionMetricsMap[n]].count
<1> DEFINE all == {connectionMetricsMap[n] : n \in {k \in Names : Registered(k)}}
           length == c.queued + Cardinality(all)
           dropped == c.dropped \/ length > Buffer
           current(m) == IF m \in all /\ metrics[m].count > c.told[m] THEN metrics[m].count ELSE c.told[m]
           news == [m \in 1 .. MaxObjects |-> current(m)]
           told == IF dropped THEN Untold ELSE news
           queued == IF length > Buffer THEN Buffer ELSE length
<1>1. all \subseteq Ids
  BY TreeFacts
<1>2. Cardinality(all) \in Nat
  <2>1. IsFiniteSet(Ids)
    BY TreeFacts, FS_Interval DEF Ids
  <2>2. IsFiniteSet(all)
    <3> HIDE DEF all
    <3> QED BY <1>1, <2>1, FS_Subset
  <2> HIDE DEF all
  <2> QED BY <2>2, FS_CardinalityType
<1>3. GetAllMetrics = [m \in all |-> metrics[m].count]
  BY DEF GetAllMetrics
<1>4. DOMAIN GetAllMetrics = all /\ \A m \in all : GetAllMetrics[m] = metrics[m].count
  <2> HIDE DEF all
  <2> QED BY <1>3
<1>5. Welcome(c) = [c EXCEPT !.queued = queued, !.dropped = dropped, !.told = told]
  <2>1. \A m : (IF m \in DOMAIN GetAllMetrics /\ GetAllMetrics[m] > c.told[m] THEN GetAllMetrics[m] ELSE c.told[m])
                = current(m)
    <3> HIDE DEF all
    <3> QED BY <1>4
  <2> HIDE DEF all
  <2> QED BY <1>4, <2>1 DEF Welcome
<1>6. /\ c.queued \in 0 .. Buffer /\ Buffer \in Nat /\ c.told \in [1 .. MaxObjects -> Nat]
      /\ c.dropped \in BOOLEAN
  BY MetricsAssumption DEF ClientRecord, MetricsAssumption
<1> HIDE DEF all
<1>7. queued \in 0 .. Buffer
  BY <1>2, <1>6
<1>8. dropped \in BOOLEAN
  BY Zenon
<1>9. \A m \in 1 .. MaxObjects :
          /\ current(m) \in Nat
          /\ m \in all => current(m) = metrics[m].count
          /\ m \notin all => current(m) = c.told[m]
  BY <1>1, <1>6, TreeFacts
<1>10. news \in [1 .. MaxObjects -> Nat] /\ Untold \in [1 .. MaxObjects -> Nat]
  BY <1>9 DEF Untold
<1>11. told \in [1 .. MaxObjects -> Nat]
  BY <1>10, Zenon
<1>12. \A i \in 1 .. MaxObjects : IF i \in Ids THEN told[i] <= metrics[i].count ELSE told[i] = 0
  <2> SUFFICES ASSUME NEW i \in 1 .. MaxObjects
               PROVE  IF i \in Ids THEN told[i] <= metrics[i].count ELSE told[i] = 0
    BY Zenon
  <2>1. i \in Ids => metrics[i].count \in Nat
    BY TreeFacts
  <2>2. Untold[i] = 0 /\ news[i] = current(i)
    BY DEF Untold
  <2>3. IF i \in Ids THEN current(i) <= metrics[i].count ELSE current(i) = 0
    BY <1>1, <1>9, <2>1
  <2>4. told = Untold \/ told = news
    BY Zenon
  <2> HIDE DEF told, current, news
  <2> QED BY <2>1, <2>2, <2>3, <2>4
<1>13. ~dropped => \A m \in all : told[m] = metrics[m].count
  <2>1. \A m \in all : m \in 1 .. MaxObjects
    BY <1>1, TreeFacts
  <2>2. \A m \in all : news[m] = metrics[m].count
    BY <1>9, <2>1
  <2> HIDE DEF news, dropped
  <2> QED BY <2>2
<1> HIDE DEF queued, dropped, told
<1>14. /\ Welcome(c) \in ClientRecord /\ Welcome(c).told = told /\ Welcome(c).dropped = dropped
       /\ Welcome(c).open = c.open
  BY <1>5, <1>7, <1>8, <1>11 DEF ClientRecord
<1> QED BY <1>12, <1>13, <1>14 DEF all

\* A client enters the map; or it is sent the snapshot, after which it has every
\* count, whatever was broadcast to it meanwhile.
LEMMA SubscribeStep == ASSUME MetricsInv, NEW c \in Clients, Subscribe(c) PROVE MetricsInv'
<1>1. UNCHANGED <<treeVars, reporter, worker, made, phase, chanClosed, listening>>
  BY DEF Subscribe, Register
<1>2. WorkerInv' /\ \A v \in Workers : Owed(v)' = Owed(v)
  BY <1>1 DEF MetricsInv, WorkerInv, treeVars, Ids, Owed
<1>3. TreeInv' /\ CountInv' /\ RestInv'
  BY <1>1, <1>2, WorkerOnly
<1>4. Ids' = Ids /\ metrics' = metrics /\ connectionMetricsMap' = connectionMetricsMap
  BY <1>1 DEF Ids, treeVars
<1>5. client \in [Clients -> ClientRecord] /\ clients \subseteq Clients
  BY DEF MetricsInv, ClientInv
<1> DEFINE d == client[c]
           Known(r) == \A i \in 1 .. MaxObjects : IF i \in Ids THEN r.told[i] <= metrics[i].count ELSE r.told[i] = 0
<1>6. d \in ClientRecord /\ \A b \in Clients : Known(client[b])
  BY <1>5 DEF MetricsInv, ClientInv
<1>7. CASE d.at = "out" /\ Register(c, "registered", d)
  <2> DEFINE e == [d EXCEPT !.at = "registered", !.open = TRUE]
  <2>1. client' = [client EXCEPT ![c] = e] /\ clients' = clients \union {c} /\ clientCount' = clientCount + 1
    BY <1>7 DEF Register
  <2>2. e \in ClientRecord /\ e.at = "registered" /\ e.open /\ e.told = d.told
    <3> HIDE DEF d
    <3> QED BY <1>6 DEF ClientRecord
  <2> HIDE DEF e
  <2>3. client' \in [Clients -> ClientRecord] /\ client'[c] = e /\ \A b \in Clients : b # c => client'[b] = client[b]
    BY <1>5, <2>1, <2>2
  <2>4. c \notin clients
    BY <1>7 DEF MetricsInv, ClientInv
  <2>5. clientCount' = Cardinality(clients') /\ clients' \subseteq Clients
    <3>1. IsFiniteSet(clients) /\ clientCount = Cardinality(clients)
      BY MetricsAssumption, FS_Subset DEF MetricsInv, ClientInv, MetricsAssumption
    <3> QED BY <1>5, <2>1, <2>4, <3>1, FS_AddElement
  <2>6. \A b \in Clients : Known(client'[b])
    BY <1>6, <2>2, <2>3
  <2>7. \A b \in clients' : client'[b].open /\ client'[b].at \in {"registered", "stream"}
    <3>1. \A b \in clients : client[b].open /\ client[b].at \in {"registered", "stream"}
      BY DEF MetricsInv, ClientInv
    <3> QED BY <1>5, <2>1, <2>2, <2>3, <3>1
  <2>8. ClientInv'
    BY <1>4, <2>3, <2>5, <2>6, <2>7 DEF ClientInv
  <2>9. ToldInv'
    <3>1. \A b \in clients' : b = c \/ (b \in clients /\ client'[b] = client[b])
      BY <1>5, <2>1, <2>3
    <3> QED BY <1>1, <1>4, <2>2, <2>3, <3>1 DEF MetricsInv, ToldInv, Registered, Telling
  <2> QED BY <1>2, <1>3, <2>8, <2>9 DEF MetricsInv
<1>8. CASE d.at = "registered" /\ ~(d.at = "out")
  <2> DEFINE f == [Welcome(d) EXCEPT !.at = "stream"]
             g == [Outside EXCEPT !.at = "panicked"]
             e == IF d.open THEN f ELSE g
  <2>1. client' = [client EXCEPT ![c] = e] /\ clients' = clients /\ clientCount' = clientCount
    BY <1>8 DEF Subscribe
  <2>2. /\ Welcome(d) \in ClientRecord /\ (d.open => Welcome(d).open) /\ Known(Welcome(d))
        /\ ~Welcome(d).dropped => \A n \in Names : Registered(n) =>
                  Welcome(d).told[connectionMetricsMap[n]] = metrics[connectionMetricsMap[n]].count
    <3>1. Known(d)
      BY <1>6
    <3> HIDE DEF d
    <3> QED BY <1>6, <3>1, WelcomeFacts DEF MetricsInv
  <2>3. /\ f \in ClientRecord /\ f.at = "stream" /\ f.told = Welcome(d).told
        /\ (Welcome(d).open => f.open) /\ (~f.dropped => ~Welcome(d).dropped)
    <3> HIDE DEF d
    <3> QED BY <2>2 DEF ClientRecord
  <2>4. g \in ClientRecord /\ \A i \in 1 .. MaxObjects : g.told[i] = 0
    <3>1. Outside \in ClientRecord /\ Outside.told = Untold
      BY MetricsAssumption DEF Outside, ClientRecord, Untold, MetricsAssumption
    <3>2. g \in ClientRecord /\ g.told = Untold
      BY <3>1 DEF ClientRecord
    <3> QED BY <3>2 DEF Untold
  <2>5. Known(g)
    BY <2>4, TreeFacts DEF MetricsInv
  <2>6. c \in clients => d.open
    BY Zenon DEF MetricsInv, ClientInv
  <2> HIDE DEF f, g, d
  <2>7. e \in ClientRecord /\ Known(e)
    BY <2>2, <2>3, <2>4, <2>5
  <2>8. c \in clients => e = f
    BY <2>6, Zenon
  <2> HIDE DEF e
  <2>9. client' \in [Clients -> ClientRecord] /\ client'[c] = e /\ \A b \in Clients : b # c => client'[b] = client[b]
    BY <1>5, <2>1, <2>7
  <2>10. \A b \in Clients : Known(client'[b])
    BY <1>6, <2>7, <2>9
  <2>11. \A b \in clients' : client'[b].open /\ client'[b].at \in {"registered", "stream"}
    <3>1. \A b \in clients : b \in Clients /\ client[b].open /\ client[b].at \in {"registered", "stream"}
      BY Zenon DEF MetricsInv, ClientInv
    <3>2. c \in clients => client'[c] = f /\ f.open /\ f.at = "stream"
      BY <2>2, <2>3, <2>6, <2>8, <2>9, Zenon
    <3> QED BY <2>1, <2>9, <3>1, <3>2, Zenon
  <2>12. clientCount' = Cardinality(clients') /\ clients' \subseteq Clients
    BY <2>1 DEF MetricsInv, ClientInv
  <2>13. ClientInv'
    BY <1>4, <2>9, <2>10, <2>11, <2>12 DEF ClientInv
  <2>14. ToldInv'
    <3> SUFFICES ASSUME NEW b \in clients, client'[b].at = "stream", ~client'[b].dropped, listening,
                        NEW n \in Names, Registered(n)
                 PROVE  \/ client'[b].told[connectionMetricsMap[n]] = metrics[connectionMetricsMap[n]].count
                        \/ \E v \in Workers : Telling(v, connectionMetricsMap[n])
      BY <1>1, <1>4, <2>1 DEF ToldInv, Registered, Telling
    <3>1. CASE b = c
      <4>1. client'[c] = f
        BY <2>8, <2>9, <3>1
      <4>2. ~Welcome(d).dropped
        BY <2>3, <3>1, <4>1, Zenon
      <4> QED BY <2>2, <2>3, <3>1, <4>1, <4>2
    <3>2. CASE b # c
      <4>1. client'[b] = client[b]
        BY <1>5, <2>9, <3>2
      <4> QED BY <4>1 DEF MetricsInv, ToldInv
    <3> QED BY <3>1, <3>2
  <2> QED BY <1>2, <1>3, <2>13, <2>14 DEF MetricsInv
<1> QED BY <1>7, <1>8 DEF Subscribe

\* The sets of EveryLevelCounts are finite.
LEMMA DueFinite == \A i \in Ids : IsFiniteSet(Due(i)) /\ Cardinality(Due(i)) \in Nat
<1> SUFFICES ASSUME NEW i \in Ids PROVE IsFiniteSet(Due(i)) /\ Cardinality(Due(i)) \in Nat
  OBVIOUS
<1>1. IsFiniteSet(Workers) /\ Due(i) \subseteq Workers
  BY MetricsAssumption DEF MetricsAssumption, Due
<1>2. IsFiniteSet(Due(i))
  BY <1>1, FS_Subset
<1> QED BY <1>2, FS_CardinalityType

\* A report is routed to metric m: the worker that received it owes m one count.
LEMMA RouteStep ==
    ASSUME MetricsInv, NEW w \in Workers, NEW r \in Reporters, Receive(w, r),
           NEW m, m = connectionMetricsMap[reporter[r].name], m # NoMetric
    PROVE  MetricsInv'
<1> DEFINE e == [at |-> "update", cur |-> m, copy |-> 0]
<1>1. /\ UNCHANGED <<connectionMetricsMap, made, phase, chanClosed, listening, clients, clientCount, client>>
      /\ worker[w].at = "idle" /\ worker' = [worker EXCEPT ![w] = e]
      /\ reporter' = [reporter EXCEPT ![r] = Idle]
      /\ metrics' = [metrics EXCEPT ![m].routed = metrics[m].routed + 1]
  BY DEF Receive, brokerVars
<1>2. m \in Ids
  <2>1. reporter[r].name \in Names
    BY DEF MetricsInv, RestInv, ReporterRecord
  <2> QED BY <2>1, TreeFacts DEF MetricsInv, Registered
<1> DEFINE new == [metrics[m] EXCEPT !.routed = metrics[m].routed + 1]
<1>3. /\ new \in MetricRecord /\ new.parent = metrics[m].parent /\ new.count = metrics[m].count
      /\ new.routed = metrics[m].routed + 1 /\ new.name = metrics[m].name
  <2>1. metrics[m] \in MetricRecord
    BY <1>2, TreeFacts DEF MetricsInv
  <2> QED BY <2>1 DEF MetricRecord
<1>4. metrics' = [metrics EXCEPT ![m] = new]
  BY <1>1
<1> HIDE DEF new
<1>5. /\ metrics' \in Seq(MetricRecord) /\ Len(metrics') = Len(metrics)
      /\ metrics'[m] = new /\ \A j \in Ids : j # m => metrics'[j] = metrics[j]
  BY <1>2, <1>3, <1>4 DEF MetricsInv, TreeInv, TreeTypes, Ids
<1>6. \A j \in Ids : metrics'[j].parent = metrics[j].parent /\ metrics'[j].count = metrics[j].count
  BY <1>3, <1>5
<1>7. TreeInv' /\ Ids' = Ids
  BY <1>1, <1>5, <1>6, TreeKept DEF MetricsInv, SameTree
<1>8. e \in WorkerRecord /\ e.at = "update" /\ e.cur = m
  BY <1>2 DEF WorkerRecord, Stages, Ids
<1> HIDE DEF e
<1>9. /\ worker' \in [Workers -> WorkerRecord] /\ worker'[w] = e
      /\ \A v \in Workers : v # w => worker'[v] = worker[v]
  BY <1>1, <1>8 DEF MetricsInv, WorkerInv
<1>10. WorkerInv'
  BY <1>1, <1>2, <1>6, <1>7, <1>8, <1>9 DEF MetricsInv, WorkerInv
<1>11. /\ \A v \in Workers : v # w => Owed(v)' = Owed(v)
       /\ Owed(w)' = m /\ Owed(w) = NoMetric
  <2>1. \A v \in Workers : worker[v].at \in {"notify", "broadcast"} => worker[v].cur \in Ids
    BY DEF MetricsInv, WorkerInv
  <2> QED BY <1>1, <1>6, <1>8, <1>9, <2>1 DEF Owed
<1>12. CountInv'
  <2>1. \A j \in Ids : CountedBelow(j)' = CountedBelow(j)
    BY <1>6, <1>7 DEF CountedBelow
  <2>2. \A j \in Ids : Due(j)' = {v \in Workers : Owed(v)' = j}
    <3>1. DueOwed'
      BY <1>10, DueIsOwed, PTL
    <3> QED BY <1>7, <3>1 DEF DueOwed
  <2>3. \A j \in Ids : Due(j) = {v \in Workers : Owed(v) = j}
    BY DueIsOwed DEF MetricsInv, DueOwed
  <2>4. Due(m)' = Due(m) \union {w} /\ w \notin Due(m) /\ \A j \in Ids : j # m => Due(j)' = Due(j)
    <3>1. NoMetric \notin Ids
      BY DEF Ids, NoMetric
    <3>2. w \notin Due(m)
      BY <1>2, <1>11, <2>3, <3>1
    <3>3. Due(m)' = Due(m) \union {w}
      BY <1>2, <1>11, <2>2, <2>3
    <3>4. ASSUME NEW j \in Ids, j # m PROVE Due(j)' = Due(j)
      BY <1>11, <2>2, <2>3, <3>1, <3>4
    <3> QED BY <3>2, <3>3, <3>4
  <2>5. Cardinality(Due(m)') = Cardinality(Due(m)) + 1
    BY <1>2, <2>4, DueFinite, FS_AddElement
  <2>6. \A j \in Ids :
            /\ metrics[j].count + Cardinality(Due(j)) = metrics[j].routed + Cardinality(CountedBelow(j))
            /\ IsFiniteSet(CountedBelow(j))
    BY DEF MetricsInv, CountInv, EveryLevelCounts
  <2>7. ASSUME NEW j \in Ids
        PROVE  /\ metrics'[j].count + Cardinality(Due(j)') = metrics'[j].routed + Cardinality(CountedBelow(j)')
               /\ IsFiniteSet(CountedBelow(j)')
    <3>1. Cardinality(CountedBelow(j)) \in Nat
      BY <2>6, FS_CardinalityType
    <3>2. CASE j = m
      <4>1. metrics[m].count \in Nat /\ metrics[m].routed \in Nat /\ Cardinality(Due(m)) \in Nat
        BY <1>2, DueFinite, TreeFacts DEF MetricsInv
      <4>2. metrics'[m].count = metrics[m].count /\ metrics'[m].routed = metrics[m].routed + 1
        BY <1>3, <1>5
      <4> QED BY <2>1, <2>5, <2>6, <3>1, <3>2, <4>1, <4>2
    <3>3. CASE j # m
      BY <1>5, <2>1, <2>4, <2>6, <3>3
    <3> QED BY <3>2, <3>3
  <2> QED BY <1>7, <2>7 DEF CountInv, EveryLevelCounts
<1>13. ClientInv'
  BY <1>1, <1>6, <1>7 DEF MetricsInv, ClientInv
<1>14. ToldInv'
  <2>1. \A n \in Names : Registered(n)' = Registered(n) /\ (Registered(n) => connectionMetricsMap[n] \in Ids)
    BY <1>1, TreeFacts DEF MetricsInv, Registered
  <2>2. \A v \in Workers : \A j \in Ids : Telling(v, j) => v # w /\ worker'[v] = worker[v]
    BY <1>1, <1>9 DEF Telling
  <2>3. \A v \in Workers : \A j \in Ids : Telling(v, j) => Telling(v, j)'
    BY <1>6, <2>2 DEF Telling
  <2> QED BY <1>1, <1>6, <2>1, <2>3 DEF MetricsInv, ToldInv
<1>15. RestInv'
  <2>1. Idle \in ReporterRecord
    BY MetricsAssumption DEF Idle, ReporterRecord, MetricsAssumption
  <2> QED BY <1>1, <2>1 DEF MetricsInv, RestInv
<1> QED BY <1>7, <1>10, <1>12, <1>13, <1>14, <1>15 DEF MetricsInv

\* The report of a name that is no longer tracked is taken and skipped.
LEMMA SkipStep ==
    ASSUME MetricsInv, NEW w \in Workers, NEW r \in Reporters, Receive(w, r), ~Registered(reporter[r].name)
    PROVE  MetricsInv'
<1>1. /\ UNCHANGED <<treeVars, worker, made, phase, chanClosed, listening, clients, clientCount, client>>
      /\ reporter' = [reporter EXCEPT ![r] = Idle]
  BY DEF Receive, Registered, brokerVars, treeVars
<1>2. TreeInv'
  BY <1>1 DEF MetricsInv, TreeInv, TreeTypes, Ids, Registered, ParentsRegistered, treeVars
<1>3. WorkerInv'
  BY <1>1 DEF MetricsInv, WorkerInv, treeVars, Ids
<1>4. CountInv'
  BY <1>1, <1>3, CountKept DEF MetricsInv, Owed, treeVars
<1>5. ClientInv' /\ ToldInv'
  BY <1>1, ClientsKept DEF MetricsInv, treeVars
<1>6. RestInv'
  <2>1. Idle \in ReporterRecord
    BY MetricsAssumption DEF Idle, ReporterRecord, MetricsAssumption
  <2> QED BY <1>1, <2>1 DEF MetricsInv, RestInv
<1> QED BY <1>2, <1>3, <1>4, <1>5, <1>6 DEF MetricsInv

\* One level is counted: the worker owes the next one, which has one request more
\* below it.
LEMMA UpdateStep ==
    ASSUME MetricsInv, NEW w \in Workers, UpdateLevel(w),
           NEW m, m = worker[w].cur, NEW q, q = metrics[m].parent, NEW k, k = metrics[m].count + 1
    PROVE  MetricsInv'
<1>1. /\ UNCHANGED <<connectionMetricsMap, reporter, made, phase, chanClosed, listening, clients, clientCount, client>>
      /\ worker[w].at = "update" /\ worker' = [worker EXCEPT ![w].at = "notify", ![w].copy = k]
      /\ metrics' = [metrics EXCEPT ![m].count = k]
  BY DEF UpdateLevel, brokerVars
<1>2. m \in Ids /\ q \in 0 .. Len(metrics) /\ q < m /\ q # m /\ k \in Nat /\ metrics[m].count \in Nat
  <2>1. m \in Ids
    BY <1>1 DEF MetricsInv, WorkerInv
  <2> QED BY <2>1, TreeFacts DEF MetricsInv, Ids
<1> DEFINE new == [metrics[m] EXCEPT !.count = k]
<1>3. /\ new \in MetricRecord /\ new.parent = q /\ new.count = k
      /\ new.routed = metrics[m].routed /\ new.name = metrics[m].name
  <2>1. metrics[m] \in MetricRecord
    BY <1>2, TreeFacts DEF MetricsInv
  <2> QED BY <1>2, <2>1 DEF MetricRecord
<1>4. metrics' = [metrics EXCEPT ![m] = new]
  BY <1>1
<1> HIDE DEF new
<1>5. /\ metrics' \in Seq(MetricRecord) /\ Len(metrics') = Len(metrics)
      /\ metrics'[m] = new /\ \A j \in Ids : j # m => metrics'[j] = metrics[j]
  BY <1>2, <1>3, <1>4 DEF MetricsInv, TreeInv, TreeTypes, Ids
<1>6. \A j \in Ids : metrics'[j].parent = metrics[j].parent /\ metrics'[j].routed = metrics[j].routed
  BY <1>3, <1>5
<1>7. TreeInv' /\ Ids' = Ids
  BY <1>1, <1>5, <1>6, TreeKept DEF MetricsInv, SameTree
<1>8. /\ worker' \in [Workers -> WorkerRecord]
      /\ worker'[w].at = "notify" /\ worker'[w].cur = m /\ worker'[w].copy = k
      /\ \A v \in Workers : v # w => worker'[v] = worker[v]
  BY <1>1, <1>2 DEF MetricsInv, WorkerInv, WorkerRecord, Stages
<1>c. \A j \in Ids : metrics'[j].count >= metrics[j].count /\ metrics[j].count \in Nat /\ metrics'[j].count \in Nat
  <2>1. \A j \in Ids : metrics[j].count \in Nat
    BY TreeFacts DEF MetricsInv
  <2> QED BY <1>2, <1>3, <1>5, <2>1
<1>9. WorkerInv'
  <2>1. \A v \in Workers : worker'[v].at \in {"update", "notify", "broadcast"} => worker'[v].cur \in Ids
    BY <1>2, <1>8 DEF MetricsInv, WorkerInv
  <2>2. \A v \in Workers : worker'[v].at \in {"notify", "broadcast"} => worker'[v].copy <= metrics'[worker'[v].cur].count
    <3> SUFFICES ASSUME NEW v \in Workers, worker'[v].at \in {"notify", "broadcast"}
                 PROVE  worker'[v].copy <= metrics'[worker'[v].cur].count
      OBVIOUS
    <3>1. CASE v = w
      BY <1>2, <1>3, <1>5, <1>8, <3>1
    <3>2. CASE v # w
      <4>1. worker'[v] = worker[v] /\ worker[v].copy <= metrics[worker[v].cur].count /\ worker[v].cur \in Ids
        BY <1>8, <3>2 DEF MetricsInv, WorkerInv
      <4>2. worker[v].copy \in Nat
        BY DEF MetricsInv, WorkerInv, WorkerRecord
      <4> QED BY <1>c, <4>1, <4>2
    <3> QED BY <3>1, <3>2
  <2>3. phase' # "built"
    BY <1>1 DEF MetricsInv, WorkerInv
  <2> QED BY <1>7, <1>8, <2>1, <2>2, <2>3 DEF WorkerInv
<1>10. /\ \A v \in Workers : v # w => Owed(v)' = Owed(v)
       /\ Owed(w)' = q /\ Owed(w) = m
  <2>1. \A v \in Workers : worker[v].at \in {"notify", "broadcast"} => worker[v].cur \in Ids
    BY DEF MetricsInv, WorkerInv
  <2>2. Owed(w)' = q
    BY <1>2, <1>6, <1>8 DEF Owed
  <2>3. Owed(w) = m
    BY <1>1 DEF Owed
  <2>4. \A v \in Workers : v # w => Owed(v)' = Owed(v)
    BY <1>6, <1>8, <2>1 DEF Owed
  <2> QED BY <2>2, <2>3, <2>4
<1>11. CountInv'
  <2>1. \A j \in Ids : Due(j)' = {v \in Workers : Owed(v)' = j}
    <3>1. DueOwed'
      BY <1>9, DueIsOwed, PTL
    <3> QED BY <1>7, <3>1 DEF DueOwed
  <2>2. \A j \in Ids : Due(j) = {v \in Workers : Owed(v) = j}
    BY DueIsOwed DEF MetricsInv, DueOwed
  <2>3. Due(m)' = Due(m) \ {w} /\ w \in Due(m)
    BY <1>2, <1>10, <2>1, <2>2
  <2>4. q \in Ids => Due(q)' = Due(q) \union {w} /\ w \notin Due(q)
    BY <1>2, <1>10, <2>1, <2>2
  <2>5. \A j \in Ids : j # m /\ j # q => Due(j)' = Due(j)
    BY <1>10, <2>1, <2>2
  <2>6. \A j \in Ids : \A x :
            x \in CountedBelow(j) <=> \E i \in Ids : \E c \in 1 .. metrics[i].count : metrics[i].parent = j /\ x = <<i, c>>
    BY DEF CountedBelow
  <2>7. \A j \in Ids : \A x :
            x \in CountedBelow(j)' <=>
                \E i \in Ids : \E c \in 1 .. metrics'[i].count : metrics'[i].parent = j /\ x = <<i, c>>
    BY <1>7 DEF CountedBelow
  <2>8. \A j \in Ids : j # q => CountedBelow(j)' = CountedBelow(j)
    <3> SUFFICES ASSUME NEW j \in Ids, j # q, NEW x PROVE x \in CountedBelow(j)' <=> x \in CountedBelow(j)
      OBVIOUS
    <3>1. \A i \in Ids : metrics[i].parent = j => i # m /\ metrics'[i].count = metrics[i].count
      BY <1>5
    <3> QED BY <1>6, <2>6, <2>7, <3>1
  <2>9. q \in Ids => CountedBelow(q)' = CountedBelow(q) \union {<<m, k>>} /\ <<m, k>> \notin CountedBelow(q)
    <3> SUFFICES ASSUME q \in Ids
                 PROVE  CountedBelow(q)' = CountedBelow(q) \union {<<m, k>>} /\ <<m, k>> \notin CountedBelow(q)
      OBVIOUS
    <3>1. <<m, k>> \notin CountedBelow(q)
      BY <1>2, <2>6
    <3>2. ASSUME NEW x PROVE x \in CountedBelow(q)' <=> x \in CountedBelow(q) \/ x = <<m, k>>
      <4>1. ASSUME x \in CountedBelow(q) PROVE x \in CountedBelow(q)'
        <5>1. PICK i \in Ids : \E c \in 1 .. metrics[i].count : metrics[i].parent = q /\ x = <<i, c>>
          BY <2>6, <4>1
        <5>2. PICK c \in 1 .. metrics[i].count : metrics[i].parent = q /\ x = <<i, c>>
          BY <5>1
        <5>3. c \in 1 .. metrics'[i].count /\ metrics'[i].parent = q
          BY <1>6, <1>c, <5>2
        <5> QED BY <2>7, <5>2, <5>3
      <4>2. <<m, k>> \in CountedBelow(q)'
        <5>1. k \in 1 .. metrics'[m].count /\ metrics'[m].parent = q
          BY <1>2, <1>3, <1>5
        <5> QED BY <1>2, <2>7, <5>1
      <4>3. ASSUME x \in CountedBelow(q)', x # <<m, k>> PROVE x \in CountedBelow(q)
        <5>1. PICK i \in Ids : \E c \in 1 .. metrics'[i].count : metrics'[i].parent = q /\ x = <<i, c>>
          BY <2>7, <4>3
        <5>2. PICK c \in 1 .. metrics'[i].count : metrics'[i].parent = q /\ x = <<i, c>>
          BY <5>1
        <5>3. c \in 1 .. metrics[i].count /\ metrics[i].parent = q
          BY <1>2, <1>3, <1>5, <1>6, <4>3, <5>2
        <5> QED BY <2>6, <5>2, <5>3
      <4> QED BY <4>1, <4>2, <4>3
    <3> QED BY <3>1, <3>2
  <2>10. \A j \in Ids :
            /\ metrics[j].count + Cardinality(Due(j)) = metrics[j].routed + Cardinality(CountedBelow(j))
            /\ IsFiniteSet(CountedBelow(j))
    BY DEF MetricsInv, CountInv, EveryLevelCounts
  <2>11. ASSUME NEW j \in Ids
         PROVE  /\ metrics'[j].count + Cardinality(Due(j)') = metrics'[j].routed + Cardinality(CountedBelow(j)')
                /\ IsFiniteSet(CountedBelow(j)')
    <3>1. Cardinality(CountedBelow(j)) \in Nat
      BY <2>10, FS_CardinalityType
    <3>2. /\ metrics[j].count \in Nat /\ metrics[j].routed \in Nat
          /\ IsFiniteSet(Due(j)) /\ Cardinality(Due(j)) \in Nat
      BY DueFinite, TreeFacts DEF MetricsInv
    <3>3. metrics'[j].routed = metrics[j].routed
      BY <1>6
    <3>4. CASE j = m
      <4>1. Cardinality(Due(j)') = Cardinality(Due(j)) - 1
        BY <2>3, <3>2, <3>4, FS_RemoveElement
      <4>2. metrics'[j].count = metrics[j].count + 1
        BY <1>3, <1>5, <3>4
      <4>3. CountedBelow(j)' = CountedBelow(j)
        BY <1>2, <2>8, <3>4
      <4> QED BY <2>10, <3>1, <3>2, <3>3, <4>1, <4>2, <4>3
    <3>5. CASE j = q
      <4>1. Cardinality(Due(j)') = Cardinality(Due(j)) + 1
        BY <2>4, <3>2, <3>5, FS_AddElement
      <4>2. metrics'[j].count = metrics[j].count
        BY <1>2, <1>5, <3>5
      <4>3. Cardinality(CountedBelow(j)') = Cardinality(CountedBelow(j)) + 1 /\ IsFiniteSet(CountedBelow(j)')
        BY <2>9, <2>10, <3>5, FS_AddElement
      <4> QED BY <2>10, <3>1, <3>2, <3>3, <4>1, <4>2, <4>3
    <3>6. CASE j # m /\ j # q
      <4>1. Due(j)' = Due(j) /\ CountedBelow(j)' = CountedBelow(j) /\ metrics'[j].count = metrics[j].count
        BY <1>5, <2>5, <2>8, <3>6
      <4> QED BY <2>10, <3>3, <4>1
    <3> QED BY <3>4, <3>5, <3>6
  <2> QED BY <1>7, <2>11 DEF CountInv, EveryLevelCounts
<1>12. ClientInv'
  <2>1. ASSUME NEW c \in Clients, NEW i \in 1 .. MaxObjects
        PROVE  IF i \in Ids THEN client[c].told[i] <= metrics'[i].count ELSE client[c].told[i] = 0
    <3>1. IF i \in Ids THEN client[c].told[i] <= metrics[i].count ELSE client[c].told[i] = 0
      BY DEF MetricsInv, ClientInv
    <3>2. client[c].told[i] \in Nat
      <4>1. client[c].told \in [1 .. MaxObjects -> Nat]
        BY DEF MetricsInv, ClientInv, ClientRecord
      <4> QED BY <4>1
    <3> QED BY <1>c, <3>1, <3>2
  <2> QED BY <1>1, <1>7, <2>1 DEF MetricsInv, ClientInv
<1>13. ToldInv'
  <2>1. \A n \in Names : Registered(n)' = Registered(n) /\ (Registered(n) => connectionMetricsMap[n] \in Ids)
    BY <1>1, TreeFacts DEF MetricsInv, Registered
  <2>2. Telling(w, m)'
    BY <1>3, <1>5, <1>8 DEF Telling
  <2>3. \A v \in Workers : \A j \in Ids : Telling(v, j) => v # w /\ worker'[v] = worker[v]
    BY <1>1, <1>8 DEF Telling
  <2>4. \A v \in Workers : \A j \in Ids : j # m /\ Telling(v, j) => Telling(v, j)'
    BY <1>5, <2>3 DEF Telling
  <2> SUFFICES ASSUME NEW c \in clients, client[c].at = "stream", ~client[c].dropped, listening,
                      NEW n \in Names, Registered(n), NEW j, j = connectionMetricsMap[n]
               PROVE  client[c].told[j] = metrics'[j].count \/ \E v \in Workers : Telling(v, j)'
    BY <1>1, <2>1 DEF ToldInv
  <2>5. client[c].told[j] = metrics[j].count \/ \E v \in Workers : Telling(v, j)
    BY DEF MetricsInv, ToldInv
  <2> QED BY <1>5, <2>1, <2>2, <2>4, <2>5
<1>14. RestInv'
  BY <1>1 DEF MetricsInv, RestInv
<1> QED BY <1>7, <1>9, <1>11, <1>12, <1>13, <1>14 DEF MetricsInv

\* The names on the way up from n.
LEMMA NamesAbove ==
    ASSUME NEW n \in Names
    PROVE  /\ Len(n) \in Nat
           /\ \A d \in 0 .. Len(n) :
                  SubSeq(n, 1, d) \in Names /\ Len(SubSeq(n, 1, d)) = d /\ IsPrefix(SubSeq(n, 1, d), n)
           /\ \A d \in 1 .. Len(n) : Front(SubSeq(n, 1, d)) = SubSeq(n, 1, d - 1) /\ SubSeq(n, 1, d) # Global
           /\ \A m \in Names : IsPrefix(m, n) => Len(m) \in 0 .. Len(n) /\ m = SubSeq(n, 1, Len(m))
<1>1. n \in Seq(STRING) /\ Len(n) \in Nat
  BY MetricsAssumption DEF MetricsAssumption
<1>2. \A d \in 0 .. Len(n) : SubSeq(n, 1, d) \in Names
  BY MetricsAssumption DEF MetricsAssumption
<1>3. \A d \in 0 .. Len(n) :
          /\ SubSeq(n, 1, d) \in Seq(STRING) /\ Len(SubSeq(n, 1, d)) = d
          /\ \A i \in 1 .. d : SubSeq(n, 1, d)[i] = n[i]
  BY ONLY <1>1, FirstElements
<1>4. ASSUME NEW d \in 0 .. Len(n) PROVE IsPrefix(SubSeq(n, 1, d), n)
  <2> DEFINE p == SubSeq(n, 1, d)
  <2>1. p \in Seq(STRING) /\ Len(p) = d /\ \A i \in 1 .. d : p[i] = n[i]
    BY <1>3
  <2> HIDE DEF p
  <2>2. IsPrefix(p, n)
    BY <1>1, <2>1 DEF IsPrefix
  <2> QED BY <2>2 DEF p
<1>5. ASSUME NEW d \in 1 .. Len(n) PROVE Front(SubSeq(n, 1, d)) = SubSeq(n, 1, d - 1) /\ SubSeq(n, 1, d) # Global
  <2> DEFINE p == SubSeq(n, 1, d)
             o == SubSeq(n, 1, d - 1)
  <2>1. d \in 0 .. Len(n) /\ d - 1 \in 0 .. Len(n)
    BY <1>1
  <2>2. /\ p \in Seq(STRING) /\ Len(p) = d /\ \A i \in 1 .. d : p[i] = n[i]
        /\ o \in Seq(STRING) /\ Len(o) = d - 1 /\ \A i \in 1 .. d - 1 : o[i] = n[i]
    BY <1>3, <2>1
  <2>3. Front(p) = SubSeq(p, 1, d - 1)
    BY <2>2 DEF Front
  <2> HIDE DEF p, o
  <2>4. /\ Front(p) \in Seq(STRING) /\ Len(Front(p)) = d - 1
        /\ \A i \in 1 .. d - 1 : Front(p)[i] = p[i]
    <3>1. d - 1 \in 0 .. Len(p)
      BY <2>2
    <3> QED BY ONLY <2>2, <2>3, <3>1, FirstElements
  <2>5. Front(p) = o
    BY <2>2, <2>4
  <2>6. p # <<>>
    BY <2>2
  <2> QED BY <2>5, <2>6 DEF p, o, Global
<1>6. ASSUME NEW m \in Names, IsPrefix(m, n) PROVE Len(m) \in 0 .. Len(n) /\ m = SubSeq(n, 1, Len(m))
  <2>1. m \in Seq(STRING) /\ Len(m) \in Nat
    BY MetricsAssumption DEF MetricsAssumption
  <2>2. Len(m) \in 0 .. Len(n) /\ \A i \in 1 .. Len(m) : m[i] = n[i]
    BY <1>1, <1>6, <2>1 DEF IsPrefix
  <2> DEFINE p == SubSeq(n, 1, Len(m))
  <2>3. p \in Seq(STRING) /\ Len(p) = Len(m) /\ \A i \in 1 .. Len(m) : p[i] = n[i]
    BY <1>3, <2>2
  <2> HIDE DEF p
  <2>4. p = m
    BY <2>1, <2>2, <2>3
  <2> QED BY <2>2, <2>4 DEF p
<1> QED BY <1>1, <1>2, <1>3, <1>4, <1>5, <1>6

\* A chain is built: the missing metrics are added below the first registered name,
\* each with the metric just made, or already registered, above it.
LEMMA TrackStep ==
    ASSUME MetricsInv, NEW n \in Names, NEW top \in 0 .. Len(n), StopsAt(n, top), CreateMetrics(n, top),
           UNCHANGED <<reporter, worker, made, phase, chanClosed, brokerVars>>, NEW base, base = Len(metrics)
    PROVE  MetricsInv'
<1> DEFINE Up(d) == SubSeq(n, 1, d)
           IsNew(m) == IsPrefix(m, n) /\ Len(m) > top
           map == [m \in Names |-> IF IsNew(m) THEN base + Len(m) - top ELSE connectionMetricsMap[m]]
           new(m) == [name |-> m, parent |-> map[Front(m)], count |-> 0, routed |-> 0]
           more == [i \in 1 .. Len(n) - top |-> new(Up(top + i))]
<1>1. /\ connectionMetricsMap' = map /\ metrics' = metrics \o more /\ base + Len(n) - top <= MaxObjects
      /\ UNCHANGED <<reporter, worker, made, phase, chanClosed, listening, clients, clientCount, client>>
  BY DEF CreateMetrics, brokerVars, deriveParentMetricName
<1>2. /\ Len(n) \in Nat /\ top \in Nat /\ top <= Len(n) /\ base \in Nat /\ base > 0 /\ MaxObjects \in Nat
      /\ Ids = 1 .. base /\ metrics \in Seq(MetricRecord)
  <2>1. Len(n) \in Nat
    BY NamesAbove
  <2>2. MaxObjects \in Nat
    BY MetricsAssumption DEF MetricsAssumption
  <2> QED BY <2>1, <2>2 DEF MetricsInv, TreeInv, TreeTypes, Ids
<1>3. \A d \in 0 .. Len(n) : Up(d) \in Names /\ Len(Up(d)) = d /\ IsPrefix(Up(d), n)
  BY NamesAbove
<1>4. \A d \in 1 .. Len(n) : Front(Up(d)) = Up(d - 1) /\ Up(d) # Global
  BY NamesAbove
<1>5. \A m \in Names : IsNew(m) => Len(m) \in top + 1 .. Len(n) /\ m = Up(Len(m)) /\ ~Registered(m)
  <2> SUFFICES ASSUME NEW m \in Names, IsNew(m)
               PROVE  Len(m) \in top + 1 .. Len(n) /\ m = Up(Len(m)) /\ ~Registered(m)
    OBVIOUS
  <2>1. Len(m) \in 0 .. Len(n) /\ m = Up(Len(m))
    BY NamesAbove
  <2>2. Len(m) \in top + 1 .. Len(n)
    BY <1>2, <2>1
  <2>3. \A d \in top + 1 .. Len(n) : ~Registered(Up(d))
    BY DEF StopsAt
  <2>4. ~Registered(Up(Len(m)))
    BY <2>2, <2>3
  <2> HIDE DEF Up
  <2> QED BY <2>1, <2>2, <2>4
<1>6. \A d \in 0 .. Len(n) : IsNew(Up(d)) <=> d > top
  <2> HIDE DEF Up
  <2> QED BY <1>3
<1>7. Registered(Up(top)) /\ Up(top) \in Names
  BY <1>2, <1>3 DEF StopsAt
<1> HIDE DEF Up, IsNew
<1>8. \A m \in Names : map[m] = IF IsNew(m) THEN base + Len(m) - top ELSE connectionMetricsMap[m]
  OBVIOUS
<1>9. map[Up(top)] = connectionMetricsMap[Up(top)] /\ map[Up(top)] \in Ids
  BY <1>2, <1>6, <1>7, <1>8, TreeFacts DEF MetricsInv
<1>10. \A d \in top + 1 .. Len(n) : map[Up(d)] = base + d - top
  <2> SUFFICES ASSUME NEW d \in top + 1 .. Len(n) PROVE map[Up(d)] = base + d - top
    OBVIOUS
  <2>1. d \in 0 .. Len(n) /\ d > top
    BY <1>2
  <2>2. Up(d) \in Names /\ Len(Up(d)) = d /\ IsNew(Up(d))
    BY <1>3, <1>6, <2>1
  <2> HIDE DEF map
  <2> QED BY <1>8, <2>2
<1> HIDE DEF map
<1>11. \A i \in 1 .. Len(n) - top :
          /\ new(Up(top + i)) \in MetricRecord
          /\ new(Up(top + i)).count = 0 /\ new(Up(top + i)).routed = 0
          /\ new(Up(top + i)).parent = map[Front(Up(top + i))]
          /\ map[Front(Up(top + i))] \in 1 .. base + i - 1
  <2> SUFFICES ASSUME NEW i \in 1 .. Len(n) - top
               PROVE  /\ new(Up(top + i)) \in MetricRecord
                      /\ new(Up(top + i)).count = 0 /\ new(Up(top + i)).routed = 0
                      /\ new(Up(top + i)).parent = map[Front(Up(top + i))]
                      /\ map[Front(Up(top + i))] \in 1 .. base + i - 1
    OBVIOUS
  <2> DEFINE u == Up(top + i)
             p == map[Front(u)]
  <2>1. top + i \in 0 .. Len(n) /\ top + i \in 1 .. Len(n) /\ top + i - 1 \in 0 .. Len(n)
    BY <1>2
  <2>2. u \in Names /\ Front(u) = Up(top + i - 1)
    BY <1>3, <1>4, <2>1
  <2>3. p \in 1 .. base + i - 1
    <3>1. CASE i = 1
      <4>1. Front(u) = Up(top)
        BY <1>2, <2>2, <3>1
      <4> QED BY <1>2, <1>9, <3>1, <4>1
    <3>2. CASE i # 1
      <4>1. top + i - 1 \in top + 1 .. Len(n) /\ i \in Nat
        BY <1>2, <3>2
      <4>2. p = base + (top + i - 1) - top
        BY <1>10, <2>2, <4>1
      <4> QED BY <1>2, <3>2, <4>1, <4>2
    <3> QED BY <3>1, <3>2
  <2>4. p \in Nat
    BY <1>2, <2>3
  <2> HIDE DEF u, p
  <2>5. /\ new(u) = [name |-> u, parent |-> p, count |-> 0, routed |-> 0]
    BY DEF p
  <2>6. new(u) \in MetricRecord /\ new(u).parent = p /\ new(u).count = 0 /\ new(u).routed = 0
    <3> HIDE DEF new
    <3> QED BY <2>2, <2>4, <2>5 DEF MetricRecord
  <2> QED BY <2>3, <2>6 DEF p, u
<1> DEFINE added == Len(n) - top
<1>12. added \in Nat /\ base + added <= MaxObjects
  BY <1>1, <1>2
<1>13. more \in Seq(MetricRecord) /\ Len(more) = added /\ \A i \in 1 .. added : more[i] = new(Up(top + i))
  <2> HIDE DEF new
  <2>1. more \in [1 .. added -> MetricRecord] /\ \A i \in 1 .. added : more[i] = new(Up(top + i))
    BY <1>11
  <2> HIDE DEF more, added
  <2> QED BY <1>12, <2>1
<1> HIDE DEF more, new, added
<1>14. /\ metrics' \in Seq(MetricRecord) /\ Len(metrics') = base + added
       /\ \A i \in 1 .. base : metrics'[i] = metrics[i]
       /\ \A i \in 1 .. added : metrics'[base + i] = more[i]
  <2>1. metrics' = metrics \o more
    BY <1>1
  <2>2. more \in Seq(MetricRecord) /\ Len(more) = added /\ added \in Nat
    BY <1>12, <1>13
  <2>3. /\ metrics' \in Seq(MetricRecord) /\ Len(metrics') = Len(metrics) + Len(more)
        /\ \A i \in 1 .. Len(metrics) + Len(more) :
               metrics'[i] = IF i <= Len(metrics) THEN metrics[i] ELSE more[i - Len(metrics)]
    <3>1. metrics \in Seq(MetricRecord) /\ more \in Seq(MetricRecord)
      BY <1>2, <2>2
    <3> HIDE DEF MetricRecord
    <3> QED BY ONLY <2>1, <3>1, ConcatProperties
  <2>4. ASSUME NEW i \in 1 .. added PROVE metrics'[base + i] = more[i]
    <3>1. base + i \in 1 .. Len(metrics) + Len(more) /\ ~(base + i <= Len(metrics)) /\ base + i - Len(metrics) = i
      BY <1>2, <2>2
    <3> QED BY <2>3, <3>1
  <2>5. ASSUME NEW i \in 1 .. base PROVE metrics'[i] = metrics[i]
    <3>1. i \in 1 .. Len(metrics) + Len(more) /\ i <= Len(metrics)
      BY <1>2, <2>2
    <3> QED BY <2>3, <3>1
  <2> QED BY <2>2, <2>3, <2>4, <2>5
<1>15. Ids' = 1 .. base + added /\ \A i \in Ids : i \in Ids'
  BY <1>2, <1>12, <1>14 DEF Ids
<1>16. \A i \in Ids' : i \notin Ids =>
          /\ i - base \in 1 .. added /\ metrics'[i].count = 0 /\ metrics'[i].routed = 0
          /\ metrics'[i].parent = map[Front(Up(top + (i - base)))]
          /\ metrics'[i].parent \in 1 .. i - 1
  <2> SUFFICES ASSUME NEW i \in Ids', i \notin Ids
               PROVE  /\ i - base \in 1 .. added /\ metrics'[i].count = 0 /\ metrics'[i].routed = 0
                      /\ metrics'[i].parent = map[Front(Up(top + (i - base)))]
                      /\ metrics'[i].parent \in 1 .. i - 1
    OBVIOUS
  <2>1. i - base \in 1 .. added /\ i \in Nat /\ base + (i - base) = i
    BY <1>2, <1>12, <1>15
  <2>2. metrics'[i] = new(Up(top + (i - base)))
    BY <1>13, <1>14, <2>1
  <2>3. base + (i - base) - 1 = i - 1
    BY <1>2, <2>1
  <2> QED BY <1>11, <2>1, <2>2, <2>3 DEF added
<1>17. \A i \in Ids : metrics'[i] = metrics[i]
  BY <1>2, <1>14
<1>18. TreeInv'
  <2>1. TreeTypes'
    <3>1. \A i \in Ids' : metrics'[i].parent < i
      <4> SUFFICES ASSUME NEW i \in Ids' PROVE metrics'[i].parent < i
        OBVIOUS
      <4>1. CASE i \in Ids
        BY <1>17, <4>1, TreeFacts DEF MetricsInv
      <4>2. CASE i \notin Ids
        BY <1>2, <1>12, <1>15, <1>16, <4>2
      <4> QED BY <4>1, <4>2
    <3>2. \A m \in Names : map[m] \in 0 .. base + added
      <4> SUFFICES ASSUME NEW m \in Names PROVE map[m] \in 0 .. base + added
        OBVIOUS
      <4>1. CASE IsNew(m)
        <5>1. Len(m) \in top + 1 .. Len(n)
          BY <1>5, <4>1
        <5> QED BY <1>2, <1>8, <4>1, <5>1 DEF added
      <4>2. CASE ~IsNew(m)
        <5>1. connectionMetricsMap[m] \in 0 .. base
          BY DEF MetricsInv, TreeInv, TreeTypes
        <5> QED BY <1>2, <1>8, <1>12, <4>2, <5>1
      <4> QED BY <4>1, <4>2
    <3>3. connectionMetricsMap' \in [Names -> 0 .. Len(metrics')]
      BY <1>1, <1>14, <3>2 DEF map
    <3>4. Len(metrics') \in 1 .. MaxObjects
      BY <1>2, <1>12, <1>14
    <3> QED BY <1>14, <3>1, <3>3, <3>4 DEF TreeTypes
  <2>2. Registered(Global)'
    <3>1. Global \in Names /\ Len(Global) = 0
      BY MetricsAssumption DEF MetricsAssumption, Global
    <3>2. ~IsNew(Global)
      BY <1>2, <3>1 DEF IsNew
    <3>3. map[Global] = connectionMetricsMap[Global]
      BY <1>8, <3>1, <3>2
    <3> QED BY <1>1, <3>3 DEF Registered, MetricsInv, TreeInv
  <2>3. ParentsRegistered'
    <3> SUFFICES ASSUME NEW m \in Names, map[m] # NoMetric, m # Global
                 PROVE  map[Front(m)] # NoMetric /\ metrics'[map[m]].parent = map[Front(m)]
      BY <1>1 DEF ParentsRegistered, Registered
    <3>1. CASE IsNew(m)
      <4> DEFINE d == Len(m)
      <4>1. d \in top + 1 .. Len(n) /\ m = Up(d)
        BY <1>5, <3>1
      <4> HIDE DEF d
      <4>2. map[m] = base + d - top
        BY <1>10, <4>1
      <4>3. map[m] \in Ids' /\ map[m] \notin Ids /\ top + (map[m] - base) = d
        BY <1>2, <1>12, <1>15, <4>1, <4>2 DEF added
      <4>4. metrics'[map[m]].parent = map[Front(m)] /\ metrics'[map[m]].parent \in 1 .. map[m] - 1
        BY <1>16, <4>1, <4>3
      <4> QED BY <4>4 DEF NoMetric
    <3>2. CASE ~IsNew(m)
      <4>1. map[m] = connectionMetricsMap[m] /\ Registered(m)
        BY <1>8, <3>2 DEF Registered
      <4>2. Registered(Front(m)) /\ metrics[connectionMetricsMap[m]].parent = connectionMetricsMap[Front(m)]
        BY <4>1 DEF MetricsInv, TreeInv, ParentsRegistered
      <4>3. Front(m) \in Names
        BY FrontName
      <4>4. map[Front(m)] = connectionMetricsMap[Front(m)]
        BY <1>5, <1>8, <4>2, <4>3
      <4>5. connectionMetricsMap[m] \in Ids
        BY <4>1, TreeFacts DEF MetricsInv
      <4> QED BY <1>17, <4>1, <4>2, <4>4, <4>5 DEF Registered
    <3> QED BY <3>1, <3>2
  <2> QED BY <2>1, <2>2, <2>3 DEF TreeInv
<1>19. WorkerInv'
  BY <1>1, <1>15, <1>17 DEF MetricsInv, WorkerInv
<1>20. \A v \in Workers : Owed(v)' = Owed(v) /\ Owed(v) \in 0 .. base
  <2>1. \A v \in Workers : worker[v].at \in {"update", "notify", "broadcast"} => worker[v].cur \in Ids
    BY DEF MetricsInv, WorkerInv
  <2>2. \A v \in Workers : Owed(v)' = Owed(v)
    BY <1>1, <1>17, <2>1 DEF Owed
  <2>3. \A i \in Ids : metrics[i].parent \in 0 .. base /\ i \in 0 .. base
    BY <1>2, TreeFacts DEF MetricsInv
  <2>4. NoMetric \in 0 .. base
    BY <1>2 DEF NoMetric
  <2> QED BY <2>1, <2>2, <2>3, <2>4 DEF Owed
<1>21. CountInv'
  <2>1. \A j \in Ids' : Due(j)' = {v \in Workers : Owed(v)' = j}
    <3>1. DueOwed'
      BY <1>19, DueIsOwed, PTL
    <3> QED BY <3>1 DEF DueOwed
  <2>2. \A j \in Ids : Due(j) = {v \in Workers : Owed(v) = j}
    BY DueIsOwed DEF MetricsInv, DueOwed
  <2>3. \A j \in Ids : Due(j)' = Due(j)
    <3> SUFFICES ASSUME NEW j \in Ids PROVE Due(j)' = Due(j)
      OBVIOUS
    <3>1. Due(j)' = {v \in Workers : Owed(v)' = j} /\ Due(j) = {v \in Workers : Owed(v) = j}
      BY <1>15, <2>1, <2>2
    <3> QED BY <1>20, <3>1
  <2>4. \A j \in Ids' : j \notin Ids => Due(j)' = {}
    BY <1>2, <1>12, <1>15, <1>20, <2>1
  <2>5. \A j : \A x :
            x \in CountedBelow(j) <=> \E i \in Ids : \E c \in 1 .. metrics[i].count : metrics[i].parent = j /\ x = <<i, c>>
    BY DEF CountedBelow
  <2>6. \A j \in Ids' : \A x :
            x \in CountedBelow(j)' <=>
                \E i \in Ids' : \E c \in 1 .. metrics'[i].count : metrics'[i].parent = j /\ x = <<i, c>>
    BY DEF CountedBelow
  <2>7. \A i \in Ids' : i \notin Ids => 1 .. metrics'[i].count = {}
    BY <1>16
  <2>8. \A j \in Ids' : \A x : x \in CountedBelow(j)' <=> x \in CountedBelow(j)
    <3> SUFFICES ASSUME NEW j \in Ids', NEW x PROVE x \in CountedBelow(j)' <=> x \in CountedBelow(j)
      OBVIOUS
    <3>1. x \in CountedBelow(j)' => x \in CountedBelow(j)
      BY <1>17, <2>5, <2>6, <2>7
    <3>2. x \in CountedBelow(j) => x \in CountedBelow(j)'
      BY <1>15, <1>17, <2>5, <2>6
    <3> QED BY <3>1, <3>2
  <2>9. \A j \in Ids : CountedBelow(j)' = CountedBelow(j)
    BY <1>15, <2>8
  <2>10. \A j \in Ids' : j \notin Ids => CountedBelow(j)' = {}
    <3>1. \A i \in Ids : metrics[i].parent \in 0 .. base
      BY <1>2, TreeFacts DEF MetricsInv
    <3>2. \A j \in Ids' : j \notin Ids => j \notin 0 .. base
      BY <1>2, <1>12, <1>15
    <3>3. \A j \in Ids' : j \notin Ids => CountedBelow(j) = {}
      BY <2>5, <3>1, <3>2
    <3> QED BY <2>8, <3>3
  <2>11. ASSUME NEW j \in Ids'
         PROVE  /\ metrics'[j].count + Cardinality(Due(j)') = metrics'[j].routed + Cardinality(CountedBelow(j)')
                /\ IsFiniteSet(CountedBelow(j)')
    <3>1. CASE j \in Ids
      BY <1>17, <2>3, <2>9, <3>1 DEF MetricsInv, CountInv, EveryLevelCounts
    <3>2. CASE j \notin Ids
      <4>1. Due(j)' = {} /\ CountedBelow(j)' = {} /\ metrics'[j].count = 0 /\ metrics'[j].routed = 0
        BY <1>16, <2>4, <2>10, <3>2
      <4> QED BY <4>1, FS_EmptySet
    <3> QED BY <3>1, <3>2
  <2> QED BY <2>11 DEF CountInv, EveryLevelCounts
<1>22. ClientInv'
  <2>1. ASSUME NEW c \in Clients, NEW i \in 1 .. MaxObjects
        PROVE  IF i \in Ids' THEN client[c].told[i] <= metrics'[i].count ELSE client[c].told[i] = 0
    <3>1. IF i \in Ids THEN client[c].told[i] <= metrics[i].count ELSE client[c].told[i] = 0
      BY DEF MetricsInv, ClientInv
    <3> QED BY <1>15, <1>16, <1>17, <3>1
  <2> QED BY <1>1, <2>1 DEF MetricsInv, ClientInv
<1>23. ToldInv'
  <2>a. connectionMetricsMap' = map /\ UNCHANGED <<listening, clients, client, worker>>
    BY <1>1
  <2> SUFFICES ASSUME NEW c \in clients, client[c].at = "stream", ~client[c].dropped, listening,
                      NEW m \in Names, map[m] # NoMetric, NEW j, j = map[m]
               PROVE  client[c].told[j] = metrics'[j].count \/ \E v \in Workers : Telling(v, j)'
    BY <2>a DEF ToldInv, Telling, Registered
  <2>1. CASE IsNew(m)
    <3>1. Len(m) \in top + 1 .. Len(n) /\ j = base + Len(m) - top
      BY <1>5, <1>8, <2>1
    <3>2. j \in Ids' /\ j \notin Ids /\ j \in 1 .. MaxObjects
      BY <1>2, <1>12, <1>15, <3>1 DEF added
    <3>3. client[c].told[j] = 0
      BY <3>2 DEF MetricsInv, ClientInv
    <3> QED BY <1>16, <3>2, <3>3
  <2>2. CASE ~IsNew(m)
    <3>1. j = connectionMetricsMap[m] /\ Registered(m) /\ j \in Ids
      BY <1>8, <2>2, TreeFacts DEF Registered, MetricsInv
    <3>2. client[c].told[j] = metrics[j].count \/ \E v \in Workers : Telling(v, j)
      BY <3>1 DEF MetricsInv, ToldInv
    <3> QED BY <1>1, <1>17, <3>1, <3>2 DEF Telling
  <2> QED BY <2>1, <2>2
<1>24. RestInv'
  BY <1>1 DEF MetricsInv, RestInv
<1> QED BY <1>18, <1>19, <1>21, <1>22, <1>23, <1>24 DEF MetricsInv

-----------------------------------------------------------------------------
(* The theorems.                                                             *)

\* Every step keeps the invariant.
LEMMA MetricsStep == MetricsInv /\ [MetricsNext]_metricsVars => MetricsInv'
<1> SUFFICES ASSUME MetricsInv, [MetricsNext]_metricsVars PROVE MetricsInv'
  OBVIOUS
<1>1. ASSUME NEW n \in Names, TrackMetricsForConnection(n) PROVE MetricsInv'
  <2>1. PICK top \in 0 .. Len(n) : StopsAt(n, top) /\ CreateMetrics(n, top)
    BY <1>1 DEF TrackMetricsForConnection
  <2>2. UNCHANGED <<reporter, worker, made, phase, chanClosed, brokerVars>>
    BY <1>1 DEF TrackMetricsForConnection
  <2> QED BY <2>1, <2>2, TrackStep
<1>2. ASSUME NEW p, RemoveMetricsForServer(p) PROVE MetricsInv'
  BY <1>2, RemoveStep
<1>3. ASSUME NEW r \in Reporters, Answer(r) \/ \E n \in Names : Report(r, n) PROVE MetricsInv'
  BY <1>3, QuietSteps DEF Answer
<1>4. ASSUME NEW w \in Workers, Work(w) PROVE MetricsInv'
  <2>1. CASE UpdateLevel(w)
    BY <2>1, UpdateStep
  <2>2. CASE notifyListeners(w)
    BY <2>2, NotifyStep
  <2>3. CASE broadcastAll(w)
    BY <2>3, BroadcastStep
  <2>4. CASE WorkerEnds(w)
    BY <2>4, WorkerEndsStep
  <2>5. ASSUME NEW r \in Reporters, Receive(w, r) PROVE MetricsInv'
    BY <2>5, RouteStep, SkipStep DEF Registered
  <2> QED BY <1>4, <2>1, <2>2, <2>3, <2>4, <2>5 DEF Work
<1>5. ASSUME NEW c \in Clients, Attend(c) PROVE MetricsInv'
  BY <1>5, SubscribeStep, ClientLeavesStep DEF Attend
<1>6. CASE CloseMetricsChan \/ StartCollectingMetrics \/ Stop
  BY <1>6, QuietSteps, StartStep, CloseClientsStep DEF Stop
<1>7. CASE UNCHANGED metricsVars
  <2>1. UNCHANGED <<treeVars, reporter, worker, made, phase, chanClosed, listening, clients, clientCount, client>>
    BY <1>7 DEF metricsVars, brokerVars
  <2>2. TreeInv'
    BY <2>1 DEF MetricsInv, TreeInv, TreeTypes, Ids, Registered, ParentsRegistered, treeVars
  <2>3. WorkerInv'
    BY <2>1 DEF MetricsInv, WorkerInv, treeVars, Ids
  <2>4. CountInv'
    BY <2>1, <2>3, CountKept DEF MetricsInv, Owed, treeVars
  <2>5. ClientInv' /\ ToldInv'
    BY <2>1, ClientsKept DEF MetricsInv, treeVars
  <2>6. RestInv'
    BY <2>1 DEF MetricsInv, RestInv
  <2> QED BY <2>2, <2>3, <2>4, <2>5, <2>6 DEF MetricsInv
<1> QED BY <1>1, <1>2, <1>3, <1>4, <1>5, <1>6, <1>7 DEF MetricsNext

\* The inductive invariant of the metrics manager and the broker.
THEOREM MetricsInvCorrect == MetricsSpec => []MetricsInv
  BY MetricsInitInv, MetricsStep, PTL DEF MetricsSpec

\* Over every order of new chains, deletions, reports, broadcasts and clients, the
\* metrics are a tree whose every level counts every report once.
THEOREM CountsSoundCorrect == MetricsSpec => []CountsSound
<1>1. MetricsInv => CountsSound
  BY TypesFollow DEF CountsSound, MetricsInv, TreeInv, CountInv
<1> QED BY <1>1, MetricsInvCorrect, PTL

\* No broadcast meets a closed channel, and a client whose channel never overflowed
\* has every count before it or on its way.
THEOREM StreamSoundCorrect == MetricsSpec => []StreamSound
<1>1. MetricsInv => BroadcastSafe
  BY DEF MetricsInv, ClientInv, BroadcastSafe
<1>2. MetricsInv => NothingMissed
  <2> SUFFICES ASSUME MetricsInv PROVE NothingMissed
    OBVIOUS
  <2>1. \A w \in Workers : \A i : Telling(w, i) => worker[w].cur = i /\ worker[w].at \in {"notify", "broadcast"}
    BY DEF Telling
  <2> QED BY <2>1 DEF MetricsInv, ToldInv, NothingMissed
<1> QED BY <1>1, <1>2, MetricsInvCorrect, PTL DEF StreamSound

-----------------------------------------------------------------------------
(* Cache subsystem.                                                        *)

\* what may be left of a call, by its number of steps
Notify1 == <<"runlock">>
Notify2 == <<"snapshot", "runlock">>
Notify3 == <<"rlock", "snapshot", "runlock">>
Notify4 == <<"runlock", "rlock", "snapshot", "runlock">>
Notify5 == <<"listeners", "runlock", "rlock", "snapshot", "runlock">>
Notify6 == <<"rlock", "listeners", "runlock", "rlock", "snapshot", "runlock">>
Change7 == <<"change", "rlock", "listeners", "runlock", "rlock", "snapshot", "runlock">>
Add9 == <<"lock", "add", "unlock", "rlock", "listeners", "runlock", "rlock", "snapshot", "runlock">>
Add8 == <<"add", "unlock", "rlock", "listeners", "runlock", "rlock", "snapshot", "runlock">>
Add7 == <<"unlock", "rlock", "listeners", "runlock", "rlock", "snapshot", "runlock">>
Remove9 == <<"lock", "remove", "unlock", "rlock", "listeners", "runlock", "rlock", "snapshot", "runlock">>
Remove8 == <<"remove", "unlock", "rlock", "listeners", "runlock", "rlock", "snapshot", "runlock">>
Leave1 == <<"unlock">>
Delete9 == <<"rlock", "delete", "rlock", "listeners", "runlock", "rlock", "snapshot", "runlock", "runlock">>
Delete8 == <<"delete", "rlock", "listeners", "runlock", "rlock", "snapshot", "runlock", "runlock">>
Deleted2 == <<"runlock", "runlock">>
Deleted3 == <<"snapshot", "runlock", "runlock">>
Deleted4 == <<"rlock", "snapshot", "runlock", "runlock">>
Deleted5 == <<"runlock", "rlock", "snapshot", "runlock", "runlock">>
Deleted6 == <<"listeners", "runlock", "rlock", "snapshot", "runlock", "runlock">>
Deleted7 == <<"rlock", "listeners", "runlock", "rlock", "snapshot", "runlock", "runlock">>
Deleting8 == <<"rlock", "delete", "rlock", "listeners", "runlock", "rlock", "snapshot", "runlock">>
Unlisten3 == <<"lock", "unlisten", "unlock">>
Unlisten2 == <<"unlisten", "unlock">>
Start3 == <<"lock", "start", "unlock">>
Start2 == <<"start", "unlock">>
Clear3 == <<"lock", "clear", "unlock">>
Clear2 == <<"clear", "unlock">>

\* The first of the steps that are left, and what is left after it.
LEMMA StepsLeft ==
    /\ Notify1 # <<>> /\ Head(Notify1) = "runlock" /\ Tail(Notify1) = <<>>
    /\ Notify2 # <<>> /\ Head(Notify2) = "snapshot" /\ Tail(Notify2) = Notify1
    /\ Notify3 # <<>> /\ Head(Notify3) = "rlock" /\ Tail(Notify3) = Notify2
    /\ Notify4 # <<>> /\ Head(Notify4) = "runlock" /\ Tail(Notify4) = Notify3
    /\ Notify5 # <<>> /\ Head(Notify5) = "listeners" /\ Tail(Notify5) = Notify4
    /\ Notify6 # <<>> /\ Head(Notify6) = "rlock" /\ Tail(Notify6) = Notify5
    /\ Change7 # <<>> /\ Head(Change7) = "change" /\ Tail(Change7) = Notify6
    /\ Add9 # <<>> /\ Head(Add9) = "lock" /\ Tail(Add9) = Add8
    /\ Add8 # <<>> /\ Head(Add8) = "add" /\ Tail(Add8) = Add7
    /\ Add7 # <<>> /\ Head(Add7) = "unlock" /\ Tail(Add7) = Notify6
    /\ Remove9 # <<>> /\ Head(Remove9) = "lock" /\ Tail(Remove9) = Remove8
    /\ Remove8 # <<>> /\ Head(Remove8) = "remove" /\ Tail(Remove8) = Add7
    /\ Leave1 # <<>> /\ Head(Leave1) = "unlock" /\ Tail(Leave1) = <<>>
    /\ Delete9 # <<>> /\ Head(Delete9) = "rlock" /\ Tail(Delete9) = Delete8
    /\ Delete8 # <<>> /\ Head(Delete8) = "delete" /\ Tail(Delete8) = Deleted7
    /\ Deleted2 # <<>> /\ Head(Deleted2) = "runlock" /\ Tail(Deleted2) = Notify1
    /\ Deleted3 # <<>> /\ Head(Deleted3) = "snapshot" /\ Tail(Deleted3) = Deleted2
    /\ Deleted4 # <<>> /\ Head(Deleted4) = "rlock" /\ Tail(Deleted4) = Deleted3
    /\ Deleted5 # <<>> /\ Head(Deleted5) = "runlock" /\ Tail(Deleted5) = Deleted4
    /\ Deleted6 # <<>> /\ Head(Deleted6) = "listeners" /\ Tail(Deleted6) = Deleted5
    /\ Deleted7 # <<>> /\ Head(Deleted7) = "rlock" /\ Tail(Deleted7) = Deleted6
    /\ Unlisten3 # <<>> /\ Head(Unlisten3) = "lock" /\ Tail(Unlisten3) = Unlisten2
    /\ Unlisten2 # <<>> /\ Head(Unlisten2) = "unlisten" /\ Tail(Unlisten2) = Leave1
    /\ Start3 # <<>> /\ Head(Start3) = "lock" /\ Tail(Start3) = Start2
    /\ Start2 # <<>> /\ Head(Start2) = "start" /\ Tail(Start2) = Leave1
    /\ Clear3 # <<>> /\ Head(Clear3) = "lock" /\ Tail(Clear3) = Clear2
    /\ Clear2 # <<>> /\ Head(Clear2) = "clear" /\ Tail(Clear2) = Leave1
<1>1. Notify1 # <<>> /\ Head(Notify1) = "runlock" /\ Tail(Notify1) = <<>>
  BY DEF Notify1
<1>2. Notify2 # <<>> /\ Head(Notify2) = "snapshot" /\ Tail(Notify2) = Notify1
  BY DEF Notify2, Notify1
<1>3. Notify3 # <<>> /\ Head(Notify3) = "rlock" /\ Tail(Notify3) = Notify2
  BY DEF Notify3, Notify2
<1>4. Notify4 # <<>> /\ Head(Notify4) = "runlock" /\ Tail(Notify4) = Notify3
  BY DEF Notify4, Notify3
<1>5. Notify5 # <<>> /\ Head(Notify5) = "listeners" /\ Tail(Notify5) = Notify4
  BY DEF Notify5, Notify4
<1>6. Notify6 # <<>> /\ Head(Notify6) = "rlock" /\ Tail(Notify6) = Notify5
  BY DEF Notify6, Notify5
<1>7. Change7 # <<>> /\ Head(Change7) = "change" /\ Tail(Change7) = Notify6
  BY DEF Change7, Notify6
<1>8. Add9 # <<>> /\ Head(Add9) = "lock" /\ Tail(Add9) = Add8
  BY DEF Add9, Add8
<1>9. Add8 # <<>> /\ Head(Add8) = "add" /\ Tail(Add8) = Add7
  BY DEF Add8, Add7
<1>10. Add7 # <<>> /\ Head(Add7) = "unlock" /\ Tail(Add7) = Notify6
  BY DEF Add7, Notify6
<1>11. Remove9 # <<>> /\ Head(Remove9) = "lock" /\ Tail(Remove9) = Remove8
  BY DEF Remove9, Remove8
<1>12. Remove8 # <<>> /\ Head(Remove8) = "remove" /\ Tail(Remove8) = Add7
  BY DEF Remove8, Add7
<1>13. Leave1 # <<>> /\ Head(Leave1) = "unlock" /\ Tail(Leave1) = <<>>
  BY DEF Leave1
<1>14. Delete9 # <<>> /\ Head(Delete9) = "rlock" /\ Tail(Delete9) = Delete8
  BY DEF Delete9, Delete8
<1>15. Delete8 # <<>> /\ Head(Delete8) = "delete" /\ Tail(Delete8) = Deleted7
  BY DEF Delete8, Deleted7
<1>16. Deleted2 # <<>> /\ Head(Deleted2) = "runlock" /\ Tail(Deleted2) = Notify1
  BY DEF Deleted2, Notify1
<1>17. Deleted3 # <<>> /\ Head(Deleted3) = "snapshot" /\ Tail(Deleted3) = Deleted2
  BY DEF Deleted3, Deleted2
<1>18. Deleted4 # <<>> /\ Head(Deleted4) = "rlock" /\ Tail(Deleted4) = Deleted3
  BY DEF Deleted4, Deleted3
<1>19. Deleted5 # <<>> /\ Head(Deleted5) = "runlock" /\ Tail(Deleted5) = Deleted4
  BY DEF Deleted5, Deleted4
<1>20. Deleted6 # <<>> /\ Head(Deleted6) = "listeners" /\ Tail(Deleted6) = Deleted5
  BY DEF Deleted6, Deleted5
<1>21. Deleted7 # <<>> /\ Head(Deleted7) = "rlock" /\ Tail(Deleted7) = Deleted6
  BY DEF Deleted7, Deleted6
<1>22. Unlisten3 # <<>> /\ Head(Unlisten3) = "lock" /\ Tail(Unlisten3) = Unlisten2
  BY DEF Unlisten3, Unlisten2
<1>23. Unlisten2 # <<>> /\ Head(Unlisten2) = "unlisten" /\ Tail(Unlisten2) = Leave1
  BY DEF Unlisten2, Leave1
<1>24. Start3 # <<>> /\ Head(Start3) = "lock" /\ Tail(Start3) = Start2
  BY DEF Start3, Start2
<1>25. Start2 # <<>> /\ Head(Start2) = "start" /\ Tail(Start2) = Leave1
  BY DEF Start2, Leave1
<1>26. Clear3 # <<>> /\ Head(Clear3) = "lock" /\ Tail(Clear3) = Clear2
  BY DEF Clear3, Clear2
<1>27. Clear2 # <<>> /\ Head(Clear2) = "clear" /\ Tail(Clear2) = Leave1
  BY DEF Clear2, Leave1
<1> QED BY <1>1, <1>2, <1>3, <1>4, <1>5, <1>6, <1>7, <1>8, <1>9, <1>10, <1>11, <1>12, <1>13, <1>14, <1>15, <1>16, <1>17, <1>18, <1>19, <1>20, <1>21, <1>22, <1>23, <1>24, <1>25, <1>26, <1>27


Labels == {"lock", "unlock", "rlock", "runlock", "add", "remove", "delete", "change",
           "listeners", "snapshot", "unlisten", "start", "clear"}

\* A sequence with the elements of two, in order, is their concatenation.
LEMMA Joined ==
  ASSUME NEW S, NEW s \in Seq(S), NEW t \in Seq(S), NEW u \in Seq(S),
         Len(u) = Len(s) + Len(t),
         \A i \in 1 .. Len(s) : u[i] = s[i],
         \A i \in 1 .. Len(t) : u[Len(s) + i] = t[i]
  PROVE  s \o t = u
<1>1. s \o t \in Seq(S) /\ Len(s \o t) = Len(u)
  OBVIOUS
<1>2. ASSUME NEW i \in 1 .. Len(u) PROVE (s \o t)[i] = u[i]
  <2>1. CASE i <= Len(s)
    BY <2>1
  <2>2. CASE i > Len(s)
    <3>1. i - Len(s) \in 1 .. Len(t) /\ Len(s) + (i - Len(s)) = i
      BY <2>2
    <3>2. (s \o t)[i] = t[i - Len(s)]
      BY <2>2
    <3> QED BY <3>1, <3>2
  <2> QED BY <2>1, <2>2
<1> QED BY <1>1, <1>2, SeqEqual

\* A sequence with the elements of a part of another is that part.
LEMMA Sliced ==
  ASSUME NEW S, NEW s \in Seq(S), NEW m \in 1 .. Len(s) + 1, NEW u \in Seq(S),
         Len(u) = Len(s) + 1 - m,
         \A i \in 1 .. Len(u) : u[i] = s[m + i - 1]
  PROVE  SubSeq(s, m, Len(s)) = u
<1>1. SubSeq(s, m, Len(s)) \in Seq(S) /\ Len(SubSeq(s, m, Len(s))) = Len(u)
  OBVIOUS
<1>2. \A i \in 1 .. Len(u) : SubSeq(s, m, Len(s))[i] = u[i]
  OBVIOUS
<1> QED BY <1>1, <1>2, SeqEqual

\* What the calls are made of.
LEMMA CallsMade ==
    /\ SnapshotSteps = Notify3 /\ ChangeSteps = Change7 /\ RegisterSteps = Add9 /\ UnregisterSteps = Remove9
    /\ DeleteSteps = Delete9 /\ RemoveListenerSteps = Unlisten3 /\ InitializeSteps = Start3 /\ ShutdownSteps = Clear3
    /\ Len(NotifySteps) = 6
<1>1. SnapshotSteps = Notify3 /\ RemoveListenerSteps = Unlisten3 /\ InitializeSteps = Start3 /\ ShutdownSteps = Clear3
  BY DEF SnapshotSteps, RemoveListenerSteps, InitializeSteps, ShutdownSteps, Notify3, Unlisten3, Start3, Clear3
<1>2. NotifySteps = Notify6
  <2> DEFINE s == <<"rlock", "listeners", "runlock">>
  <2>1. s \in Seq(Labels) /\ Len(s) = 3 /\ Notify3 \in Seq(Labels) /\ Notify6 \in Seq(Labels) /\ Len(Notify6) = Len(s) + Len(Notify3)
    BY DEF Labels, Notify3, Notify6
  <2>2. \A i \in 1 .. Len(s) : Notify6[i] = s[i]
    BY DEF Notify6
  <2>3. \A i \in 1 .. Len(Notify3) : Notify6[Len(s) + i] = Notify3[i]
    BY DEF Notify3, Notify6
  <2>4. s \o Notify3 = Notify6
    BY <2>1, <2>2, <2>3, Joined
  <2> QED BY <2>4, <1>1 DEF NotifySteps
<1>3. ChangeSteps = Change7
  <2> DEFINE s == <<"change">>
  <2>1. s \in Seq(Labels) /\ Len(s) = 1 /\ Notify6 \in Seq(Labels) /\ Change7 \in Seq(Labels) /\ Len(Change7) = Len(s) + Len(Notify6)
    BY DEF Labels, Notify6, Change7
  <2>2. \A i \in 1 .. Len(s) : Change7[i] = s[i]
    BY DEF Change7
  <2>3. \A i \in 1 .. Len(Notify6) : Change7[Len(s) + i] = Notify6[i]
    BY DEF Notify6, Change7
  <2>4. s \o Notify6 = Change7
    BY <2>1, <2>2, <2>3, Joined
  <2> QED BY <2>4, <1>2 DEF ChangeSteps
<1>4. RegisterSteps = Add9
  <2> DEFINE s == <<"lock", "add", "unlock">>
  <2>1. s \in Seq(Labels) /\ Len(s) = 3 /\ Notify6 \in Seq(Labels) /\ Add9 \in Seq(Labels) /\ Len(Add9) = Len(s) + Len(Notify6)
    BY DEF Labels, Notify6, Add9
  <2>2. \A i \in 1 .. Len(s) : Add9[i] = s[i]
    BY DEF Add9
  <2>3. \A i \in 1 .. Len(Notify6) : Add9[Len(s) + i] = Notify6[i]
    BY DEF Notify6, Add9
  <2>4. s \o Notify6 = Add9
    BY <2>1, <2>2, <2>3, Joined
  <2> QED BY <2>4, <1>2 DEF RegisterSteps
<1>5. UnregisterSteps = Remove9
  <2> DEFINE s == <<"lock", "remove", "unlock">>
  <2>1. s \in Seq(Labels) /\ Len(s) = 3 /\ Notify6 \in Seq(Labels) /\ Remove9 \in Seq(Labels) /\ Len(Remove9) = Len(s) + Len(Notify6)
    BY DEF Labels, Notify6, Remove9
  <2>2. \A i \in 1 .. Len(s) : Remove9[i] = s[i]
    BY DEF Remove9
  <2>3. \A i \in 1 .. Len(Notify6) : Remove9[Len(s) + i] = Notify6[i]
    BY DEF Notify6, Remove9
  <2>4. s \o Notify6 = Remove9
    BY <2>1, <2>2, <2>3, Joined
  <2> QED BY <2>4, <1>2 DEF UnregisterSteps
<1>6. <<"rlock", "delete">> \o Notify6 = Deleting8
  <2> DEFINE s == <<"rlock", "delete">>
  <2>1. s \in Seq(Labels) /\ Notify6 \in Seq(Labels) /\ Deleting8 \in Seq(Labels) /\ Len(Deleting8) = Len(s) + Len(Notify6)
    BY DEF Labels, Notify6, Deleting8
  <2>2. \A i \in 1 .. Len(s) : Deleting8[i] = s[i]
    BY DEF Notify6, Deleting8
  <2>3. \A i \in 1 .. Len(Notify6) : Deleting8[Len(s) + i] = Notify6[i]
    BY DEF Notify6, Deleting8
  <2>4. s \o Notify6 = Deleting8
    BY <2>1, <2>2, <2>3, Joined
  <2> QED BY <2>4, Zenon
<1>7. DeleteSteps = Delete9
  <2> DEFINE s == Deleting8
  <2> DEFINE t == <<"runlock">>
  <2>1. s \in Seq(Labels) /\ t \in Seq(Labels) /\ Delete9 \in Seq(Labels) /\ Len(Delete9) = Len(s) + Len(t)
    BY DEF Labels, Deleting8, Delete9
  <2>2. \A i \in 1 .. Len(s) : Delete9[i] = s[i]
    BY DEF Deleting8, Delete9
  <2>3. \A i \in 1 .. Len(t) : Delete9[Len(s) + i] = t[i]
    BY DEF Deleting8, Delete9
  <2>4. s \o t = Delete9
    BY <2>1, <2>2, <2>3, Joined
  <2> QED BY <2>4, <1>2, <1>6 DEF DeleteSteps
<1>8. Len(NotifySteps) = 6
  BY <1>2 DEF Notify6
<1> QED BY <1>1, <1>3, <1>4, <1>5, <1>7, <1>8

\* What is left when a notification is skipped.
LEMMA StepsSkipped ==
    /\ <<"unlock">> = Leave1
    /\ SubSeq(Delete8, 1 + Len(NotifySteps) + 1, Len(Delete8)) = Notify1
    /\ <<"runlock">> \o SubSeq(Notify5, 6, Len(Notify5)) = Notify1
    /\ <<"runlock">> \o SubSeq(Deleted6, 6, Len(Deleted6)) = Deleted2
<1>1. <<"unlock">> = Leave1
  BY DEF Leave1
<1>2. SubSeq(Delete8, 8, Len(Delete8)) = Notify1
  <2>1. Delete8 \in Seq(Labels) /\ Notify1 \in Seq(Labels) /\ 8 \in 1 .. Len(Delete8) + 1 /\ Len(Notify1) = Len(Delete8) + 1 - 8
    BY DEF Labels, Delete8, Notify1
  <2>2. \A i \in 1 .. Len(Notify1) : Notify1[i] = Delete8[8 + i - 1]
    BY DEF Delete8, Notify1
  <2> QED BY <2>1, <2>2, Sliced
<1>3. SubSeq(Notify5, 6, Len(Notify5)) = <<>>
  <2>1. Notify5 \in Seq(Labels) /\ <<>> \in Seq(Labels) /\ 6 \in 1 .. Len(Notify5) + 1 /\ Len(<<>>) = Len(Notify5) + 1 - 6
    BY DEF Labels, Notify5
  <2>2. \A i \in 1 .. Len(<<>>) : <<>>[i] = Notify5[6 + i - 1]
    BY DEF Notify5
  <2> QED BY <2>1, <2>2, Sliced
<1>4. SubSeq(Deleted6, 6, Len(Deleted6)) = Notify1
  <2>1. Deleted6 \in Seq(Labels) /\ Notify1 \in Seq(Labels) /\ 6 \in 1 .. Len(Deleted6) + 1 /\ Len(Notify1) = Len(Deleted6) + 1 - 6
    BY DEF Labels, Deleted6, Notify1
  <2>2. \A i \in 1 .. Len(Notify1) : Notify1[i] = Deleted6[6 + i - 1]
    BY DEF Deleted6, Notify1
  <2> QED BY <2>1, <2>2, Sliced
<1>5. <<"runlock">> \o <<>> = Notify1
  BY DEF Notify1
<1>6. <<"runlock">> \o Notify1 = Deleted2
  <2> DEFINE s == <<"runlock">>
  <2>1. s \in Seq(Labels) /\ Notify1 \in Seq(Labels) /\ Deleted2 \in Seq(Labels) /\ Len(Deleted2) = Len(s) + Len(Notify1)
    BY DEF Labels, Notify1, Deleted2
  <2>2. \A i \in 1 .. Len(s) : Deleted2[i] = s[i]
    BY DEF Notify1, Deleted2
  <2>3. \A i \in 1 .. Len(Notify1) : Deleted2[Len(s) + i] = Notify1[i]
    BY DEF Notify1, Deleted2
  <2>4. s \o Notify1 = Deleted2
    BY <2>1, <2>2, <2>3, Joined
  <2> QED BY <2>4, Zenon
<1>7. 1 + Len(NotifySteps) + 1 = 8
  BY CallsMade
<1> QED BY <1>1, <1>2, <1>3, <1>4, <1>5, <1>6, <1>7

\* The calls by the locks they hold: none, the read lock once, twice (a
\* deletion that notifies), the lock itself.
Unlocked == {<<>>, Notify3, Notify6, Change7, Delete9, Add9, Remove9, Unlisten3, Start3, Clear3}
Reading == {Notify1, Notify2, Notify4, Notify5, Delete8, Deleted7, Deleted4}
Nested  == {Deleted2, Deleted3, Deleted5, Deleted6}
Writing == {Add8, Add7, Remove8, Leave1, Unlisten2, Start2, Clear2}
Tails   == Unlocked \union Reading \union Nested \union Writing

\* the calls that will take a snapshot if the broker still listens
Pending == {Notify6, Notify5, Notify4, Notify3, Notify2, Add7,
            Deleted7, Deleted6, Deleted5, Deleted4, Deleted3}

\* What a call that holds nothing does next.
LEMMA UnlockedSteps ==
  ASSUME NEW c \in Unlocked, c # <<>>
  PROVE  \/ Head(c) = "rlock" /\ Tail(c) \in Reading
         \/ Head(c) = "lock" /\ Tail(c) \in Writing
         \/ Head(c) = "change" /\ Tail(c) = Notify6
<1>1. CASE c = Notify3
  BY <1>1, StepsLeft DEF Reading, Writing
<1>2. CASE c = Notify6
  BY <1>2, StepsLeft DEF Reading, Writing
<1>3. CASE c = Change7
  BY <1>3, StepsLeft DEF Reading, Writing
<1>4. CASE c = Delete9
  BY <1>4, StepsLeft DEF Reading, Writing
<1>5. CASE c = Add9
  BY <1>5, StepsLeft DEF Reading, Writing
<1>6. CASE c = Remove9
  BY <1>6, StepsLeft DEF Reading, Writing
<1>7. CASE c = Unlisten3
  BY <1>7, StepsLeft DEF Reading, Writing
<1>8. CASE c = Start3
  BY <1>8, StepsLeft DEF Reading, Writing
<1>9. CASE c = Clear3
  BY <1>9, StepsLeft DEF Reading, Writing
<1> QED BY <1>1, <1>2, <1>3, <1>4, <1>5, <1>6, <1>7, <1>8, <1>9 DEF Unlocked

\* What a call that holds the read lock does next.
LEMMA ReadingSteps ==
  ASSUME NEW c \in Reading
  PROVE  /\ c # <<>>
         /\ \/ Head(c) = "runlock" /\ Tail(c) \in Unlocked
            \/ Head(c) = "rlock" /\ c \in {Deleted7, Deleted4} /\ Tail(c) \in Nested
            \/ Head(c) = "snapshot" /\ Tail(c) \in Reading
            \/ Head(c) = "listeners" /\ c = Notify5 /\ Tail(c) \in Reading
            \/ Head(c) = "delete" /\ c = Delete8 /\ Tail(c) = Deleted7
<1>1. CASE c = Notify1
  BY <1>1, StepsLeft DEF Unlocked, Reading, Nested
<1>2. CASE c = Notify2
  BY <1>2, StepsLeft DEF Unlocked, Reading, Nested
<1>3. CASE c = Notify4
  BY <1>3, StepsLeft DEF Unlocked, Reading, Nested
<1>4. CASE c = Notify5
  BY <1>4, StepsLeft DEF Unlocked, Reading, Nested
<1>5. CASE c = Delete8
  BY <1>5, StepsLeft DEF Unlocked, Reading, Nested
<1>6. CASE c = Deleted7
  BY <1>6, StepsLeft DEF Unlocked, Reading, Nested
<1>7. CASE c = Deleted4
  BY <1>7, StepsLeft DEF Unlocked, Reading, Nested
<1> QED BY <1>1, <1>2, <1>3, <1>4, <1>5, <1>6, <1>7 DEF Reading

\* What a deletion that holds the read lock twice does next.
LEMMA NestedSteps ==
  ASSUME NEW c \in Nested
  PROVE  /\ c # <<>>
         /\ \/ Head(c) = "runlock" /\ Tail(c) \in Reading
            \/ Head(c) = "snapshot" /\ Tail(c) \in Nested
            \/ Head(c) = "listeners" /\ c = Deleted6 /\ Tail(c) \in Nested
<1>1. CASE c = Deleted2
  BY <1>1, StepsLeft DEF Reading, Nested
<1>2. CASE c = Deleted3
  BY <1>2, StepsLeft DEF Reading, Nested
<1>3. CASE c = Deleted5
  BY <1>3, StepsLeft DEF Reading, Nested
<1>4. CASE c = Deleted6
  BY <1>4, StepsLeft DEF Reading, Nested
<1> QED BY <1>1, <1>2, <1>3, <1>4 DEF Nested

\* What a call that holds the lock does next.
LEMMA WritingSteps ==
  ASSUME NEW c \in Writing
  PROVE  /\ c # <<>>
         /\ \/ Head(c) = "unlock" /\ Tail(c) \in Unlocked
            \/ Head(c) \in {"add", "remove"} /\ Tail(c) = Add7
            \/ Head(c) \in {"unlisten", "start", "clear"} /\ Tail(c) \in Writing
<1>1. CASE c = Add8
  BY <1>1, StepsLeft DEF Writing, Unlocked
<1>2. CASE c = Add7
  BY <1>2, StepsLeft DEF Writing, Unlocked
<1>3. CASE c = Remove8
  BY <1>3, StepsLeft DEF Writing, Unlocked
<1>4. CASE c = Leave1
  BY <1>4, StepsLeft DEF Writing, Unlocked
<1>5. CASE c = Unlisten2
  BY <1>5, StepsLeft DEF Writing, Unlocked
<1>6. CASE c = Start2
  BY <1>6, StepsLeft DEF Writing, Unlocked
<1>7. CASE c = Clear2
  BY <1>7, StepsLeft DEF Writing, Unlocked
<1> QED BY <1>1, <1>2, <1>3, <1>4, <1>5, <1>6, <1>7 DEF Writing

\* A call that will take a snapshot stays one until it takes it.
LEMMA PendingSteps ==
  ASSUME NEW c \in Pending
  PROVE  /\ c # <<>>
         /\ Head(c) = "snapshot" \/ Tail(c) \in Pending
         /\ Head(c) \notin {"delete", "remove", "change"}
<1>1. CASE c = Notify6
  BY <1>1, StepsLeft DEF Pending
<1>2. CASE c = Notify5
  BY <1>2, StepsLeft DEF Pending
<1>3. CASE c = Notify4
  BY <1>3, StepsLeft DEF Pending
<1>4. CASE c = Notify3
  BY <1>4, StepsLeft DEF Pending
<1>5. CASE c = Notify2
  BY <1>5, StepsLeft DEF Pending
<1>6. CASE c = Add7
  BY <1>6, StepsLeft DEF Pending
<1>7. CASE c = Deleted7
  BY <1>7, StepsLeft DEF Pending
<1>8. CASE c = Deleted6
  BY <1>8, StepsLeft DEF Pending
<1>9. CASE c = Deleted5
  BY <1>9, StepsLeft DEF Pending
<1>10. CASE c = Deleted4
  BY <1>10, StepsLeft DEF Pending
<1>11. CASE c = Deleted3
  BY <1>11, StepsLeft DEF Pending
<1> QED BY <1>1, <1>2, <1>3, <1>4, <1>5, <1>6, <1>7, <1>8, <1>9, <1>10, <1>11 DEF Pending

\* the locks an actor holds are those its call says
Entry(a) ==
    \/ call[a] \in Unlocked /\ readers[a] = 0
    \/ call[a] \in Reading /\ readers[a] = 1
    \/ call[a] \in Nested /\ readers[a] = 2
    \/ call[a] \in Writing /\ readers[a] = 0 /\ exclusive = TRUE /\ writer = a

HubData ==
    /\ caches \subseteq Caches /\ started \in BOOLEAN /\ heard \in BOOLEAN
    /\ version \in Nat /\ shown \in 0 .. version /\ calls \in 0 .. MaxCalls
    /\ arg \in [Actors -> Caches]

HubLock ==
    /\ readers \in [Actors -> 0 .. 2] /\ call \in [Actors -> Tails]
    /\ writer \in Actors \union {None} /\ exclusive \in BOOLEAN
    /\ exclusive = TRUE => writer # None /\ \A a \in Actors : readers[a] = 0
    /\ \A a \in Actors : Entry(a)

ChangePending == heard = TRUE /\ shown # version => \E a \in Actors : call[a] \in Pending

HubInv == HubData /\ HubLock /\ ChangePending

\* The invariant holds at the start.
LEMMA HubInitial == HubInit => HubInv
<1> SUFFICES ASSUME HubInit PROVE HubInv
  OBVIOUS
<1>1. HubData
  <2>1. calls \in 0 .. MaxCalls
    BY HubAssumption DEF HubInit
  <2>2. version \in Nat /\ shown \in 0 .. version
    BY DEF HubInit
  <2> QED BY <2>1, <2>2 DEF HubInit, HubData
<1>2. HubLock
  <2>1. readers \in [Actors -> 0 .. 2]
    BY DEF HubInit
  <2>2. call \in [Actors -> Tails]
    BY DEF HubInit, Tails, Unlocked
  <2>3. \A a \in Actors : call[a] \in Unlocked /\ readers[a] = 0
    BY DEF HubInit, Unlocked
  <2>4. writer \in Actors \union {None} /\ exclusive \in BOOLEAN /\ exclusive # TRUE
    BY DEF HubInit
  <2> QED BY <2>1, <2>2, <2>3, <2>4 DEF HubLock, Entry
<1>3. ChangePending
  BY DEF HubInit, ChangePending
<1> QED BY <1>1, <1>2, <1>3 DEF HubInv

\* The invariant is what the run checks of it.
LEMMA HubInvSafe == HubInv => HubTypeOK /\ LastChangeShown
<1> SUFFICES ASSUME HubInv PROVE HubTypeOK /\ LastChangeShown
  OBVIOUS
<1>1. ASSUME NEW a \in Actors, call[a] = <<>> PROVE readers[a] = 0
  BY <1>1, ReadingSteps, NestedSteps DEF HubInv, HubLock, Entry
<1>2. HubTypeOK
  BY <1>1 DEF HubInv, HubData, HubLock, HubTypeOK
<1>3. LastChangeShown
  BY PendingSteps DEF HubInv, HubData, ChangePending, LastChangeShown
<1> QED BY <1>2, <1>3

\* A step of one actor that keeps the locks it holds.
LEMMA LockKept ==
  ASSUME HubLock, NEW a \in Actors, NEW c,
         call' = [call EXCEPT ![a] = c], LockUnchanged,
         \/ call[a] \in Unlocked /\ c \in Unlocked /\ readers[a] = 0
         \/ call[a] \in Reading /\ c \in Reading /\ readers[a] = 1
         \/ call[a] \in Nested /\ c \in Nested /\ readers[a] = 2
         \/ call[a] \in Writing /\ c \in Writing /\ readers[a] = 0 /\ exclusive = TRUE /\ writer = a
  PROVE  HubLock'
<1>1. call' \in [Actors -> Tails] /\ call'[a] = c /\ \A b \in Actors \ {a} : call'[b] = call[b]
  BY DEF HubLock, Tails
<1>2. \A b \in Actors : Entry(b)'
  <2> SUFFICES ASSUME NEW b \in Actors PROVE Entry(b)'
    OBVIOUS
  <2>1. CASE b = a
    BY <2>1, <1>1 DEF HubLock, Entry, LockUnchanged
  <2>2. CASE b # a
    BY <2>2, <1>1 DEF HubLock, Entry, LockUnchanged
  <2> QED BY <2>1, <2>2
<1> QED BY <1>1, <1>2 DEF HubLock, LockUnchanged

\* A step that changes nothing of the registry leaves a pending snapshot pending.
LEMMA PendingKept ==
  ASSUME HubLock, ChangePending, NEW a \in Actors, NEW c,
         call' = [call EXCEPT ![a] = c],
         version' = version, shown' = shown, heard' = heard,
         call[a] \in Pending => c \in Pending
  PROVE  ChangePending'
<1>1. call'[a] = c /\ \A b \in Actors \ {a} : call'[b] = call[b]
  BY DEF HubLock
<1> QED BY <1>1 DEF ChangePending

\* A step that adds a change makes it pending.
LEMMA PendingMade ==
  ASSUME HubLock, NEW a \in Actors, NEW c \in Pending, call' = [call EXCEPT ![a] = c]
  PROVE  ChangePending'
<1>1. call'[a] = c
  BY DEF HubLock
<1> QED BY <1>1 DEF ChangePending

\* A call that begins keeps the invariant.
LEMMA CallKeeps ==
  ASSUME HubInv, NEW a \in Actors, NEW c \in Unlocked, NEW x \in Caches, Call(a, c, x)
  PROVE  HubInv'
<1>1. HubData'
  BY HubAssumption DEF HubInv, HubData, Call
<1>2. HubLock'
  <2>1. call[a] \in Unlocked /\ readers[a] = 0
    BY ReadingSteps, NestedSteps, WritingSteps DEF HubInv, HubLock, Entry, Call
  <2> QED BY <2>1, LockKept DEF HubInv, Call, LockUnchanged
<1>3. ChangePending'
  <2>1. call[a] \notin Pending
    BY PendingSteps DEF Call
  <2> QED BY <2>1, PendingKept DEF HubInv, Call
<1> QED BY <1>1, <1>2, <1>3 DEF HubInv

\* So does each of the calls of the subsystem.
LEMMA CallsKeep ==
  ASSUME HubInv, NEW a \in Actors, Calls(a)
  PROVE  HubInv'
<1>1. PICK x \in Caches : \E c \in {ChangeSteps, RegisterSteps, UnregisterSteps, DeleteSteps, SnapshotSteps,
                             RemoveListenerSteps, InitializeSteps, ShutdownSteps} : Call(a, c, x)
  BY DEF Calls
<1>2. PICK c \in Unlocked : Call(a, c, x)
  BY <1>1, CallsMade DEF Unlocked
<1> QED BY <1>2, CallKeeps

\* Where an actor is that has a step to take.
LEMMA StepFrom ==
  ASSUME HubLock, NEW a \in Actors, call[a] # <<>>
  PROVE  \/ /\ call[a] \in Unlocked /\ readers[a] = 0
            /\ \/ Head(call[a]) = "rlock" /\ Tail(call[a]) \in Reading
               \/ Head(call[a]) = "lock" /\ Tail(call[a]) \in Writing
               \/ Head(call[a]) = "change" /\ Tail(call[a]) = Notify6
         \/ /\ call[a] \in Reading /\ readers[a] = 1
            /\ \/ Head(call[a]) = "runlock" /\ Tail(call[a]) \in Unlocked
               \/ Head(call[a]) = "rlock" /\ call[a] \in {Deleted7, Deleted4} /\ Tail(call[a]) \in Nested
               \/ Head(call[a]) = "snapshot" /\ Tail(call[a]) \in Reading
               \/ Head(call[a]) = "listeners" /\ call[a] = Notify5 /\ Tail(call[a]) \in Reading
               \/ Head(call[a]) = "delete" /\ call[a] = Delete8 /\ Tail(call[a]) = Deleted7
         \/ /\ call[a] \in Nested /\ readers[a] = 2
            /\ \/ Head(call[a]) = "runlock" /\ Tail(call[a]) \in Reading
               \/ Head(call[a]) = "snapshot" /\ Tail(call[a]) \in Nested
               \/ Head(call[a]) = "listeners" /\ call[a] = Deleted6 /\ Tail(call[a]) \in Nested
         \/ /\ call[a] \in Writing /\ readers[a] = 0 /\ exclusive = TRUE /\ writer = a
            /\ \/ Head(call[a]) = "unlock" /\ Tail(call[a]) \in Unlocked
               \/ Head(call[a]) \in {"add", "remove"} /\ Tail(call[a]) = Add7
               \/ Head(call[a]) \in {"unlisten", "start", "clear"} /\ Tail(call[a]) \in Writing
<1>1. Entry(a)
  BY DEF HubLock
<1>2. CASE call[a] \in Unlocked /\ readers[a] = 0
  BY <1>2, UnlockedSteps
<1>3. CASE call[a] \in Reading /\ readers[a] = 1
  BY <1>3, ReadingSteps
<1>4. CASE call[a] \in Nested /\ readers[a] = 2
  BY <1>4, NestedSteps
<1>5. CASE call[a] \in Writing /\ readers[a] = 0 /\ exclusive = TRUE /\ writer = a
  BY <1>5, WritingSteps
<1> QED BY <1>1, <1>2, <1>3, <1>4, <1>5 DEF Entry

\* A step of a call that will take a snapshot leaves it one, or takes it.
LEMMA PendingProceeds ==
  ASSUME HubInv, NEW a \in Actors, NEW l, At(a, l), l # "snapshot", Proceed(a),
         version' = version, shown' = shown, heard' = heard
  PROVE  ChangePending'
<1>1. call' = [call EXCEPT ![a] = Tail(call[a])]
  BY DEF Proceed
<1>2. call[a] \in Pending => Tail(call[a]) \in Pending
  BY PendingSteps DEF At
<1> QED BY <1>1, <1>2, PendingKept DEF HubInv

\* A read lock is taken only when nobody has the lock.
LEMMA RLockKeeps ==
  ASSUME HubInv, NEW a \in Actors, RLock(a)
  PROVE  HubInv'
<1> DEFINE c == Tail(call[a])
<1>1. HubData'
  BY DEF HubInv, HubData, RLock, Proceed, DataUnchanged
<1>2. HubLock'
  <2>1. \/ call[a] \in Unlocked /\ readers[a] = 0 /\ c \in Reading
        \/ call[a] \in Reading /\ readers[a] = 1 /\ c \in Nested
    BY StepFrom DEF HubInv, RLock, At
  <2>2. exclusive # TRUE /\ exclusive' = exclusive /\ writer' = writer
    BY DEF HubInv, HubLock, RLock
  <2> HIDE DEF c
  <2>3. call' = [call EXCEPT ![a] = c] /\ readers' = [readers EXCEPT ![a] = @ + 1]
    BY DEF RLock, Proceed, c
  <2>4. call' \in [Actors -> Tails] /\ readers' \in [Actors -> 0 .. 2]
    BY <2>1, <2>3 DEF HubInv, HubLock, Tails
  <2>5. ASSUME NEW b \in Actors PROVE Entry(b)'
    <3>1. CASE b = a
      BY <3>1, <2>1, <2>3 DEF HubInv, HubLock, Entry
    <3>2. CASE b # a
      BY <3>2, <2>2, <2>3 DEF HubInv, HubLock, Entry
    <3> QED BY <3>1, <3>2
  <2> QED BY <2>2, <2>4, <2>5 DEF HubInv, HubLock
<1>3. ChangePending'
  BY PendingProceeds DEF RLock, DataUnchanged
<1> QED BY <1>1, <1>2, <1>3 DEF HubInv

\* A read lock is given back.
LEMMA RUnlockKeeps ==
  ASSUME HubInv, NEW a \in Actors, RUnlock(a)
  PROVE  HubInv'
<1> DEFINE c == Tail(call[a])
<1>1. HubData'
  BY DEF HubInv, HubData, RUnlock, Proceed, DataUnchanged
<1>2. HubLock'
  <2>1. \/ call[a] \in Reading /\ readers[a] = 1 /\ c \in Unlocked
        \/ call[a] \in Nested /\ readers[a] = 2 /\ c \in Reading
    BY StepFrom DEF HubInv, RUnlock, At
  <2>2. readers[a] # 0 /\ exclusive' = exclusive /\ writer' = writer
    BY <2>1 DEF RUnlock
  <2> HIDE DEF c
  <2>3. call' = [call EXCEPT ![a] = c] /\ readers' = [readers EXCEPT ![a] = @ - 1]
    BY DEF RUnlock, Proceed, c
  <2>4. call' \in [Actors -> Tails] /\ readers' \in [Actors -> 0 .. 2]
    BY <2>1, <2>3 DEF HubInv, HubLock, Tails
  <2>5. ASSUME NEW b \in Actors PROVE Entry(b)'
    <3>1. CASE b = a
      BY <3>1, <2>1, <2>3 DEF HubInv, HubLock, Entry
    <3>2. CASE b # a
      BY <3>2, <2>2, <2>3 DEF HubInv, HubLock, Entry
    <3> QED BY <3>1, <3>2
  <2>6. exclusive' # TRUE
    BY <2>2 DEF HubInv, HubLock
  <2> QED BY <2>2, <2>4, <2>5, <2>6 DEF HubInv, HubLock
<1>3. ChangePending'
  BY PendingProceeds DEF RUnlock, DataUnchanged
<1> QED BY <1>1, <1>2, <1>3 DEF HubInv

\* The lock is announced, then taken when nobody reads.
LEMMA LockKeeps ==
  ASSUME HubInv, NEW a \in Actors, Lock(a)
  PROVE  HubInv'
<1> DEFINE c == Tail(call[a])
<1>1. HubData'
  BY DEF HubInv, HubData, Lock, Proceed, DataUnchanged
<1>2. CASE writer = None /\ writer' = a /\ UNCHANGED <<readers, exclusive, call>>
  <2>1. exclusive # TRUE /\ \A b \in Actors : Entry(b)'
    BY <1>2 DEF HubInv, HubLock, Entry
  <2>2. HubLock'
    BY <1>2, <2>1 DEF HubInv, HubLock
  <2>3. ChangePending'
    BY <1>2 DEF HubInv, ChangePending, Lock, DataUnchanged
  <2> QED BY <1>1, <2>2, <2>3 DEF HubInv
<1>3. CASE /\ At(a, "lock") /\ writer = a /\ (\A b \in Actors : readers[b] = 0)
           /\ exclusive' = TRUE /\ Proceed(a) /\ DataUnchanged /\ UNCHANGED <<readers, writer>>
  <2>1. c \in Writing /\ readers[a] = 0
    BY <1>3, StepFrom DEF HubInv, At
  <2>2. ChangePending'
    BY <1>3, PendingProceeds DEF DataUnchanged
  <2> HIDE DEF c
  <2>3. call' = [call EXCEPT ![a] = c]
    BY <1>3 DEF Proceed, c
  <2>4. call' \in [Actors -> Tails] /\ call'[a] = c /\ \A b \in Actors \ {a} : call'[b] = call[b]
    BY <2>1, <2>3 DEF HubInv, HubLock, Tails
  <2>5. ASSUME NEW b \in Actors PROVE Entry(b)'
    <3>1. CASE b = a
      BY <3>1, <1>3, <2>1, <2>4 DEF Entry
    <3>2. CASE b # a
      BY <3>2, <1>3, <2>4 DEF HubInv, HubLock, Entry
    <3> QED BY <3>1, <3>2
  <2>6. a # None
    BY HubAssumption
  <2>7. HubLock'
    BY <1>3, <2>4, <2>5, <2>6 DEF HubInv, HubLock
  <2> QED BY <1>1, <2>2, <2>7 DEF HubInv
<1> QED BY <1>2, <1>3 DEF Lock

\* The lock is given back.
LEMMA UnlockKeeps ==
  ASSUME HubInv, NEW a \in Actors, Unlock(a)
  PROVE  HubInv'
<1> DEFINE c == Tail(call[a])
<1>1. HubData'
  BY DEF HubInv, HubData, Unlock, Proceed, DataUnchanged
<1>2. HubLock'
  <2>1. c \in Unlocked /\ readers[a] = 0 /\ writer = a
    BY StepFrom DEF HubInv, Unlock, At
  <2> HIDE DEF c
  <2>2. call' = [call EXCEPT ![a] = c]
    BY DEF Unlock, Proceed, c
  <2>3. call' \in [Actors -> Tails] /\ call'[a] = c /\ \A b \in Actors \ {a} : call'[b] = call[b]
    BY <2>1, <2>2 DEF HubInv, HubLock, Tails
  <2>4. ASSUME NEW b \in Actors PROVE Entry(b)'
    <3>1. CASE b = a
      BY <3>1, <2>1, <2>3 DEF Entry, Unlock
    <3>2. CASE b # a
      BY <3>2, <2>1, <2>3 DEF HubInv, HubLock, Entry, Unlock
    <3> QED BY <3>1, <3>2
  <2> QED BY <2>3, <2>4 DEF HubInv, HubLock, Unlock
<1>3. ChangePending'
  BY PendingProceeds DEF Unlock, DataUnchanged
<1> QED BY <1>1, <1>2, <1>3 DEF HubInv

\* A cache changes and will be announced.
LEMMA ChangeKeeps ==
  ASSUME HubInv, NEW a \in Actors, Change(a)
  PROVE  HubInv'
<1>1. HubData'
  BY DEF HubInv, HubData, Change, Proceed
<1>2. call[a] \in Unlocked /\ readers[a] = 0 /\ Tail(call[a]) = Notify6
  BY StepFrom DEF HubInv, Change, At
<1>3. call' = [call EXCEPT ![a] = Notify6] /\ LockUnchanged
  BY <1>2 DEF Change, Proceed
<1>4. Notify6 \in Unlocked /\ Notify6 \in Pending
  BY DEF Unlocked, Pending
<1>5. HubLock'
  BY <1>2, <1>3, <1>4, LockKept DEF HubInv
<1>6. ChangePending'
  BY <1>3, <1>4, PendingMade DEF HubInv
<1> QED BY <1>1, <1>5, <1>6 DEF HubInv

\* A cache joins the registry and will be announced.
LEMMA RegisterCacheKeeps ==
  ASSUME HubInv, NEW a \in Actors, RegisterCache(a)
  PROVE  HubInv'
<1>1. HubData'
  BY DEF HubInv, HubData, RegisterCache, Proceed
<1>2. call[a] \in Writing /\ readers[a] = 0 /\ exclusive = TRUE /\ writer = a /\ Tail(call[a]) = Add7
  BY StepFrom DEF HubInv, RegisterCache, At
<1>3. call' = [call EXCEPT ![a] = Add7] /\ LockUnchanged
  BY <1>2 DEF RegisterCache, Proceed
<1>4. Add7 \in Writing /\ Add7 \in Pending
  BY DEF Writing, Pending
<1>5. HubLock'
  BY <1>2, <1>3, <1>4, LockKept DEF HubInv
<1>6. ChangePending'
  BY <1>3, <1>4, PendingMade DEF HubInv
<1> QED BY <1>1, <1>5, <1>6 DEF HubInv

\* A cache leaves the registry and will be announced; an unknown one does not.
LEMMA UnregisterKeeps ==
  ASSUME HubInv, NEW a \in Actors, Unregister(a)
  PROVE  HubInv'
<1>1. HubData'
  BY DEF HubInv, HubData, Unregister, Proceed
<1>2. call[a] \in Writing /\ readers[a] = 0 /\ exclusive = TRUE /\ writer = a /\ Tail(call[a]) = Add7
  BY StepFrom DEF HubInv, Unregister, At
<1>3. LockUnchanged /\ Add7 \in Writing /\ Add7 \in Pending /\ Leave1 \in Writing
  BY DEF Unregister, Writing, Pending
<1>4. CASE arg[a] \in caches
  <2>1. call' = [call EXCEPT ![a] = Add7]
    BY <1>2, <1>4 DEF Unregister, Proceed
  <2>2. HubLock'
    BY <1>2, <1>3, <2>1, LockKept DEF HubInv
  <2>3. ChangePending'
    BY <1>3, <2>1, PendingMade DEF HubInv
  <2> QED BY <1>1, <2>2, <2>3 DEF HubInv
<1>5. CASE arg[a] \notin caches
  <2>1. call' = [call EXCEPT ![a] = Leave1] /\ version' = version /\ shown' = shown /\ heard' = heard
    BY <1>5, StepsSkipped DEF Unregister
  <2>2. HubLock'
    BY <1>2, <1>3, <2>1, LockKept DEF HubInv
  <2>3. call[a] \notin Pending
    BY PendingSteps DEF Unregister, At
  <2>4. ChangePending'
    BY <2>1, <2>3, PendingKept DEF HubInv
  <2> QED BY <1>1, <2>2, <2>4 DEF HubInv
<1> QED BY <1>4, <1>5

\* An entry is deleted and will be announced; an unknown one is not.
LEMMA DeleteKeeps ==
  ASSUME HubInv, NEW a \in Actors, DeleteEntryFromCache(a)
  PROVE  HubInv'
<1>1. HubData'
  BY DEF HubInv, HubData, DeleteEntryFromCache, Proceed, SkipNotify
<1>2. call[a] = Delete8 /\ call[a] \in Reading /\ readers[a] = 1 /\ Tail(call[a]) = Deleted7
  BY StepFrom DEF HubInv, DeleteEntryFromCache, At
<1>3. LockUnchanged /\ Deleted7 \in Reading /\ Deleted7 \in Pending /\ Notify1 \in Reading
  BY DEF DeleteEntryFromCache, Reading, Pending
<1>4. CASE Proceed(a)
  <2>1. call' = [call EXCEPT ![a] = Deleted7]
    BY <1>2, <1>4 DEF Proceed
  <2>2. HubLock'
    BY <1>2, <1>3, <2>1, LockKept DEF HubInv
  <2>3. ChangePending'
    BY <1>3, <2>1, PendingMade DEF HubInv
  <2> QED BY <1>1, <2>2, <2>3 DEF HubInv
<1>5. CASE SkipNotify(a, 1 + Len(NotifySteps)) /\ UNCHANGED version
  <2>1. call' = [call EXCEPT ![a] = Notify1] /\ version' = version /\ shown' = shown /\ heard' = heard
    <3>1. call' = [call EXCEPT ![a] = SubSeq(call[a], 1 + Len(NotifySteps) + 1, Len(call[a]))]
      BY <1>5 DEF SkipNotify
    <3>2. SubSeq(call[a], 1 + Len(NotifySteps) + 1, Len(call[a])) = Notify1
      BY <1>2, StepsSkipped
    <3> QED BY <1>5, <3>1, <3>2 DEF DeleteEntryFromCache
  <2>2. HubLock'
    BY <1>2, <1>3, <2>1, LockKept DEF HubInv
  <2>3. call[a] \notin Pending
    BY PendingSteps DEF DeleteEntryFromCache, At
  <2>4. ChangePending'
    BY <2>1, <2>3, PendingKept DEF HubInv
  <2> QED BY <1>1, <2>2, <2>4 DEF HubInv
<1> QED BY <1>4, <1>5 DEF DeleteEntryFromCache

\* The listeners are copied; without the broker's the snapshot is dropped.
LEMMA CopyListenersKeeps ==
  ASSUME HubInv, NEW a \in Actors, CopyListeners(a)
  PROVE  HubInv'
<1>1. HubData'
  BY DEF HubInv, HubData, CopyListeners, Proceed, DataUnchanged
<1>2. \/ call[a] = Notify5 /\ call[a] \in Reading /\ readers[a] = 1 /\ Tail(call[a]) \in Reading
      \/ call[a] = Deleted6 /\ call[a] \in Nested /\ readers[a] = 2 /\ Tail(call[a]) \in Nested
  BY StepFrom DEF HubInv, CopyListeners, At
<1>3. LockUnchanged /\ version' = version /\ shown' = shown /\ heard' = heard
  BY DEF CopyListeners, DataUnchanged
<1>4. CASE heard
  <2>1. Proceed(a) /\ call' = [call EXCEPT ![a] = Tail(call[a])]
    BY <1>4 DEF CopyListeners, Proceed
  <2>2. HubLock'
    BY <1>2, <1>3, <2>1, LockKept DEF HubInv
  <2>3. ChangePending'
    BY <1>3, <2>1, PendingProceeds DEF CopyListeners
  <2> QED BY <1>1, <2>2, <2>3 DEF HubInv
<1>5. CASE ~heard
  <2>1. call' = [call EXCEPT ![a] = <<"runlock">> \o SubSeq(call[a], 6, Len(call[a]))]
    BY <1>5 DEF CopyListeners
  <2>2. ChangePending'
    BY <1>3, <1>5 DEF ChangePending
  <2>3. Notify1 \in Reading /\ Deleted2 \in Nested
    BY DEF Reading, Nested
  <2>4. CASE call[a] = Notify5 /\ call[a] \in Reading /\ readers[a] = 1
    <3>1. call' = [call EXCEPT ![a] = Notify1]
      BY <2>1, <2>4, StepsSkipped
    <3>2. HubLock'
      BY <1>3, <2>3, <2>4, <3>1, LockKept DEF HubInv
    <3> QED BY <1>1, <2>2, <3>2 DEF HubInv
  <2>5. CASE call[a] = Deleted6 /\ call[a] \in Nested /\ readers[a] = 2
    <3>1. call' = [call EXCEPT ![a] = Deleted2]
      BY <2>1, <2>5, StepsSkipped
    <3>2. HubLock'
      BY <1>3, <2>3, <2>5, <3>1, LockKept DEF HubInv
    <3> QED BY <1>1, <2>2, <3>2 DEF HubInv
  <2> QED BY <1>2, <2>4, <2>5
<1> QED BY <1>4, <1>5

\* A snapshot shows the last change.
LEMMA SnapshotsKeeps ==
  ASSUME HubInv, NEW a \in Actors, Snapshots(a)
  PROVE  HubInv'
<1>1. HubData'
  BY DEF HubInv, HubData, Snapshots, Proceed
<1>2. \/ call[a] \in Reading /\ readers[a] = 1 /\ Tail(call[a]) \in Reading
      \/ call[a] \in Nested /\ readers[a] = 2 /\ Tail(call[a]) \in Nested
  BY StepFrom DEF HubInv, Snapshots, At
<1>3. call' = [call EXCEPT ![a] = Tail(call[a])] /\ LockUnchanged
  BY DEF Snapshots, Proceed
<1>4. HubLock'
  BY <1>2, <1>3, LockKept DEF HubInv
<1>5. ChangePending'
  BY DEF Snapshots, ChangePending
<1> QED BY <1>1, <1>4, <1>5 DEF HubInv

\* The broker stops listening.
LEMMA UnlistenKeeps ==
  ASSUME HubInv, NEW a \in Actors, Unlisten(a)
  PROVE  HubInv'
<1>1. HubData'
  BY DEF HubInv, HubData, Unlisten, Proceed
<1>2. call[a] \in Writing /\ readers[a] = 0 /\ exclusive = TRUE /\ writer = a /\ Tail(call[a]) \in Writing
  BY StepFrom DEF HubInv, Unlisten, At
<1>3. call' = [call EXCEPT ![a] = Tail(call[a])] /\ LockUnchanged
  BY DEF Unlisten, Proceed
<1>4. HubLock'
  BY <1>2, <1>3, LockKept DEF HubInv
<1>5. ChangePending'
  BY DEF Unlisten, ChangePending
<1> QED BY <1>1, <1>4, <1>5 DEF HubInv

\* The subsystem starts.
LEMMA InitializeKeeps ==
  ASSUME HubInv, NEW a \in Actors, Initialize(a)
  PROVE  HubInv'
<1>1. HubData'
  BY DEF HubInv, HubData, Initialize, Proceed
<1>2. call[a] \in Writing /\ readers[a] = 0 /\ exclusive = TRUE /\ writer = a /\ Tail(call[a]) \in Writing
  BY StepFrom DEF HubInv, Initialize, At
<1>3. call' = [call EXCEPT ![a] = Tail(call[a])] /\ LockUnchanged
  BY DEF Initialize, Proceed
<1>4. HubLock'
  BY <1>2, <1>3, LockKept DEF HubInv
<1>5. ChangePending'
  BY PendingProceeds DEF Initialize
<1> QED BY <1>1, <1>4, <1>5 DEF HubInv

\* The subsystem forgets its caches and its listeners.
LEMMA ShutdownKeeps ==
  ASSUME HubInv, NEW a \in Actors, Shutdown(a)
  PROVE  HubInv'
<1>1. HubData'
  BY DEF HubInv, HubData, Shutdown, Proceed
<1>2. call[a] \in Writing /\ readers[a] = 0 /\ exclusive = TRUE /\ writer = a /\ Tail(call[a]) \in Writing
  BY StepFrom DEF HubInv, Shutdown, At
<1>3. call' = [call EXCEPT ![a] = Tail(call[a])] /\ LockUnchanged
  BY DEF Shutdown, Proceed
<1>4. HubLock'
  BY <1>2, <1>3, LockKept DEF HubInv
<1>5. ChangePending'
  BY DEF Shutdown, ChangePending
<1> QED BY <1>1, <1>4, <1>5 DEF HubInv

\* The locks of the cache subsystem are held as its calls say, in every state.
THEOREM HubInvCorrect == HubSpec => []HubInv
<1>1. HubInv /\ [HubNext]_hubVars => HubInv'
  <2> SUFFICES ASSUME HubInv, [HubNext]_hubVars PROVE HubInv'
    OBVIOUS
  <2>1. CASE HubNext
    <3>1. PICK a \in Actors : Calls(a) \/ Step(a)
      BY <2>1 DEF HubNext
    <3> QED BY <3>1, CallsKeep, RLockKeeps, RUnlockKeeps, LockKeeps, UnlockKeeps, ChangeKeeps,
               RegisterCacheKeeps, UnregisterKeeps, DeleteKeeps, CopyListenersKeeps, SnapshotsKeeps,
               UnlistenKeeps, InitializeKeeps, ShutdownKeeps DEF Step
  <2>2. CASE UNCHANGED hubVars
    <3>1. HubData' /\ ChangePending'
      BY <2>2 DEF HubInv, HubData, ChangePending, hubVars
    <3>2. HubLock'
      BY <2>2 DEF HubInv, HubLock, Entry, hubVars
    <3> QED BY <3>1, <3>2 DEF HubInv
  <2> QED BY <2>1, <2>2
<1> QED BY <1>1, HubInitial, PTL DEF HubSpec

\* Nobody reads the registry while a writer has its lock, every read lock is
\* given back when its call returns, and when all have returned the broker has
\* been shown the last change: the safety half of HubServes.
THEOREM HubSafeCorrect == HubSpec => [](HubTypeOK /\ LastChangeShown)
BY HubInvCorrect, HubInvSafe, PTL

\* Of the calls on the subsystem only a deletion asks for the read lock while
\* it holds it: the wait that HubServes excludes is DeleteEntryFromCache's alone.
THEOREM OnlyDeletionNests ==
    HubSpec => [](NestedWait => \E a \in Actors : call[a] \in {Deleted7, Deleted4})
<1>1. HubInv => (NestedWait => \E a \in Actors : call[a] \in {Deleted7, Deleted4})
  <2> SUFFICES ASSUME HubInv, NestedWait PROVE \E a \in Actors : call[a] \in {Deleted7, Deleted4}
    OBVIOUS
  <2>1. PICK a \in Actors : call[a] # <<>> /\ Head(call[a]) = "rlock" /\ readers[a] > 0
    BY DEF NestedWait, At
  <2>2. readers[a] # 0 /\ HubLock
    BY <2>1 DEF HubInv
  <2>3. call[a] \in {Deleted7, Deleted4}
    BY <2>1, <2>2, StepFrom
  <2> QED BY <2>3
<1> QED BY <1>1, HubInvCorrect, PTL
=============================================================================
