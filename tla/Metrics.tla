------------------------------- MODULE Metrics -------------------------------
(* The metrics manager and the broker of the dashboard's event stream: the    *)
(* tree of connection metrics, the requests that report to it over an         *)
(* unbuffered channel, the workers that count every report at every level,    *)
(* and the clients that are sent a snapshot when they subscribe and an event  *)
(* for every count that changes (metrics/connection.go,                       *)
(* internal/app/sse_server.go, api/sse_handler.go,                            *)
(* middleware/metrics_middleware.go).                                         *)
(*                                                                            *)
(* A connection name is the sequence of its parts: <<>> is "global", <<p>> a  *)
(* port, <<p, h>> a host or a path of it, and so on; the name before the      *)
(* first "-path-", or else before the first "-host-", is the front of the     *)
(* sequence.  The metrics themselves are reduced to the number of requests    *)
(* they count.                                                                *)
EXTENDS Integers, Sequences, FiniteSets, SequencesExt

CONSTANTS
    Names,         \* connection names, with the names above each
    Workers,       \* numberOfWorkers goroutines
    Reporters,     \* requests that pass a metrics middleware
    Clients,       \* subscribers of the event stream
    Buffer,        \* capacity of a client's channel, 512 in the code
    MaxReports,    \* bound on the reports made
    MaxObjects     \* bound on the metrics ever created

Global == <<>>

ASSUME MetricsAssumption ==
    /\ Global \in Names
    /\ \A n \in Names : n \in Seq(STRING) /\ \A d \in 0 .. Len(n) : SubSeq(n, 1, d) \in Names
    /\ IsFiniteSet(Workers) /\ IsFiniteSet(Clients)
    /\ Buffer \in Nat \ {0} /\ MaxReports \in Nat /\ MaxObjects \in Nat \ {0}

VARIABLES
    connectionMetricsMap,  \* name -> metric registered under it, 0 for none
    metrics,       \* every metric created: name, parent, count, reports routed to it
    reporter,      \* where a request is, and the name it reports
    worker,        \* where a worker is, its metric and the count it copied
    made,          \* reports made so far
    phase,         \* of managedService: "built", "run", "unheard", "silent", "stopped"
    chanClosed,    \* metricsChan is closed
    listening,     \* the broker's wildcard listener is registered
    clients,       \* clients in the broker's map
    clientCount,   \* its atomic counter
    client         \* where a subscriber is, the length of its channel's queue, the
                   \* largest count of each metric put there while none was dropped

treeVars == <<connectionMetricsMap, metrics>>
brokerVars == <<listening, clients, clientCount, client>>
metricsVars == <<treeVars, reporter, worker, made, phase, chanClosed, brokerVars>>

NoMetric == 0
Registered(n) == connectionMetricsMap[n] # NoMetric

----------------------------------------------------------------------------
(* The tree.                                                                  *)

\* "" for the global name, otherwise the name one level up
deriveParentMetricName(n) == Front(n)

serverOf(n) == IF n = Global THEN "global" ELSE Head(n)

\* the recursion goes up to the first name that is registered, at depth `top`
StopsAt(n, top) ==
    /\ Registered(SubSeq(n, 1, top))
    /\ \A d \in top + 1 .. Len(n) : ~Registered(SubSeq(n, 1, d))

\* the metrics below that name are created on the way back, parents first
CreateMetrics(n, top) ==
    LET base == Len(metrics)
        map == [m \in Names |-> IF IsPrefix(m, n) /\ Len(m) > top THEN base + Len(m) - top
                                ELSE connectionMetricsMap[m]]
        new(m) == [name |-> m, parent |-> map[deriveParentMetricName(m)], count |-> 0, routed |-> 0]
    IN  /\ base + Len(n) - top <= MaxObjects
        /\ connectionMetricsMap' = map
        /\ metrics' = metrics \o [i \in 1 .. Len(n) - top |-> new(SubSeq(n, 1, top + i))]

\* a chain is built: its metric and the missing ancestors are created, an
\* existing metric is used again
TrackMetricsForConnection(n) ==
    /\ \E top \in 0 .. Len(n) : StopsAt(n, top) /\ CreateMetrics(n, top)
    /\ UNCHANGED <<reporter, worker, made, phase, chanClosed, brokerVars>>

\* DeleteProxy: the metrics of the server go, chains still at work report on
RemoveMetricsForServer(p) ==
    /\ \E n \in Names : n # Global /\ serverOf(n) = p /\ Registered(n)
    /\ connectionMetricsMap' = [n \in Names |->
          IF n # Global /\ serverOf(n) = p THEN NoMetric ELSE connectionMetricsMap[n]]
    /\ UNCHANGED <<metrics, reporter, worker, made, phase, chanClosed, brokerVars>>

----------------------------------------------------------------------------
(* Reports.                                                                   *)

Idle == [at |-> "idle", name |-> Global]

\* the handler has returned; the middleware of a name that was tracked, even
\* one of a chain that is gone by now, sends what it measured
Report(r, n) ==
    /\ reporter[r].at = "idle" /\ \E m \in DOMAIN metrics : metrics[m].name = n /\ made < MaxReports
    /\ reporter' = [reporter EXCEPT ![r] = [at |-> "send", name |-> n]]
    /\ made' = made + 1
    /\ UNCHANGED <<treeVars, worker, phase, chanClosed, brokerVars>>

\* the send and a worker's receive meet; a name no longer tracked is skipped
Receive(w, r) ==
    LET m == connectionMetricsMap[reporter[r].name]
    IN  /\ worker[w].at = "idle" /\ reporter[r].at = "send" /\ ~chanClosed
        /\ reporter' = [reporter EXCEPT ![r] = Idle]
        /\ \/ m = NoMetric /\ UNCHANGED <<metrics, worker>>
           \/ m # NoMetric /\ metrics' = [metrics EXCEPT ![m].routed = @ + 1]
              /\ worker' = [worker EXCEPT ![w] = [at |-> "update", cur |-> m, copy |-> 0]]
        /\ UNCHANGED <<connectionMetricsMap, made, phase, chanClosed, brokerVars>>

\* the select sees the cancelled context
GiveUp(r) ==
    /\ reporter[r].at = "send" /\ phase = "stopped"
    /\ reporter' = [reporter EXCEPT ![r] = Idle]
    /\ UNCHANGED <<treeVars, worker, made, phase, chanClosed, brokerVars>>

\* the select picks the send on the closed channel, which panics; net/http
\* ends the connection
SendOnClosed(r) ==
    /\ reporter[r].at = "send" /\ chanClosed
    /\ reporter' = [reporter EXCEPT ![r] = [Idle EXCEPT !.at = "panicked"]]
    /\ UNCHANGED <<treeVars, worker, made, phase, chanClosed, brokerVars>>

----------------------------------------------------------------------------
(* Workers.                                                                   *)

\* one level under its lock: add the request, copy the sum
UpdateLevel(w) ==
    /\ worker[w].at = "update"
    /\ metrics' = [metrics EXCEPT ![worker[w].cur].count = @ + 1]
    /\ worker' = [worker EXCEPT ![w].at = "notify", ![w].copy = metrics[worker[w].cur].count + 1]
    /\ UNCHANGED <<connectionMetricsMap, reporter, made, phase, chanClosed, brokerVars>>

\* where updateConnectionMetrics goes from here
Climb(w) ==
    LET parent == metrics[worker[w].cur].parent
    IN  worker' = [worker EXCEPT ![w] =
            IF parent = NoMetric THEN [at |-> "idle", cur |-> NoMetric, copy |-> 0]
                                 ELSE [at |-> "update", cur |-> parent, copy |-> 0]]

\* Mutant: the climb stops where nobody listens.
NotifyOrStop(w) ==
    /\ worker[w].at = "notify"
    /\ IF listening /\ clientCount # 0 THEN worker' = [worker EXCEPT ![w].at = "broadcast"]
       ELSE worker' = [worker EXCEPT ![w] = [at |-> "idle", cur |-> NoMetric, copy |-> 0]]
    /\ UNCHANGED <<treeVars, reporter, made, phase, chanClosed, brokerVars>>

\* notifyListeners takes the read lock; broadcastJSON asks whether any client
\* is there.  The read lock is held until the broadcast is over.
notifyListeners(w) ==
    /\ worker[w].at = "notify"
    /\ IF listening /\ clientCount # 0
       THEN worker' = [worker EXCEPT ![w].at = "broadcast"]
       ELSE Climb(w)
    /\ UNCHANGED <<treeVars, reporter, made, phase, chanClosed, brokerVars>>

Untold == [m \in 1 .. MaxObjects |-> 0]

\* an event that a full channel does not take is dropped for that client
Offer(c, e) ==
    LET next == IF c.queued < Buffer THEN [c EXCEPT !.queued = @ + 1] ELSE [c EXCEPT !.dropped = TRUE]
        latest == IF e[2] > c.told[e[1]] THEN e[2] ELSE c.told[e[1]]
    IN  [next EXCEPT !.told = IF next.dropped THEN Untold ELSE [c.told EXCEPT ![e[1]] = latest]]

\* Mutant: a full channel is waited for.
BroadcastWaiting(w) ==
    /\ worker[w].at = "broadcast"
    /\ \A c \in clients : client[c].queued < Buffer
    /\ client' = [c \in Clients |-> IF c \in clients
                     THEN Offer(client[c], <<worker[w].cur, worker[w].copy>>) ELSE client[c]]
    /\ Climb(w)
    /\ UNCHANGED <<treeVars, reporter, made, phase, chanClosed, listening, clients, clientCount>>

broadcastAll(w) ==
    /\ worker[w].at = "broadcast"
    /\ client' = [c \in Clients |-> IF c \in clients
                     THEN Offer(client[c], <<worker[w].cur, worker[w].copy>>) ELSE client[c]]
    /\ Climb(w)
    /\ UNCHANGED <<treeVars, reporter, made, phase, chanClosed, listening, clients, clientCount>>

\* the select sees the cancelled context
WorkerEnds(w) ==
    /\ worker[w].at = "idle" /\ phase = "stopped"
    /\ worker' = [worker EXCEPT ![w].at = "ended"]
    /\ UNCHANGED <<treeVars, reporter, made, phase, chanClosed, brokerVars>>

\* startCollectingMetrics returns from the wait group and closes the channel
CloseMetricsChan ==
    /\ \A w \in Workers : worker[w].at = "ended"
    /\ ~chanClosed /\ chanClosed' = TRUE
    /\ UNCHANGED <<treeVars, reporter, worker, made, phase, brokerVars>>

----------------------------------------------------------------------------
(* Clients.                                                                   *)

Outside == [at |-> "out", open |-> FALSE, queued |-> 0, dropped |-> FALSE,
            told |-> Untold]

\* the snapshot of every registered metric, each copied under its own lock
GetAllMetrics ==
    [m \in {connectionMetricsMap[n] : n \in {k \in Names : Registered(k)}} |-> metrics[m].count]

\* the channel after the sends of a snapshot: what does not fit is dropped
Welcome(c) ==
    LET told == GetAllMetrics
        length == c.queued + Cardinality(DOMAIN told)
        dropped == c.dropped \/ length > Buffer
        latest(m) == IF m \in DOMAIN told /\ told[m] > c.told[m] THEN told[m] ELSE c.told[m]
    IN  [c EXCEPT !.queued = IF length > Buffer THEN Buffer ELSE length, !.dropped = dropped,
                  !.told = IF dropped THEN Untold ELSE [m \in 1 .. MaxObjects |-> latest(m)]]

Register(c, at, record) ==
    /\ clients' = clients \union {c} /\ clientCount' = clientCount + 1
    /\ client' = [client EXCEPT ![c] = [record EXCEPT !.at = at, !.open = TRUE]]
    /\ UNCHANGED <<treeVars, reporter, worker, made, phase, chanClosed, listening>>

\* Mutant: the snapshot is taken before the registration.
SubscribeLate(c) ==
    \/ /\ client[c].at = "out"
       /\ client' = [client EXCEPT ![c] = [Welcome(@) EXCEPT !.at = "registered"]]
       /\ UNCHANGED <<treeVars, reporter, worker, made, phase, chanClosed, listening, clients, clientCount>>
    \/ client[c].at = "registered" /\ Register(c, "stream", client[c])

\* Subscribe: into the map first, then, with no lock held, the snapshot and its
\* sends, which panic when Stop has closed the channel meanwhile.  (A broadcast
\* between the copy and the sends only reorders the queue.)
Subscribe(c) ==
    \/ client[c].at = "out" /\ Register(c, "registered", client[c])
    \/ /\ client[c].at = "registered"
       /\ client' = [client EXCEPT ![c] = IF @.open THEN [Welcome(@) EXCEPT !.at = "stream"]
                                                     ELSE [Outside EXCEPT !.at = "panicked"]]
       /\ UNCHANGED <<treeVars, reporter, worker, made, phase, chanClosed, listening, clients, clientCount>>

\* an event is written to the connection
ServeEvent(c) ==
    /\ client[c].at = "stream" /\ client[c].queued > 0
    /\ client' = [client EXCEPT ![c].queued = @ - 1]
    /\ UNCHANGED <<treeVars, reporter, worker, made, phase, chanClosed, listening, clients, clientCount>>

\* the connection ends, a write fails or the closed channel is drained;
\* Unsubscribe closes the channel unless Stop has
Unsubscribe(c) ==
    /\ client[c].at = "stream"
    /\ IF c \in clients
       THEN /\ clients' = clients \ {c} /\ clientCount' = clientCount - 1
            /\ client' = [client EXCEPT ![c] = Outside]
       ELSE /\ client' = [client EXCEPT ![c] = Outside]
            /\ UNCHANGED <<clients, clientCount>>
    /\ UNCHANGED <<treeVars, reporter, worker, made, phase, chanClosed, listening>>

----------------------------------------------------------------------------
(* managedService.Start and Stop.                                             *)

StartCollectingMetrics ==
    /\ phase = "built" /\ phase' = "run"
    /\ worker' = [w \in Workers |-> [worker[w] EXCEPT !.at = "idle"]]
    /\ UNCHANGED <<treeVars, reporter, made, chanClosed, brokerVars>>

\* SSEBroker.Stop, its listeners: the write lock waits for the broadcasts
RemoveListener ==
    /\ phase = "run" /\ phase' = "unheard"
    /\ \A w \in Workers : worker[w].at # "broadcast"
    /\ listening' = FALSE
    /\ UNCHANGED <<treeVars, reporter, worker, made, chanClosed, clients, clientCount, client>>

\* SSEBroker.Stop, its clients
CloseClients ==
    /\ phase = "unheard" /\ phase' = "silent"
    /\ client' = [c \in Clients |-> IF c \in clients THEN [client[c] EXCEPT !.open = FALSE] ELSE client[c]]
    /\ clients' = {} /\ clientCount' = 0
    /\ UNCHANGED <<treeVars, reporter, worker, made, chanClosed, listening>>

StopCollectingMetrics ==
    /\ phase = "silent" /\ phase' = "stopped"
    /\ UNCHANGED <<treeVars, reporter, worker, made, chanClosed, brokerVars>>

----------------------------------------------------------------------------
MetricsInit ==
    /\ metrics = << [name |-> Global, parent |-> NoMetric, count |-> 0, routed |-> 0] >>
    /\ connectionMetricsMap = [n \in Names |-> IF n = Global THEN 1 ELSE NoMetric]
    /\ reporter = [r \in Reporters |-> Idle]
    /\ worker = [w \in Workers |-> [at |-> "off", cur |-> NoMetric, copy |-> 0]]
    /\ made = 0 /\ phase = "built" /\ chanClosed = FALSE
    /\ listening = TRUE /\ clients = {} /\ clientCount = 0
    /\ client = [c \in Clients |-> Outside]

Work(w) == UpdateLevel(w) \/ notifyListeners(w) \/ broadcastAll(w) \/ WorkerEnds(w)
              \/ \E r \in Reporters : Receive(w, r)
Answer(r) == GiveUp(r) \/ SendOnClosed(r)
Attend(c) == Subscribe(c) \/ ServeEvent(c) \/ Unsubscribe(c)
Stop == RemoveListener \/ CloseClients \/ StopCollectingMetrics

MetricsNext ==
    \/ \E n \in Names : TrackMetricsForConnection(n)
    \/ \E p \in {serverOf(n) : n \in Names} : RemoveMetricsForServer(p)
    \/ \E r \in Reporters : Answer(r) \/ \E n \in Names : Report(r, n)
    \/ \E w \in Workers : Work(w)
    \/ CloseMetricsChan
    \/ \E c \in Clients : Attend(c)
    \/ StartCollectingMetrics
    \/ Stop

MetricsSpec == MetricsInit /\ [][MetricsNext]_metricsVars

\* goroutines run on; a Stop that has begun goes on; clients owe nothing
MetricsFairness ==
    /\ \A w \in Workers : WF_metricsVars(Work(w))
    /\ \A r \in Reporters : WF_metricsVars(Answer(r))
    /\ WF_metricsVars(CloseMetricsChan) /\ WF_metricsVars(StartCollectingMetrics)
    /\ WF_metricsVars(CloseClients) /\ WF_metricsVars(StopCollectingMetrics)
MetricsFairSpec == MetricsSpec /\ MetricsFairness

----------------------------------------------------------------------------
(* Properties.                                                                *)

Ids == 1 .. Len(metrics)
Stages == {"off", "idle", "update", "notify", "broadcast", "ended"}

\* Every variable has its type: a pointer names a metric that exists, a
\* channel holds at most its capacity.
MetricsTypeOK ==
    /\ \A n \in Names : connectionMetricsMap[n] \in Ids \union {NoMetric}
    /\ \A i \in Ids : metrics[i].name \in Names /\ metrics[i].parent \in Ids \union {NoMetric}
    /\ \A r \in Reporters : reporter[r].at \in {"idle", "send", "panicked"} /\ reporter[r].name \in Names
    /\ \A w \in Workers : worker[w].at \in Stages
    /\ \A c \in Clients : client[c].queued \in 0 .. Buffer
    /\ made \in 0 .. MaxReports /\ chanClosed \in BOOLEAN /\ listening \in BOOLEAN
    /\ clients \subseteq Clients /\ clientCount \in 0 .. Cardinality(Clients)
    /\ phase \in {"built", "run", "unheard", "silent", "stopped"}

\* Whatever the order in which chains are built and servers deleted, a
\* registered metric points to the metric registered under its parent's name
\* and not to an earlier one (the comment in TrackMetricsForConnection).
ParentsRegistered ==
    \A n \in Names : Registered(n) /\ n # Global =>
        /\ Registered(Front(n))
        /\ metrics[connectionMetricsMap[n]].parent = connectionMetricsMap[Front(n)]

\* workers that are about to count at metric i
Due(i) == {w \in Workers : \/ worker[w].at = "update" /\ worker[w].cur = i
                           \/ worker[w].at \in {"notify", "broadcast"}
                              /\ metrics[worker[w].cur].parent = i}

\* what the children of metric i have counted, a pair for each request
CountedBelow(i) == UNION {{j} \X (1 .. metrics[j].count) : j \in {k \in Ids : metrics[k].parent = i}}

\* No report is lost or counted twice on its way up, deleted levels included:
\* a metric has counted what was routed to it and what its children have
\* counted, less what a worker is about to add (updateConnectionMetrics).
EveryLevelCounts ==
    \A i \in Ids :
        metrics[i].count + Cardinality(Due(i)) = metrics[i].routed + Cardinality(CountedBelow(i))

\* A client in the broker's map has an open channel, so that no broadcast
\* panics, and a closed channel is never in the map again (Unsubscribe, Stop).
BroadcastSafe == \A c \in clients : client[c].open

\* A subscriber whose channel never overflowed has every registered metric's
\* present count before it, unless a worker is about to send it: no update
\* falls between the snapshot of Subscribe and the first broadcast.
NothingMissed ==
    \A c \in clients : client[c].at = "stream" /\ ~client[c].dropped /\ listening =>
        \A n \in Names : Registered(n) =>
            LET i == connectionMetricsMap[n]
            IN  \/ client[c].told[i] = metrics[i].count
                \/ \E w \in Workers : worker[w].cur = i /\ worker[w].at \in {"notify", "broadcast"}

\* A worker that has taken a report gets back to the channel, on which the
\* requests wait, however slow the clients of the stream are.
WorkersReturn == \A w \in Workers : worker[w].at = "update" ~> worker[w].at \in {"idle", "ended"}

\* Once the manager is stopped every worker ends and the channel is closed.
CollectingEnds == phase = "stopped" ~> chanClosed

\* The tree of metrics stays a tree over deletions and new chains, and every level
\* of it counts every report once.
CountsSound == MetricsTypeOK /\ ParentsRegistered /\ EveryLevelCounts

\* The event stream: broadcasts never meet a closed channel, and a client is told
\* every count from its first snapshot on.
StreamSound == BroadcastSafe /\ NothingMissed

\* The workers never stay stuck: they come back from every report, and end with
\* the manager.
WorkersGoOn == WorkersReturn /\ CollectingEnds
=============================================================================
