--------------------------- MODULE EventBusProofs ---------------------------
(***************************************************************************)
(* Proofs about EventBus, for any number of subscribers, events, topics    *)
(* and workers.                                                            *)
(***************************************************************************)
EXTENDS EventBus, TLAPS

\* The types of the table of subscriptions.
TableType ==
    /\ listeners \in [Topics -> Subscribers \union {NoMap}]
    /\ members \in [Subscribers -> SUBSET Subscribers]
    /\ home \in [Subscribers -> Subscribers \union {NoMap}]
    /\ sub \in [Subscribers -> {"none", "checked", "active", "gone"}]

\* An active subscription's closure holds the very map that the topic has in
\* eb.listeners, and that map has the subscription.
HomeIsListed ==
    \A s \in Subscribers : sub[s] = "active" =>
        /\ home[s] \in Subscribers
        /\ listeners[TopicOf[s]] = home[s]
        /\ s \in members[home[s]]

\* A map holds nothing but active subscriptions whose closures hold it.
MembersAreActive ==
    \A m \in Subscribers : \A s \in members[m] : sub[s] = "active" /\ home[s] = m

TableInv == TableType /\ HomeIsListed /\ MembersAreActive

\* The empty table.
LEMMA TableInit == Init => TableInv
BY DEF Init, TableInv, TableType, HomeIsListed, MembersAreActive

\* Subscribe keeps the table consistent, whether the topic has a map or not.
LEMMA SubscribeKeeps ==
    ASSUME TableInv, NEW s \in Subscribers, SubscribeStore(s)
    PROVE  TableInv'
<1> DEFINE t == TopicOf[s]
           m == IF listeners[t] = NoMap THEN s ELSE listeners[t]
<1> USE BusAssumption DEF BusAssumption, TableInv
<1>1. /\ sub[s] = "checked"
      /\ listeners' = [listeners EXCEPT ![t] = m]
      /\ members' = [members EXCEPT ![m] = @ \union {s}]
      /\ home' = [home EXCEPT ![s] = m]
      /\ sub' = [sub EXCEPT ![s] = "active"]
  BY DEF SubscribeStore
<1>2. t \in Topics /\ m \in Subscribers
  BY DEF TableType
<1> HIDE DEF t, m
<1>3. TableType'
  BY <1>1, <1>2 DEF TableType
<1>4. HomeIsListed'
  <2> SUFFICES ASSUME NEW x \in Subscribers, sub'[x] = "active"
               PROVE  home'[x] \in Subscribers /\ listeners'[TopicOf[x]] = home'[x] /\ x \in members'[home'[x]]
    BY DEF HomeIsListed
  <2>1. CASE x = s
    BY <1>1, <1>2, <2>1 DEF TableType, t
  <2>2. CASE x # s
    <3>1. /\ sub[x] = "active" /\ home'[x] = home[x]
          /\ home[x] \in Subscribers /\ listeners[TopicOf[x]] = home[x] /\ x \in members[home[x]]
      BY <1>1, <2>2 DEF TableType, HomeIsListed
    <3>2. listeners'[TopicOf[x]] = listeners[TopicOf[x]]
      BY <1>1, <1>2, <3>1 DEF TableType, m, t
    <3>3. x \in members'[home[x]]
      BY <1>1, <1>2, <3>1 DEF TableType
    <3> QED BY <3>1, <3>2, <3>3
  <2> QED BY <2>1, <2>2
<1>5. MembersAreActive'
  BY <1>1, <1>2 DEF TableType, MembersAreActive
<1> QED BY <1>3, <1>4, <1>5

\* The unsubscribe closure keeps the table consistent: when it drops the topic's map
\* nobody else is in it.
LEMMA UnsubscribeKeeps ==
    ASSUME TableInv, NEW s \in Subscribers, Unsubscribe(s)
    PROVE  TableInv'
<1> USE BusAssumption DEF BusAssumption, TableInv
<1>1. /\ sub[s] = "active"
      /\ members' = [members EXCEPT ![home[s]] = @ \ {s}]
      /\ listeners' = IF members[home[s]] \subseteq {s}
                      THEN [listeners EXCEPT ![TopicOf[s]] = NoMap] ELSE listeners
      /\ sub' = [sub EXCEPT ![s] = "gone"]
      /\ home' = home
  BY DEF Unsubscribe
<1>2. TopicOf[s] \in Topics /\ home[s] \in Subscribers /\ listeners[TopicOf[s]] = home[s]
  BY <1>1 DEF HomeIsListed
<1>3. TableType'
  BY <1>1, <1>2 DEF TableType
<1>4. HomeIsListed'
  <2> SUFFICES ASSUME NEW x \in Subscribers, sub'[x] = "active"
               PROVE  home[x] \in Subscribers /\ listeners'[TopicOf[x]] = home[x] /\ x \in members'[home[x]]
    BY <1>1 DEF HomeIsListed
  <2>1. /\ x # s /\ sub[x] = "active"
        /\ home[x] \in Subscribers /\ listeners[TopicOf[x]] = home[x] /\ x \in members[home[x]]
    BY <1>1 DEF TableType, HomeIsListed
  <2>2. x \in members'[home[x]]
    BY <1>1, <1>2, <2>1 DEF TableType
  <2>3. listeners'[TopicOf[x]] = listeners[TopicOf[x]]
    <3>1. CASE members[home[s]] \subseteq {s}
      <4>1. TopicOf[x] # TopicOf[s]
        BY <1>2, <2>1, <3>1
      <4> QED BY <1>1, <1>2, <3>1, <4>1 DEF TableType
    <3>2. CASE ~(members[home[s]] \subseteq {s})
      BY <1>1, <3>2
    <3> QED BY <3>1, <3>2
  <2> QED BY <2>1, <2>2, <2>3
<1>5. MembersAreActive'
  BY <1>1, <1>2 DEF TableType, MembersAreActive
<1> QED BY <1>3, <1>4, <1>5

\* Every step keeps the table consistent.
LEMMA TableStep == TableInv /\ [Next]_vars => TableInv'
<1> SUFFICES ASSUME TableInv, [Next]_vars PROVE TableInv'
  OBVIOUS
<1>1. ASSUME UNCHANGED tableVars PROVE TableInv'
  BY <1>1 DEF TableInv, TableType, HomeIsListed, MembersAreActive, tableVars
<1>2. CASE Start \/ Stop
  BY <1>1, <1>2 DEF Start, Stop
<1>3. ASSUME NEW e \in Events, PublishCheck(e) \/ PublishSend(e) PROVE TableInv'
  BY <1>1, <1>3 DEF PublishCheck, PublishSend
<1>4. ASSUME NEW s \in Subscribers, SubscribeCheck(s) PROVE TableInv'
  BY <1>4 DEF SubscribeCheck, TableInv, TableType, HomeIsListed, MembersAreActive
<1>5. ASSUME NEW s \in Subscribers, SubscribeStore(s) PROVE TableInv'
  BY <1>5, SubscribeKeeps
<1>6. ASSUME NEW s \in Subscribers, Unsubscribe(s) PROVE TableInv'
  BY <1>6, UnsubscribeKeeps
<1>7. ASSUME NEW w \in Worker, Dispatch(w) PROVE TableInv'
  BY <1>1, <1>7 DEF Dispatch, TakeEvent, QueueJob, DispatchDone, DispatcherExits
<1>8. ASSUME NEW w \in Worker, Handle(w) PROVE TableInv'
  BY <1>1, <1>8 DEF Handle, TakeJob, RunHandler, HandlerExits
<1>9. CASE UNCHANGED vars
  BY <1>1, <1>9 DEF vars, tableVars
<1> QED BY <1>2, <1>3, <1>4, <1>5, <1>6, <1>7, <1>8, <1>9 DEF Next

\* An active subscription is found by dispatchEvent and one that was given up is not,
\* whatever other subscribers do.
THEOREM ReachableCorrect == Spec => []SubscriptionsReachable
<1>1. TableInv => SubscriptionsReachable
  <2> SUFFICES ASSUME TableInv, NEW s \in Subscribers
               PROVE  /\ sub[s] = "active" => s \in Reachable(TopicOf[s])
                      /\ sub[s] = "gone" => \A t \in Topics : s \notin Reachable(t)
    BY DEF SubscriptionsReachable
  <2>1. ASSUME sub[s] = "active" PROVE s \in Reachable(TopicOf[s])
    BY <2>1, BusAssumption DEF BusAssumption, TableInv, HomeIsListed, Reachable
  <2>2. ASSUME NEW t \in Topics, s \in Reachable(t) PROVE sub[s] = "active"
    BY <2>2 DEF TableInv, TableType, MembersAreActive, Reachable
  <2> QED BY <2>1, <2>2
<1> QED BY <1>1, TableInit, TableStep, PTL DEF Spec

-----------------------------------------------------------------------------
(* Deliveries: a job is in one place at a time, on its way from the event  *)
(* queue through a dispatcher, the handler queue and a handler.            *)

In(q, v) == \E i \in 1 .. Len(q) : q[i] = v
NoRepeat(q) == \A i, k \in 1 .. Len(q) : q[i] = q[k] => i = k

\* The inner map of a topic was made by a subscriber of that topic.
MapsHaveTopics == \A t \in Topics : listeners[t] # NoMap => TopicOf[listeners[t]] = t

\* The places of a job exclude each other, and no place has it twice.
OnePlace ==
    /\ NoRepeat(busChannel) /\ NoRepeat(handlerQueue)
    /\ \A j \in Jobs, w, x \in Worker :
         /\ j \in dispatcher[w].todo /\ j \in dispatcher[x].todo => w = x
         /\ j \in handler[w].todo /\ j \in handler[x].todo => w = x
         /\ ~(j \in dispatcher[w].todo /\ j \in handler[x].todo)
    /\ \A j \in Jobs, w \in Worker :
         j \in dispatcher[w].todo \/ j \in handler[w].todo => ~In(handlerQueue, j) /\ handled[j] = 0
    /\ \A j \in Jobs : (In(handlerQueue, j) => handled[j] = 0) /\ handled[j] <= 1

\* A job that exists comes from an accepted event that has left the event queue, and
\* belongs to a subscriber of one of its topics.
Legitimate(j) == pub[j[1]] = "accepted" /\ TopicOf[j[2]] \in TopicsOf[j[1]] /\ ~In(busChannel, j[1])

JobsLegitimate ==
    /\ \A e \in Events : In(busChannel, e) => pub[e] = "accepted"
    /\ \A j \in Jobs, w \in Worker : j \in dispatcher[w].todo \/ j \in handler[w].todo => Legitimate(j)
    /\ \A j \in Jobs : In(handlerQueue, j) \/ handled[j] > 0 => Legitimate(j)

DeliveryInv == TypeOK /\ TableInv /\ MapsHaveTopics /\ OnePlace /\ JobsLegitimate

\* What a send does to a channel: it adds the value, and repeats none when the
\* value was not there.
LEMMA SendAdds ==
    ASSUME NEW S, NEW q \in Seq(S), NEW v \in S
    PROVE  /\ Append(q, v) \in Seq(S) /\ Len(Append(q, v)) = Len(q) + 1
           /\ \A x : In(Append(q, v), x) <=> (In(q, x) \/ x = v)
           /\ NoRepeat(q) /\ ~In(q, v) => NoRepeat(Append(q, v))
<1> DEFINE r == Append(q, v)
<1>1. /\ r \in Seq(S) /\ Len(r) = Len(q) + 1 /\ Len(q) \in Nat
      /\ r[Len(q) + 1] = v /\ \A i \in 1 .. Len(q) : r[i] = q[i]
  OBVIOUS
<1> HIDE DEF r
<1>2. ASSUME NEW x PROVE In(r, x) <=> (In(q, x) \/ x = v)
  BY <1>1 DEF In
<1>3. NoRepeat(q) /\ ~In(q, v) => NoRepeat(r)
  BY <1>1 DEF NoRepeat, In
<1> QED BY <1>1, <1>2, <1>3 DEF r

\* What a receive does to a channel: the head was there once, and the rest stays.
LEMMA ReceiveTakes ==
    ASSUME NEW S, NEW q \in Seq(S), q # <<>>
    PROVE  /\ Tail(q) \in Seq(S) /\ Len(Tail(q)) = Len(q) - 1 /\ Head(q) \in S
           /\ \A x : In(q, x) <=> (In(Tail(q), x) \/ x = Head(q))
           /\ NoRepeat(q) => NoRepeat(Tail(q)) /\ ~In(Tail(q), Head(q))
<1> DEFINE r == Tail(q)
           h == Head(q)
<1>1. /\ Len(q) \in Nat /\ Len(q) > 0 /\ r \in Seq(S) /\ Len(r) = Len(q) - 1
      /\ h = q[1] /\ h \in S /\ \A i \in 1 .. Len(r) : r[i] = q[i + 1]
  OBVIOUS
<1> HIDE DEF r, h
<1>2. ASSUME NEW x PROVE In(q, x) <=> (In(r, x) \/ x = h)
  <2>1. ASSUME In(q, x), x # h PROVE In(r, x)
    <3> PICK i \in 1 .. Len(q) : q[i] = x
      BY <2>1 DEF In
    <3>1. i - 1 \in 1 .. Len(r) /\ r[i - 1] = x
      BY <1>1, <2>1
    <3> QED BY <3>1 DEF In
  <2>2. ASSUME In(r, x) PROVE In(q, x)
    <3> PICK i \in 1 .. Len(r) : r[i] = x
      BY <2>2 DEF In
    <3>1. i + 1 \in 1 .. Len(q) /\ q[i + 1] = x
      BY <1>1
    <3> QED BY <3>1 DEF In
  <2>3. In(q, h)
    BY <1>1 DEF In
  <2> QED BY <2>1, <2>2, <2>3
<1>3. ASSUME NoRepeat(q) PROVE NoRepeat(r) /\ ~In(r, h)
  <2>1. ASSUME NEW i \in 1 .. Len(r) PROVE i + 1 \in 1 .. Len(q) /\ i + 1 # 1 /\ 1 \in 1 .. Len(q)
    BY <1>1
  <2>2. NoRepeat(r)
    BY <1>1, <1>3, <2>1 DEF NoRepeat
  <2>3. ~In(r, h)
    BY <1>1, <1>3, <2>1 DEF NoRepeat, In
  <2> QED BY <2>2, <2>3
<1> QED BY <1>1, <1>2, <1>3 DEF r, h

\* A stopped bus has no jobs.
LEMMA DeliveryInit == Init => DeliveryInv
<1> SUFFICES ASSUME Init PROVE DeliveryInv
  OBVIOUS
<1> USE BusAssumption DEF BusAssumption
<1>1. TypeOK
  <2>1. Down \in WorkerState
    BY DEF Down, WorkerState
  <2>2. dispatcher \in [Worker -> WorkerState] /\ handler \in [Worker -> WorkerState]
    BY <2>1 DEF Init
  <2>3. handled \in [Jobs -> Nat] /\ due \subseteq Jobs
    BY DEF Init
  <2>4. /\ busChannel \in Seq(Events) /\ Len(busChannel) <= EventQueueSize
        /\ handlerQueue \in Seq(Jobs) /\ Len(handlerQueue) <= HandlerQueueSize
    BY DEF Init
  <2>5. /\ listeners \in [Topics -> Subscribers \union {NoMap}]
        /\ members \in [Subscribers -> SUBSET Subscribers]
        /\ home \in [Subscribers -> Subscribers \union {NoMap}]
        /\ sub \in [Subscribers -> {"none", "checked", "active", "gone"}]
        /\ pub \in [Events -> {"new", "checked", "accepted", "dropped"}]
    BY DEF Init
  <2>6. started \in BOOLEAN /\ cancelled \in BOOLEAN /\ starts = 0
    BY Zenon DEF Init
  <2> QED BY <2>2, <2>3, <2>4, <2>5, <2>6, 0 \in 0 .. MaxStarts DEF TypeOK
<1>2. MapsHaveTopics
  BY DEF Init, MapsHaveTopics
<1>3. /\ \A x : ~In(busChannel, x) /\ ~In(handlerQueue, x)
      /\ NoRepeat(busChannel) /\ NoRepeat(handlerQueue)
  BY DEF Init, In, NoRepeat
<1>4. \A w \in Worker : dispatcher[w].todo = {} /\ handler[w].todo = {}
  BY DEF Init, Down
<1>5. \A j \in Jobs : handled[j] = 0
  BY DEF Init
<1> QED BY <1>1, <1>2, <1>3, <1>4, <1>5, TableInit DEF DeliveryInv, OnePlace, JobsLegitimate

\* The subscribers an event is dispatched to asked for one of its topics.
LEMMA MatchingAsked ==
    ASSUME TypeOK, TableInv, MapsHaveTopics, NEW e \in Events, NEW s \in Matching(e)
    PROVE  s \in Subscribers /\ TopicOf[s] \in TopicsOf[e]
<1>1. PICK t \in TopicsOf[e] : s \in Reachable(t)
  BY DEF Matching
<1>2. t \in Topics /\ s \in Subscribers
  BY <1>1, BusAssumption DEF BusAssumption, Matching
<1>3. listeners[t] # NoMap /\ listeners[t] \in Subscribers /\ s \in members[listeners[t]]
  BY <1>1, <1>2 DEF Reachable, TypeOK
<1>4. sub[s] = "active" /\ home[s] = listeners[t]
  BY <1>3 DEF TableInv, MembersAreActive
<1>5. listeners[TopicOf[s]] = listeners[t] /\ TopicOf[s] \in Topics
  BY <1>2, <1>4, BusAssumption DEF BusAssumption, TableInv, HomeIsListed
<1>6. TopicOf[s] = t
  BY <1>2, <1>3, <1>5 DEF MapsHaveTopics
<1> QED BY <1>1, <1>2, <1>6

\* The map a topic gets is named after a subscriber of that topic.
LEMMA MapsStep == TypeOK /\ MapsHaveTopics /\ [Next]_vars => MapsHaveTopics'
<1> SUFFICES ASSUME TypeOK, MapsHaveTopics, [Next]_vars PROVE MapsHaveTopics'
  OBVIOUS
<1>1. ASSUME listeners' = listeners PROVE MapsHaveTopics'
  BY <1>1 DEF MapsHaveTopics
<1>2. ASSUME NEW s \in Subscribers, SubscribeStore(s) PROVE MapsHaveTopics'
  BY <1>2, BusAssumption DEF BusAssumption, TypeOK, SubscribeStore, MapsHaveTopics
<1>3. ASSUME NEW s \in Subscribers, Unsubscribe(s) PROVE MapsHaveTopics'
  BY <1>3, BusAssumption DEF BusAssumption, TypeOK, Unsubscribe, MapsHaveTopics
<1>4. ASSUME NEW s \in Subscribers, SubscribeCheck(s) PROVE MapsHaveTopics'
  BY <1>1, <1>4 DEF SubscribeCheck
<1>5. CASE Start \/ Stop \/ \E e \in Events : PublishCheck(e) \/ PublishSend(e)
  BY <1>1, <1>5 DEF Start, Stop, PublishCheck, PublishSend, tableVars
<1>6. ASSUME NEW w \in Worker, Dispatch(w) \/ Handle(w) PROVE MapsHaveTopics'
  BY <1>1, <1>6 DEF Dispatch, TakeEvent, QueueJob, DispatchDone, DispatcherExits,
                    Handle, TakeJob, RunHandler, HandlerExits, tableVars
<1>7. CASE UNCHANGED vars
  BY <1>1, <1>7 DEF vars
<1> QED BY <1>2, <1>3, <1>4, <1>5, <1>6, <1>7 DEF Next

\* A step that moves no job and neither accepts nor takes an event.
LEMMA NothingMoves ==
    ASSUME OnePlace, JobsLegitimate,
           UNCHANGED <<busChannel, handlerQueue, handled>>,
           \A e \in Events : pub[e] = "accepted" => pub'[e] = "accepted",
           \A w \in Worker : /\ dispatcher'[w].todo \subseteq dispatcher[w].todo
                             /\ handler'[w].todo \subseteq handler[w].todo
    PROVE  OnePlace' /\ JobsLegitimate'
<1>1. \A x : (In(busChannel', x) <=> In(busChannel, x)) /\ (In(handlerQueue', x) <=> In(handlerQueue, x))
  OBVIOUS
<1>2. OnePlace'
  BY <1>1 DEF OnePlace
<1>3. \A j \in Jobs : j[1] \in Events
  BY DEF Jobs
<1>4. \A j \in Jobs : Legitimate(j) => Legitimate(j)'
  BY <1>1, <1>3 DEF Legitimate
<1>5. JobsLegitimate'
  BY <1>1, <1>4 DEF JobsLegitimate
<1> QED BY <1>2, <1>5

\* Start and Stop: a new goroutine has nothing to do.
LEMMA StartStopKeep ==
    ASSUME DeliveryInv, Start \/ Stop
    PROVE  TypeOK' /\ OnePlace' /\ JobsLegitimate'
<1>1. Idle \in WorkerState /\ Idle.todo = {}
  BY DEF Idle, WorkerState
<1>2. TypeOK'
  <2>1. CASE Start
    <3>1. dispatcher' \in [Worker -> WorkerState] /\ handler' \in [Worker -> WorkerState]
      BY <1>1, <2>1 DEF DeliveryInv, TypeOK, Start
    <3>2. starts' \in 0 .. MaxStarts
      BY <2>1, BusAssumption DEF BusAssumption, DeliveryInv, TypeOK, Start
    <3> QED BY <2>1, <3>1, <3>2 DEF DeliveryInv, TypeOK, Start, tableVars
  <2>2. CASE Stop
    BY <2>2 DEF DeliveryInv, TypeOK, Stop, tableVars, poolVars
  <2> QED BY <2>1, <2>2
<1>3. \A w \in Worker : /\ dispatcher'[w].todo \subseteq dispatcher[w].todo
                        /\ handler'[w].todo \subseteq handler[w].todo
  BY <1>1 DEF Start, Stop, poolVars
<1>4. UNCHANGED <<busChannel, handlerQueue, handled, pub>>
  BY DEF Start, Stop
<1> QED BY <1>2, <1>3, <1>4, NothingMoves DEF DeliveryInv

\* Publish: what is accepted was not there before.
LEMMA PublishKeeps ==
    ASSUME DeliveryInv, NEW e \in Events, PublishCheck(e) \/ PublishSend(e)
    PROVE  TypeOK' /\ OnePlace' /\ JobsLegitimate'
<1>1. Matching(e) \subseteq Subscribers
  BY DEF Matching
<1>2. {<<e, s>> : s \in Matching(e)} \subseteq Jobs
  BY <1>1 DEF Jobs
<1>3. TypeOK
  BY DEF DeliveryInv
<1>4. CASE PublishCheck(e)
  <2>1. TypeOK'
    BY <1>3, <1>4 DEF TypeOK, PublishCheck, tableVars, poolVars
  <2>2. /\ UNCHANGED <<busChannel, handlerQueue, handled, dispatcher, handler>>
        /\ \A x \in Events : pub[x] = "accepted" => pub'[x] = "accepted"
    BY <1>3, <1>4 DEF PublishCheck, poolVars, TypeOK
  <2> QED BY <2>1, <2>2, NothingMoves DEF DeliveryInv
<1>5. CASE PublishSend(e) /\ ~(Len(busChannel) < EventQueueSize)
  <2>1. TypeOK'
    BY <1>3, <1>5 DEF TypeOK, PublishSend, tableVars, poolVars
  <2>2. /\ UNCHANGED <<busChannel, handlerQueue, handled, dispatcher, handler>>
        /\ \A x \in Events : pub[x] = "accepted" => pub'[x] = "accepted"
    BY <1>3, <1>5 DEF PublishSend, poolVars, TypeOK
  <2> QED BY <2>1, <2>2, NothingMoves DEF DeliveryInv
<1>6. CASE PublishSend(e) /\ Len(busChannel) < EventQueueSize
  <2>1. /\ pub[e] = "checked"
        /\ busChannel' = Append(busChannel, e)
        /\ pub' = [pub EXCEPT ![e] = "accepted"]
        /\ due' = due \union {<<e, s>> : s \in Matching(e)}
        /\ UNCHANGED <<started, cancelled, starts, handlerQueue, listeners, members, home, sub,
                       dispatcher, handler, handled>>
    BY <1>6 DEF PublishSend, tableVars, poolVars
  <2>2. /\ busChannel' \in Seq(Events) /\ Len(busChannel') = Len(busChannel) + 1
        /\ \A x : In(busChannel', x) <=> (In(busChannel, x) \/ x = e)
        /\ NoRepeat(busChannel) /\ ~In(busChannel, e) => NoRepeat(busChannel')
    BY <1>3, <2>1, SendAdds DEF TypeOK
  <2>3. TypeOK'
    <3>1. Len(busChannel) \in Nat /\ Len(busChannel') <= EventQueueSize
      BY <1>3, <1>6, <2>2, BusAssumption DEF BusAssumption, TypeOK
    <3>2. pub' \in [Events -> {"new", "checked", "accepted", "dropped"}] /\ due' \subseteq Jobs
      BY <1>2, <1>3, <2>1 DEF TypeOK
    <3> QED BY <1>3, <2>1, <2>2, <3>1, <3>2 DEF TypeOK
  <2>4. ~In(busChannel, e)
    BY <2>1 DEF DeliveryInv, JobsLegitimate
  <2>5. \A x \in Events : pub[x] = "accepted" => x # e /\ pub'[x] = "accepted"
    BY <1>3, <2>1 DEF TypeOK
  <2>6. OnePlace'
    BY <2>1, <2>2, <2>4 DEF DeliveryInv, OnePlace
  <2>7. \A j \in Jobs : Legitimate(j) => Legitimate(j)'
    BY <2>2, <2>5 DEF Legitimate, Jobs
  <2>8. \A x \in Events : In(busChannel', x) => pub'[x] = "accepted"
    BY <1>3, <2>1, <2>2, <2>5 DEF DeliveryInv, JobsLegitimate, TypeOK
  <2>9. JobsLegitimate'
    BY <2>1, <2>7, <2>8 DEF DeliveryInv, JobsLegitimate
  <2> QED BY <2>3, <2>6, <2>9
<1> QED BY <1>4, <1>5, <1>6

\* Subscribe and unsubscribe touch the table only.
LEMMA SubscriptionsKeep ==
    ASSUME DeliveryInv, NEW s \in Subscribers, SubscribeCheck(s) \/ SubscribeStore(s) \/ Unsubscribe(s)
    PROVE  TypeOK' /\ OnePlace' /\ JobsLegitimate'
<1>1. TableInv'
  BY TableStep DEF DeliveryInv, Next
<1>2. UNCHANGED <<started, cancelled, starts, busChannel, handlerQueue, pub, dispatcher, handler, due, handled>>
  BY DEF SubscribeCheck, SubscribeStore, Unsubscribe, poolVars
<1>3. TypeOK'
  BY <1>1, <1>2 DEF DeliveryInv, TypeOK, TableInv, TableType
<1> QED BY <1>2, <1>3, NothingMoves DEF DeliveryInv

\* A dispatcher takes an event: its jobs are new, as the event was still in the queue.
LEMMA TakeEventKeeps ==
    ASSUME DeliveryInv, NEW w \in Worker, TakeEvent(w)
    PROVE  TypeOK' /\ OnePlace' /\ JobsLegitimate'
<1> DEFINE e == Head(busChannel)
           jobs == {<<e, s>> : s \in Matching(e)}
<1>1. /\ busChannel # <<>>
      /\ dispatcher' = [dispatcher EXCEPT ![w] = Busy(jobs)]
      /\ busChannel' = Tail(busChannel)
      /\ UNCHANGED <<started, cancelled, starts, handlerQueue, listeners, members, home, sub,
                     pub, handler, due, handled>>
  BY DEF TakeEvent, tableVars
<1>2. TypeOK /\ OnePlace /\ JobsLegitimate
  BY DEF DeliveryInv
<1>3. /\ busChannel' \in Seq(Events) /\ Len(busChannel') = Len(busChannel) - 1 /\ e \in Events
      /\ \A x : In(busChannel, x) <=> (In(busChannel', x) \/ x = e)
      /\ NoRepeat(busChannel') /\ ~In(busChannel', e)
  BY <1>1, <1>2, ReceiveTakes DEF TypeOK, OnePlace
<1>4. \A j \in jobs : j \in Jobs /\ j[1] = e /\ TopicOf[j[2]] \in TopicsOf[e]
  BY <1>3, MatchingAsked DEF DeliveryInv, Jobs
<1> HIDE DEF e, jobs
<1>5. /\ dispatcher'[w].todo = jobs
      /\ \A x \in Worker : x # w => dispatcher'[x] = dispatcher[x]
  BY <1>1, <1>2 DEF TypeOK, Busy
<1>6. TypeOK'
  <2>1. Busy(jobs) \in WorkerState
    BY <1>4 DEF Busy, WorkerState
  <2>2. dispatcher' \in [Worker -> WorkerState]
    BY <1>1, <1>2, <2>1 DEF TypeOK
  <2>3. Len(busChannel') <= EventQueueSize
    BY <1>2, <1>3, BusAssumption DEF TypeOK, BusAssumption
  <2> QED BY <1>1, <1>2, <1>3, <2>2, <2>3 DEF TypeOK
<1>7. \A j \in jobs : /\ ~In(handlerQueue, j) /\ handled[j] = 0
                      /\ \A x \in Worker : j \notin dispatcher[x].todo /\ j \notin handler[x].todo
  <2> SUFFICES ASSUME NEW j \in jobs
               PROVE  /\ ~In(handlerQueue, j) /\ handled[j] = 0
                      /\ \A x \in Worker : j \notin dispatcher[x].todo /\ j \notin handler[x].todo
    OBVIOUS
  <2>1. j \in Jobs /\ ~Legitimate(j)
    BY <1>3, <1>4 DEF Legitimate
  <2>2. handled[j] \in Nat
    BY <1>2, <2>1 DEF TypeOK
  <2> QED BY <1>2, <2>1, <2>2 DEF JobsLegitimate
<1>8. OnePlace'
  <2>1. NoRepeat(busChannel)' /\ NoRepeat(handlerQueue)'
    BY <1>1, <1>2, <1>3 DEF OnePlace
  <2>2. ASSUME NEW j \in Jobs, NEW x \in Worker, NEW y \in Worker
        PROVE  /\ j \in dispatcher'[x].todo /\ j \in dispatcher'[y].todo => x = y
               /\ j \in handler'[x].todo /\ j \in handler'[y].todo => x = y
               /\ ~(j \in dispatcher'[x].todo /\ j \in handler'[y].todo)
    BY <1>1, <1>2, <1>5, <1>7 DEF OnePlace
  <2>3. ASSUME NEW j \in Jobs, NEW x \in Worker, j \in dispatcher'[x].todo \/ j \in handler'[x].todo
        PROVE  ~In(handlerQueue', j) /\ handled'[j] = 0
    BY <1>1, <1>2, <1>5, <1>7, <2>3 DEF OnePlace
  <2>4. \A j \in Jobs : (In(handlerQueue', j) => handled'[j] = 0) /\ handled'[j] <= 1
    BY <1>1, <1>2 DEF OnePlace
  <2> QED BY <2>1, <2>2, <2>3, <2>4 DEF OnePlace
<1>9. JobsLegitimate'
  <2>1. \A j \in Jobs : Legitimate(j) => Legitimate(j)'
    BY <1>1, <1>3 DEF Legitimate
  <2>2. \A j \in jobs : Legitimate(j)'
    BY <1>1, <1>2, <1>3, <1>4 DEF Legitimate, JobsLegitimate
  <2>3. \A x \in Events : In(busChannel', x) => pub'[x] = "accepted"
    BY <1>1, <1>2, <1>3 DEF JobsLegitimate
  <2>4. ASSUME NEW j \in Jobs, NEW x \in Worker, j \in dispatcher'[x].todo \/ j \in handler'[x].todo
        PROVE  Legitimate(j)'
    BY <1>1, <1>2, <1>5, <2>1, <2>2, <2>4 DEF JobsLegitimate
  <2>5. \A j \in Jobs : In(handlerQueue', j) \/ handled'[j] > 0 => Legitimate(j)'
    BY <1>1, <1>2, <2>1 DEF JobsLegitimate
  <2> QED BY <2>3, <2>4, <2>5 DEF JobsLegitimate
<1> QED BY <1>6, <1>8, <1>9

\* dispatchHandler moves a job from the dispatcher to the queue, or drops it.
LEMMA QueueJobKeeps ==
    ASSUME DeliveryInv, NEW w \in Worker, QueueJob(w)
    PROVE  TypeOK' /\ OnePlace' /\ JobsLegitimate'
<1>1. TypeOK /\ OnePlace /\ JobsLegitimate
  BY DEF DeliveryInv
<1>2. PICK job \in dispatcher[w].todo :
        /\ \/ Len(handlerQueue) < HandlerQueueSize /\ handlerQueue' = Append(handlerQueue, job)
           \/ handlerQueue' = handlerQueue
        /\ dispatcher' = [dispatcher EXCEPT ![w].todo = @ \ {job}]
        /\ UNCHANGED <<started, cancelled, starts, busChannel, listeners, members, home, sub,
                       pub, handler, due, handled>>
  BY DEF QueueJob, tableVars
<1>3. job \in Jobs /\ dispatcher[w] \in WorkerState
  BY <1>1 DEF TypeOK, WorkerState
<1>4. /\ dispatcher' \in [Worker -> WorkerState]
      /\ dispatcher'[w].todo = dispatcher[w].todo \ {job}
      /\ \A x \in Worker : x # w => dispatcher'[x] = dispatcher[x]
  BY <1>1, <1>2, <1>3 DEF TypeOK, WorkerState
<1>5. \A x \in Worker : dispatcher'[x].todo \subseteq dispatcher[x].todo /\ job \notin dispatcher'[x].todo
  BY <1>1, <1>3, <1>4 DEF OnePlace
<1>6. CASE handlerQueue' = handlerQueue
  <2>1. TypeOK'
    BY <1>1, <1>2, <1>4, <1>6 DEF TypeOK
  <2> QED BY <1>1, <1>2, <1>5, <1>6, <2>1, NothingMoves
<1>7. CASE Len(handlerQueue) < HandlerQueueSize /\ handlerQueue' = Append(handlerQueue, job)
  <2>1. /\ handlerQueue' \in Seq(Jobs) /\ Len(handlerQueue') = Len(handlerQueue) + 1
        /\ \A x : In(handlerQueue', x) <=> (In(handlerQueue, x) \/ x = job)
        /\ NoRepeat(handlerQueue) /\ ~In(handlerQueue, job) => NoRepeat(handlerQueue')
    BY <1>1, <1>3, <1>7, SendAdds DEF TypeOK
  <2>2. TypeOK'
    <3>1. Len(handlerQueue') <= HandlerQueueSize
      BY <1>1, <1>7, <2>1, BusAssumption DEF TypeOK, BusAssumption
    <3> QED BY <1>1, <1>2, <1>4, <2>1, <3>1 DEF TypeOK
  <2>3. ~In(handlerQueue, job) /\ handled[job] = 0 /\ \A x \in Worker : job \notin handler[x].todo
    BY <1>1, <1>3 DEF OnePlace
  <2>4. OnePlace'
    <3>1. NoRepeat(busChannel)' /\ NoRepeat(handlerQueue)'
      BY <1>1, <1>2, <2>1, <2>3 DEF OnePlace
    <3>2. ASSUME NEW j \in Jobs, NEW x \in Worker, NEW y \in Worker
          PROVE  /\ j \in dispatcher'[x].todo /\ j \in dispatcher'[y].todo => x = y
                 /\ j \in handler'[x].todo /\ j \in handler'[y].todo => x = y
                 /\ ~(j \in dispatcher'[x].todo /\ j \in handler'[y].todo)
      BY <1>1, <1>2, <1>5 DEF OnePlace
    <3>3. ASSUME NEW j \in Jobs, NEW x \in Worker, j \in dispatcher'[x].todo \/ j \in handler'[x].todo
          PROVE  ~In(handlerQueue', j) /\ handled'[j] = 0
      BY <1>1, <1>2, <1>5, <2>1, <2>3, <3>3 DEF OnePlace
    <3>4. \A j \in Jobs : (In(handlerQueue', j) => handled'[j] = 0) /\ handled'[j] <= 1
      BY <1>1, <1>2, <2>1, <2>3 DEF OnePlace
    <3> QED BY <3>1, <3>2, <3>3, <3>4 DEF OnePlace
  <2>5. \A j \in Jobs : Legitimate(j)' <=> Legitimate(j)
    BY <1>2 DEF Legitimate
  <2>6. Legitimate(job)
    BY <1>1, <1>3 DEF JobsLegitimate
  <2>7. JobsLegitimate'
    BY <1>1, <1>2, <1>5, <2>1, <2>5, <2>6 DEF JobsLegitimate
  <2> QED BY <2>2, <2>4, <2>7
<1> QED BY <1>2, <1>6, <1>7

\* A dispatcher between two events, or at its end, has no jobs.
LEMMA DispatcherRests ==
    ASSUME DeliveryInv, NEW w \in Worker, DispatchDone(w) \/ DispatcherExits(w)
    PROVE  TypeOK' /\ OnePlace' /\ JobsLegitimate'
<1>1. Idle \in WorkerState /\ Idle.todo = {} /\ Down \in WorkerState /\ Down.todo = {}
  BY DEF Idle, Down, WorkerState
<1>2. PICK rest \in {Idle, Down} : dispatcher' = [dispatcher EXCEPT ![w] = rest]
  BY DEF DispatchDone, DispatcherExits
<1>3. UNCHANGED <<started, cancelled, starts, busChannel, handlerQueue, listeners, members, home, sub,
                  pub, handler, due, handled>>
  BY DEF DispatchDone, DispatcherExits, tableVars
<1>4. TypeOK'
  <2>1. dispatcher' \in [Worker -> WorkerState]
    BY <1>1, <1>2 DEF DeliveryInv, TypeOK
  <2> QED BY <1>3, <2>1 DEF DeliveryInv, TypeOK
<1>5. \A x \in Worker : dispatcher'[x].todo \subseteq dispatcher[x].todo
  BY <1>1, <1>2 DEF DeliveryInv, TypeOK
<1> QED BY <1>3, <1>4, <1>5, NothingMoves DEF DeliveryInv

\* A handler goroutine takes a job out of the queue, where it was once.
LEMMA TakeJobKeeps ==
    ASSUME DeliveryInv, NEW w \in Worker, TakeJob(w)
    PROVE  TypeOK' /\ OnePlace' /\ JobsLegitimate'
<1> DEFINE job == Head(handlerQueue)
<1>1. /\ handlerQueue # <<>>
      /\ handler' = [handler EXCEPT ![w] = Busy({job})]
      /\ handlerQueue' = Tail(handlerQueue)
      /\ UNCHANGED <<started, cancelled, starts, busChannel, listeners, members, home, sub,
                     pub, dispatcher, due, handled>>
  BY DEF TakeJob, tableVars
<1>2. TypeOK /\ OnePlace /\ JobsLegitimate
  BY DEF DeliveryInv
<1>3. /\ handlerQueue' \in Seq(Jobs) /\ Len(handlerQueue') = Len(handlerQueue) - 1 /\ job \in Jobs
      /\ \A x : In(handlerQueue, x) <=> (In(handlerQueue', x) \/ x = job)
      /\ NoRepeat(handlerQueue') /\ ~In(handlerQueue', job)
  BY <1>1, <1>2, ReceiveTakes DEF TypeOK, OnePlace
<1> HIDE DEF job
<1>4. handler'[w].todo = {job} /\ \A x \in Worker : x # w => handler'[x] = handler[x]
  BY <1>1, <1>2 DEF TypeOK, Busy
<1>5. TypeOK'
  <2>1. handler' \in [Worker -> WorkerState]
    BY <1>1, <1>2, <1>3 DEF TypeOK, Busy, WorkerState
  <2>2. Len(handlerQueue') <= HandlerQueueSize
    BY <1>2, <1>3, BusAssumption DEF TypeOK, BusAssumption
  <2> QED BY <1>1, <1>2, <1>3, <2>1, <2>2 DEF TypeOK
<1>6. /\ handled[job] = 0
      /\ \A x \in Worker : job \notin dispatcher[x].todo /\ job \notin handler[x].todo
  BY <1>2, <1>3 DEF OnePlace
<1>7. OnePlace'
  <2>1. NoRepeat(busChannel)' /\ NoRepeat(handlerQueue)'
    BY <1>1, <1>2, <1>3 DEF OnePlace
  <2>2. ASSUME NEW j \in Jobs, NEW x \in Worker, NEW y \in Worker
        PROVE  /\ j \in dispatcher'[x].todo /\ j \in dispatcher'[y].todo => x = y
               /\ j \in handler'[x].todo /\ j \in handler'[y].todo => x = y
               /\ ~(j \in dispatcher'[x].todo /\ j \in handler'[y].todo)
    <3>1. dispatcher' = dispatcher
      BY <1>1
    <3>2. CASE j = job
      BY <1>4, <1>6, <3>1, <3>2
    <3>3. CASE j # job
      <4>1. \A z \in Worker : j \in handler'[z].todo => j \in handler[z].todo
        BY <1>4, <3>3
      <4> QED BY <1>2, <3>1, <4>1 DEF OnePlace
    <3> QED BY <3>2, <3>3
  <2>3. ASSUME NEW j \in Jobs, NEW x \in Worker, j \in dispatcher'[x].todo \/ j \in handler'[x].todo
        PROVE  ~In(handlerQueue', j) /\ handled'[j] = 0
    BY <1>1, <1>2, <1>3, <1>4, <1>6, <2>3 DEF OnePlace
  <2>4. \A j \in Jobs : (In(handlerQueue', j) => handled'[j] = 0) /\ handled'[j] <= 1
    BY <1>1, <1>2, <1>3 DEF OnePlace
  <2> QED BY <2>1, <2>2, <2>3, <2>4 DEF OnePlace
<1>8. JobsLegitimate'
  <2>1. \A j \in Jobs : Legitimate(j)' <=> Legitimate(j)
    BY <1>1 DEF Legitimate
  <2>2. Legitimate(job)
    BY <1>2, <1>3 DEF JobsLegitimate
  <2> QED BY <1>1, <1>2, <1>3, <1>4, <2>1, <2>2 DEF JobsLegitimate
<1> QED BY <1>5, <1>7, <1>8

\* A handler goroutine runs its job, which was run nowhere else.
LEMMA RunHandlerKeeps ==
    ASSUME DeliveryInv, NEW w \in Worker, RunHandler(w)
    PROVE  TypeOK' /\ OnePlace' /\ JobsLegitimate'
<1>1. TypeOK /\ OnePlace /\ JobsLegitimate
  BY DEF DeliveryInv
<1>2. PICK job \in handler[w].todo :
        /\ handler' = [handler EXCEPT ![w] = Idle]
        /\ handled' = [handled EXCEPT ![job] = @ + 1]
        /\ UNCHANGED <<started, cancelled, starts, busChannel, handlerQueue, listeners, members, home,
                       sub, pub, dispatcher, due>>
  BY DEF RunHandler, tableVars
<1>3. job \in Jobs /\ Idle \in WorkerState /\ Idle.todo = {}
  BY <1>1 DEF TypeOK, WorkerState, Idle
<1>4. handler'[w].todo = {} /\ \A x \in Worker : x # w => handler'[x] = handler[x]
  BY <1>1, <1>2, <1>3 DEF TypeOK
<1>5. /\ handled[job] = 0 /\ ~In(handlerQueue, job)
      /\ \A x \in Worker : job \notin dispatcher[x].todo /\ job \notin handler'[x].todo
  BY <1>1, <1>3, <1>4 DEF OnePlace
<1>6. handled'[job] = 1 /\ \A j \in Jobs : j # job => handled'[j] = handled[j]
  BY <1>1, <1>2, <1>3, <1>5 DEF TypeOK
<1>7. TypeOK'
  <2>1. handler' \in [Worker -> WorkerState] /\ handled' \in [Jobs -> Nat]
    BY <1>1, <1>2, <1>3 DEF TypeOK
  <2> QED BY <1>1, <1>2, <2>1 DEF TypeOK
<1>8. OnePlace'
  <2>1. \A x \in Worker : handler'[x].todo \subseteq handler[x].todo
    BY <1>4
  <2>2. ASSUME NEW j \in Jobs, NEW x \in Worker, j \in dispatcher'[x].todo \/ j \in handler'[x].todo
        PROVE  ~In(handlerQueue', j) /\ handled'[j] = 0
    BY <1>1, <1>2, <1>5, <1>6, <2>1, <2>2 DEF OnePlace
  <2>3. \A j \in Jobs : (In(handlerQueue', j) => handled'[j] = 0) /\ handled'[j] <= 1
    BY <1>1, <1>2, <1>5, <1>6 DEF OnePlace
  <2> QED BY <1>1, <1>2, <2>1, <2>2, <2>3 DEF OnePlace
<1>9. JobsLegitimate'
  <2>1. \A j \in Jobs : Legitimate(j)' <=> Legitimate(j)
    BY <1>2 DEF Legitimate
  <2>2. Legitimate(job)
    BY <1>1, <1>3 DEF JobsLegitimate
  <2> QED BY <1>1, <1>2, <1>4, <1>6, <2>1, <2>2 DEF JobsLegitimate
<1> QED BY <1>7, <1>8, <1>9

\* A handler goroutine that ends has no job.
LEMMA HandlerExitsKeeps ==
    ASSUME DeliveryInv, NEW w \in Worker, HandlerExits(w)
    PROVE  TypeOK' /\ OnePlace' /\ JobsLegitimate'
<1>1. Down \in WorkerState /\ Down.todo = {}
  BY DEF Down, WorkerState
<1>2. /\ handler' = [handler EXCEPT ![w] = Down]
      /\ UNCHANGED <<started, cancelled, starts, busChannel, handlerQueue, listeners, members, home, sub,
                     pub, dispatcher, due, handled>>
  BY DEF HandlerExits, tableVars
<1>3. TypeOK'
  <2>1. handler' \in [Worker -> WorkerState]
    BY <1>1, <1>2 DEF DeliveryInv, TypeOK
  <2> QED BY <1>2, <2>1 DEF DeliveryInv, TypeOK
<1>4. \A x \in Worker : handler'[x].todo \subseteq handler[x].todo
  BY <1>1, <1>2 DEF DeliveryInv, TypeOK
<1> QED BY <1>2, <1>3, <1>4, NothingMoves DEF DeliveryInv

\* Every step keeps every job in one place.
LEMMA DeliveryStep == DeliveryInv /\ [Next]_vars => DeliveryInv'
<1> SUFFICES ASSUME DeliveryInv, [Next]_vars PROVE DeliveryInv'
  OBVIOUS
<1>1. TableInv' /\ MapsHaveTopics'
  BY TableStep, MapsStep DEF DeliveryInv
<1>2. TypeOK' /\ OnePlace' /\ JobsLegitimate'
  <2>1. CASE UNCHANGED vars
    BY <2>1 DEF vars, DeliveryInv, TypeOK, OnePlace, JobsLegitimate, Legitimate, In, NoRepeat
  <2>2. CASE Start \/ Stop
    BY <2>2, StartStopKeep
  <2>3. ASSUME NEW e \in Events, PublishCheck(e) \/ PublishSend(e)
        PROVE  TypeOK' /\ OnePlace' /\ JobsLegitimate'
    BY <2>3, PublishKeeps
  <2>4. ASSUME NEW s \in Subscribers, SubscribeCheck(s) \/ SubscribeStore(s) \/ Unsubscribe(s)
        PROVE  TypeOK' /\ OnePlace' /\ JobsLegitimate'
    BY <2>4, SubscriptionsKeep
  <2>5. ASSUME NEW w \in Worker, Dispatch(w)
        PROVE  TypeOK' /\ OnePlace' /\ JobsLegitimate'
    BY <2>5, TakeEventKeeps, QueueJobKeeps, DispatcherRests DEF Dispatch
  <2>6. ASSUME NEW w \in Worker, Handle(w)
        PROVE  TypeOK' /\ OnePlace' /\ JobsLegitimate'
    BY <2>6, TakeJobKeeps, RunHandlerKeeps, HandlerExitsKeeps DEF Handle
  <2> QED BY <2>1, <2>2, <2>3, <2>4, <2>5, <2>6 DEF Next
<1> QED BY <1>1, <1>2 DEF DeliveryInv

\* No handler sees an event twice, or one that was not accepted for a topic it asked
\* for, whatever stops, starts and panics come in between and however many goroutines
\* share the two channels.
THEOREM DeliveriesRightCorrect == Spec => []DeliveriesRight
<1>1. DeliveryInv => DeliveriesRight
  BY DEF DeliveryInv, DeliveriesRight, AtMostOnce, OnlyPublished, OnePlace, JobsLegitimate, Legitimate
<1> QED BY <1>1, DeliveryInit, DeliveryStep, PTL DEF Spec
=============================================================================
