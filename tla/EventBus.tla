------------------------------ MODULE EventBus ------------------------------
(***************************************************************************)
(* The in-process event bus (internal/bus/event_bus.go, worker.go) that    *)
(* carries the record of every finished request to the activity log.       *)
(*                                                                         *)
(* Two bounded channels, a pool of goroutines behind each, and one lock    *)
(* for the table of subscriptions.  The table is a map of maps, and each   *)
(* unsubscribe closure holds on to the inner map it was created with, so   *)
(* the inner maps are objects with an identity here.                       *)
(***************************************************************************)
EXTENDS Integers, Sequences, FiniteSets

CONSTANTS
    Topics,
    Subscribers,      \* calls of Subscribe; each has a topic and a handler
    TopicOf,          \* the topic of each subscriber
    Events,           \* calls of Publish
    TopicsOf,         \* the topics of each event
    Workers,          \* goroutines of each kind that one Start launches
    MaxStarts,        \* bound: calls of Start that launch goroutines
    EventQueueSize,   \* eventQueueSize
    HandlerQueueSize, \* handlerQueueSize
    NoMap             \* a missing entry of eb.listeners

ASSUME BusAssumption ==
    /\ TopicOf \in [Subscribers -> Topics]
    /\ TopicsOf \in [Events -> SUBSET Topics]
    /\ MaxStarts \in Nat
    /\ EventQueueSize \in Nat \ {0} /\ HandlerQueueSize \in Nat \ {0}
    /\ NoMap \notin Subscribers

VARIABLES
    started,      \* eb.started
    cancelled,    \* eb.ctx is done; no call makes a new context
    starts,       \* calls of Start that launched goroutines
    busChannel,   \* events that wait for a dispatcher
    handlerQueue, \* handler jobs <<event, subscriber>>
    listeners,    \* eb.listeners: the inner map of each topic, named after the
                  \* subscriber it was made for
    members,      \* the subscribers in each inner map
    home,         \* the inner map that each subscriber's closure holds
    sub,          \* none, checked, active or gone: where each subscription is
    pub,          \* new, checked, accepted or dropped: where each event is
    dispatcher,   \* the handlers a dispatchMessages goroutine still has to queue
    handler,      \* the job a handleMessages goroutine runs
    due,          \* history: deliveries owed when the event was accepted
    handled       \* history: how often each delivery was made

vars == <<started, cancelled, starts, busChannel, handlerQueue, listeners, members, home, sub,
          pub, dispatcher, handler, due, handled>>
tableVars == <<listeners, members, home, sub>>
poolVars == <<dispatcher, handler>>

\* The goroutines of the n-th Start.
Worker == (1 .. MaxStarts) \X Workers
Down == [state |-> "down", todo |-> {}]
Idle == [state |-> "idle", todo |-> {}]
Busy(jobs) == [state |-> "busy", todo |-> jobs]

Jobs == Events \X Subscribers

\* The subscriptions dispatchEvent finds: those in the maps of the event's topics.
Reachable(t) == IF listeners[t] = NoMap THEN {} ELSE members[listeners[t]]

Matching(e) == {s \in Subscribers : \E t \in TopicsOf[e] : s \in Reachable(t)}

-----------------------------------------------------------------------------
Init ==
    /\ started = FALSE
    /\ cancelled = FALSE
    /\ starts = 0
    /\ busChannel = <<>>
    /\ handlerQueue = <<>>
    /\ listeners = [t \in Topics |-> NoMap]
    /\ members = [m \in Subscribers |-> {}]
    /\ home = [s \in Subscribers |-> NoMap]
    /\ sub = [s \in Subscribers |-> "none"]
    /\ pub = [e \in Events |-> "new"]
    /\ dispatcher = [w \in Worker |-> Down]
    /\ handler = [w \in Worker |-> Down]
    /\ due = {}
    /\ handled = [j \in Jobs |-> 0]

\* Start under ebMu.  The context is not renewed: after a Stop the new goroutines
\* find it done.
Start ==
    /\ ~started
    /\ starts < MaxStarts
    /\ started' = TRUE
    /\ starts' = starts + 1
    /\ dispatcher' = [w \in Worker |-> IF w[1] = starts + 1 THEN Idle ELSE dispatcher[w]]
    /\ handler' = [w \in Worker |-> IF w[1] = starts + 1 THEN Idle ELSE handler[w]]
    /\ UNCHANGED <<cancelled, busChannel, handlerQueue, tableVars, pub, due, handled>>

Stop ==
    /\ started
    /\ started' = FALSE
    /\ cancelled' = TRUE
    /\ UNCHANGED <<starts, busChannel, handlerQueue, tableVars, pub, poolVars, due, handled>>

\* Publish reads started, and then sends without waiting.
PublishCheck(e) ==
    /\ pub[e] = "new"
    /\ pub' = [pub EXCEPT ![e] = IF started THEN "checked" ELSE "dropped"]
    /\ UNCHANGED <<started, cancelled, starts, busChannel, handlerQueue, tableVars, poolVars, due, handled>>

PublishSend(e) ==
    /\ pub[e] = "checked"
    /\ IF Len(busChannel) < EventQueueSize
       THEN /\ busChannel' = Append(busChannel, e)
            /\ pub' = [pub EXCEPT ![e] = "accepted"]
            /\ due' = due \union {<<e, s>> : s \in Matching(e)}
       ELSE /\ pub' = [pub EXCEPT ![e] = "dropped"]
            /\ UNCHANGED <<busChannel, due>>
    /\ UNCHANGED <<started, cancelled, starts, handlerQueue, tableVars, poolVars, handled>>

\* Subscribe reads started before it takes the lock.
SubscribeCheck(s) ==
    /\ sub[s] = "none"
    /\ started
    /\ sub' = [sub EXCEPT ![s] = "checked"]
    /\ UNCHANGED <<started, cancelled, starts, busChannel, handlerQueue, listeners, members, home,
                   pub, poolVars, due, handled>>

SubscribeStore(s) ==
    LET t == TopicOf[s]
        m == IF listeners[t] = NoMap THEN s ELSE listeners[t]
    IN  /\ sub[s] = "checked"
        /\ listeners' = [listeners EXCEPT ![t] = m]
        /\ members' = [members EXCEPT ![m] = @ \union {s}]
        /\ home' = [home EXCEPT ![s] = m]
        /\ sub' = [sub EXCEPT ![s] = "active"]
        /\ UNCHANGED <<started, cancelled, starts, busChannel, handlerQueue, pub, poolVars, due, handled>>

\* Mutant: the topic goes with the first subscriber that leaves.
UnsubscribeTopic(s) ==
    /\ sub[s] = "active"
    /\ members' = [members EXCEPT ![home[s]] = @ \ {s}]
    /\ listeners' = [listeners EXCEPT ![TopicOf[s]] = NoMap]
    /\ sub' = [sub EXCEPT ![s] = "gone"]
    /\ UNCHANGED <<started, cancelled, starts, busChannel, handlerQueue, home, pub, poolVars, due, handled>>

\* The closure that Subscribe returns.  Its only caller, the activity subsystem,
\* forgets it with the first call.
Unsubscribe(s) ==
    /\ sub[s] = "active"
    /\ members' = [members EXCEPT ![home[s]] = @ \ {s}]
    /\ listeners' = IF members[home[s]] \subseteq {s}
                    THEN [listeners EXCEPT ![TopicOf[s]] = NoMap] ELSE listeners
    /\ sub' = [sub EXCEPT ![s] = "gone"]
    /\ UNCHANGED <<started, cancelled, starts, busChannel, handlerQueue, home, pub, poolVars, due, handled>>

-----------------------------------------------------------------------------
\* dispatchMessages: an idle dispatcher takes an event and copies the handlers
\* (dispatchEvent under the read lock), even when the context is done as well.
TakeEvent(w) ==
    /\ dispatcher[w] = Idle
    /\ busChannel # <<>>
    /\ dispatcher' = [dispatcher EXCEPT ![w] = Busy({<<Head(busChannel), s>> : s \in Matching(Head(busChannel))})]
    /\ busChannel' = Tail(busChannel)
    /\ UNCHANGED <<started, cancelled, starts, handlerQueue, tableVars, pub, handler, due, handled>>

\* Mutant: the dispatcher gives up a job when the queue is full.
QueueOrDrop(w) ==
    \E job \in dispatcher[w].todo :
        /\ dispatcher' = [dispatcher EXCEPT ![w].todo = @ \ {job}]
        /\ handlerQueue' = IF Len(handlerQueue) < HandlerQueueSize THEN Append(handlerQueue, job)
                           ELSE handlerQueue
        /\ UNCHANGED <<started, cancelled, starts, busChannel, tableVars, pub, handler, due, handled>>

\* Mutant: the wait for room does not end with the context.
QueueBlocks(w) ==
    \E job \in dispatcher[w].todo :
        /\ Len(handlerQueue) < HandlerQueueSize
        /\ handlerQueue' = Append(handlerQueue, job)
        /\ dispatcher' = [dispatcher EXCEPT ![w].todo = @ \ {job}]
        /\ UNCHANGED <<started, cancelled, starts, busChannel, tableVars, pub, handler, due, handled>>

\* dispatchHandler: queue a job, waiting for room; a done context ends the wait.
QueueJob(w) ==
    \E job \in dispatcher[w].todo :
        /\ \/ Len(handlerQueue) < HandlerQueueSize /\ handlerQueue' = Append(handlerQueue, job)
           \/ cancelled /\ UNCHANGED handlerQueue
        /\ dispatcher' = [dispatcher EXCEPT ![w].todo = @ \ {job}]
        /\ UNCHANGED <<started, cancelled, starts, busChannel, tableVars, pub, handler, due, handled>>

DispatchDone(w) ==
    /\ dispatcher[w] = Busy({})
    /\ dispatcher' = [dispatcher EXCEPT ![w] = Idle]
    /\ UNCHANGED <<started, cancelled, starts, busChannel, handlerQueue, tableVars, pub, handler, due, handled>>

DispatcherExits(w) ==
    /\ dispatcher[w] = Idle
    /\ cancelled
    /\ dispatcher' = [dispatcher EXCEPT ![w] = Down]
    /\ UNCHANGED <<started, cancelled, starts, busChannel, handlerQueue, tableVars, pub, handler, due, handled>>

\* handleMessages.
TakeJob(w) ==
    /\ handler[w] = Idle
    /\ handlerQueue # <<>>
    /\ handler' = [handler EXCEPT ![w] = Busy({Head(handlerQueue)})]
    /\ handlerQueue' = Tail(handlerQueue)
    /\ UNCHANGED <<started, cancelled, starts, busChannel, tableVars, pub, dispatcher, due, handled>>

\* Mutant: a job whose handler panics is run again.
RetryAfterPanic(w) ==
    \E job \in handler[w].todo :
        /\ handler' \in {handler, [handler EXCEPT ![w] = Idle]}
        /\ handled' = [handled EXCEPT ![job] = @ + 1]
        /\ UNCHANGED <<started, cancelled, starts, busChannel, handlerQueue, tableVars, pub, dispatcher, due>>

\* safeHandleEvent: the handler returns or its panic is recovered; either way the
\* goroutine goes on.
RunHandler(w) ==
    \E job \in handler[w].todo :
        /\ handler' = [handler EXCEPT ![w] = Idle]
        /\ handled' = [handled EXCEPT ![job] = @ + 1]
        /\ UNCHANGED <<started, cancelled, starts, busChannel, handlerQueue, tableVars, pub, dispatcher, due>>

HandlerExits(w) ==
    /\ handler[w] = Idle
    /\ cancelled
    /\ handler' = [handler EXCEPT ![w] = Down]
    /\ UNCHANGED <<started, cancelled, starts, busChannel, handlerQueue, tableVars, pub, dispatcher, due, handled>>

Dispatch(w) == TakeEvent(w) \/ QueueJob(w) \/ DispatchDone(w) \/ DispatcherExits(w)
Handle(w) == TakeJob(w) \/ RunHandler(w) \/ HandlerExits(w)

Next ==
    \/ Start \/ Stop
    \/ \E e \in Events : PublishCheck(e) \/ PublishSend(e)
    \/ \E s \in Subscribers : SubscribeCheck(s) \/ SubscribeStore(s) \/ Unsubscribe(s)
    \/ \E w \in Worker : Dispatch(w) \/ Handle(w)

Spec == Init /\ [][Next]_vars

\* Every goroutine of the pools is scheduled, and handlers return.
FairSpec == Spec /\ \A w \in Worker : WF_vars(Dispatch(w)) /\ WF_vars(Handle(w))

-----------------------------------------------------------------------------
WorkerState == [state : {"down", "idle", "busy"}, todo : SUBSET Jobs]

\* The types of the bus's state, with the capacities of the two channels.
TypeOK ==
    /\ started \in BOOLEAN
    /\ cancelled \in BOOLEAN
    /\ starts \in 0 .. MaxStarts
    /\ busChannel \in Seq(Events) /\ Len(busChannel) <= EventQueueSize
    /\ handlerQueue \in Seq(Jobs) /\ Len(handlerQueue) <= HandlerQueueSize
    /\ listeners \in [Topics -> Subscribers \union {NoMap}]
    /\ members \in [Subscribers -> SUBSET Subscribers]
    /\ home \in [Subscribers -> Subscribers \union {NoMap}]
    /\ sub \in [Subscribers -> {"none", "checked", "active", "gone"}]
    /\ pub \in [Events -> {"new", "checked", "accepted", "dropped"}]
    /\ dispatcher \in [Worker -> WorkerState]
    /\ handler \in [Worker -> WorkerState]
    /\ due \subseteq Jobs
    /\ handled \in [Jobs -> Nat]

\* A subscription stays connected until it is given up: whatever other subscribers
\* of the topic come and go, an active one is in the inner map that dispatchEvent
\* looks up, and a subscription that was given up is in none.
SubscriptionsReachable ==
    \A s \in Subscribers :
        /\ sub[s] = "active" => s \in Reachable(TopicOf[s])
        /\ sub[s] = "gone" => \A t \in Topics : s \notin Reachable(t)

\* A handler sees an event at most once, however many goroutines share the queues.
AtMostOnce == \A j \in Jobs : handled[j] <= 1

\* Handlers only run for events whose Publish returned true and for topics they
\* asked for.
OnlyPublished ==
    \A j \in Jobs : handled[j] > 0 => pub[j[1]] = "accepted" /\ TopicOf[j[2]] \in TopicsOf[j[1]]

\* An accepted event reaches every subscription that was active when it was
\* accepted, unless the subscription is given up or the bus is stopped: a full
\* handler queue delays deliveries and never loses one, and the two pools cannot
\* wait for each other for ever.
Delivered ==
    \A j \in Jobs : j \in due ~> (handled[j] > 0 \/ sub[j[2]] = "gone" \/ cancelled)

\* Once the bus is stopped its goroutines end, however full the queues are.
WorkersEnd ==
    cancelled ~> \A w \in Worker : dispatcher[w] = Down /\ handler[w] = Down

\* What handlers get: no event twice, and no event that was not accepted for
\* one of their topics, whatever panics, stops and starts come in between.
DeliveriesRight == TypeOK /\ AtMostOnce /\ OnlyPublished
=============================================================================
