SPECIFICATION FairSpec
CONSTANTS
    s1 = s1
    s2 = s2
    e1 = e1
    e2 = e2
    t1 = t1
    t2 = t2
    NoMap = NoMap
    Topics = {t1, t2}
    Subscribers = {s1, s2}
    TopicOf <- MCTopicOf
    Events = {e1, e2}
    TopicsOf <- MCTopicsOf
    Workers = {w1}
    MaxStarts = 2
    EventQueueSize = 1
    HandlerQueueSize = 1
CHECK_DEADLOCK FALSE
INVARIANTS
    SubscriptionsReachable
    DeliveriesRight
PROPERTIES
    Delivered
    WorkersEnd
