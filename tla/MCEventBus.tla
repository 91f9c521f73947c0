----------------------------- MODULE MCEventBus -----------------------------
(* EventBus for TLC: two subscribers of one topic.                           *)
EXTENDS EventBus, TLC

CONSTANTS s1, s2, e1, e2, t1, t2

MCTopicOf == [s \in {s1, s2} |-> t1]

\* An event with two topics and one that nobody subscribes to.
MCTopicsOf == (e1 :> {t1, t2}) @@ (e2 :> {t2})
=============================================================================
