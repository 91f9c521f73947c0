--------------------------- MODULE CircuitBreaker ---------------------------
(***************************************************************************)
(* The circuit breaker middleware (middleware/circuit_breaker_middleware.go). *)
(*                                                                         *)
(* One targetMonitor is shared by all requests on a route.  It is two       *)
(* independent atomics and no lock: every Load, Store, Add and              *)
(* CompareAndSwap is an action of its own here, so requests interleave      *)
(* between any two of them.  Time is what time.Since can tell apart: ages   *)
(* in units, saturating at the recovery duration.                           *)
(***************************************************************************)
EXTENDS Integers

CONSTANTS
    Requests,          \* goroutines serving requests, reused one request after another
    FailureThreshold,  \* failure-threshold
    Recovery,          \* recovery-time
    HalfOpenThreshold, \* half-open-success-threshold
    MaxFailures        \* bound: failures in a behaviour

ASSUME BreakerAssumption ==
    /\ FailureThreshold \in Nat \ {0}
    /\ Recovery \in Nat \ {0}
    /\ HalfOpenThreshold \in Nat \ {0}
    /\ MaxFailures \in Nat

VARIABLES
    currentFailureCount,
    lastFailure, \* age of lastFailureNano
    pc,          \* the next atomic operation of each request
    count,       \* the value its last Load returned
    stamp,       \* age of the time.Now() it is about to store
    healthy,     \* the backend answers without 5xx and in time
    failures,    \* history: failures counted
    latest       \* history: age of the latest time taken for a failure

vars == <<currentFailureCount, lastFailure, pc, count, stamp, healthy, failures, latest>>

Age == 0 .. Recovery
Older(age) == IF age < Recovery THEN age + 1 ELSE age

\* The half-open count; never negative.
Reduced(n) == IF n - HalfOpenThreshold < 0 THEN 0 ELSE n - HalfOpenThreshold

Goto(r, l) == pc' = [pc EXCEPT ![r] = l]

-----------------------------------------------------------------------------
\* lastFailureNano is 0 at first: the epoch, older than any recovery time.
Init ==
    /\ currentFailureCount = 0
    /\ lastFailure = Recovery
    /\ pc = [r \in Requests |-> "idle"]
    /\ count = [r \in Requests |-> 0]
    /\ stamp = [r \in Requests |-> 0]
    /\ healthy = FALSE
    /\ failures = 0
    /\ latest = Recovery

\* A request arrives and loads the count.
Arrive(r) ==
    /\ pc[r] = "idle"
    /\ count' = [count EXCEPT ![r] = currentFailureCount]
    /\ Goto(r, IF currentFailureCount >= FailureThreshold THEN "check" ELSE "forward")
    /\ UNCHANGED <<currentFailureCount, lastFailure, stamp, healthy, failures, latest>>

\* Mutant: a rejected request counts as a new failure in time.
CheckRefreshes(r) ==
    /\ pc[r] = "check"
    /\ Goto(r, IF lastFailure < Recovery THEN "rejected" ELSE "halfOpen")
    /\ lastFailure' = IF lastFailure < Recovery THEN 0 ELSE lastFailure
    /\ UNCHANGED <<currentFailureCount, count, stamp, healthy, failures, latest>>

\* The circuit looks open: reject with 503, or let the request test the backend.
Check(r) ==
    /\ pc[r] = "check"
    /\ Goto(r, IF lastFailure < Recovery THEN "rejected" ELSE "halfOpen")
    /\ UNCHANGED <<currentFailureCount, lastFailure, count, stamp, healthy, failures, latest>>

\* CompareAndSwap(count, newCount); the request goes on whether or not it succeeds.
HalfOpen(r) ==
    /\ pc[r] = "halfOpen"
    /\ currentFailureCount' = IF currentFailureCount = count[r] THEN Reduced(count[r])
                              ELSE currentFailureCount
    /\ Goto(r, "forward")
    /\ UNCHANGED <<lastFailure, count, stamp, healthy, failures, latest>>

\* next.ServeHTTP answers with 5xx, or the request's deadline has passed.
BackendFails(r) ==
    /\ pc[r] = "forward"
    /\ ~healthy
    /\ failures < MaxFailures
    /\ Goto(r, "add")
    /\ UNCHANGED <<currentFailureCount, lastFailure, count, stamp, healthy, failures, latest>>

BackendAnswers(r) ==
    /\ pc[r] = "forward"
    /\ Goto(r, "load")
    /\ UNCHANGED <<currentFailureCount, lastFailure, count, stamp, healthy, failures, latest>>

\* currentFailureCount.Add(1)
CountFailure(r) ==
    /\ pc[r] = "add"
    /\ failures < MaxFailures
    /\ currentFailureCount' = currentFailureCount + 1
    /\ failures' = failures + 1
    /\ Goto(r, "now")
    /\ UNCHANGED <<lastFailure, count, stamp, healthy, latest>>

\* time.Now().UnixNano()
TakeTime(r) ==
    /\ pc[r] = "now"
    /\ stamp' = [stamp EXCEPT ![r] = 0]
    /\ latest' = 0
    /\ Goto(r, "store")
    /\ UNCHANGED <<currentFailureCount, lastFailure, count, healthy, failures>>

\* lastFailureNano.Store
StoreTime(r) ==
    /\ pc[r] = "store"
    /\ lastFailure' = stamp[r]
    /\ Goto(r, "idle")
    /\ UNCHANGED <<currentFailureCount, count, stamp, healthy, failures, latest>>

\* The loop after a success: load, leave at zero, otherwise try to subtract one.
LoadForDecrement(r) ==
    /\ pc[r] = "load"
    /\ count' = [count EXCEPT ![r] = currentFailureCount]
    /\ Goto(r, IF currentFailureCount <= 0 THEN "idle" ELSE "cas")
    /\ UNCHANGED <<currentFailureCount, lastFailure, stamp, healthy, failures, latest>>

\* Mutant: Add(-1) in the place of CompareAndSwap.
DecrementBlindly(r) ==
    /\ pc[r] = "cas"
    /\ currentFailureCount' = currentFailureCount - 1
    /\ Goto(r, "idle")
    /\ UNCHANGED <<lastFailure, count, stamp, healthy, failures, latest>>

Decrement(r) ==
    /\ pc[r] = "cas"
    /\ IF currentFailureCount = count[r]
       THEN currentFailureCount' = count[r] - 1 /\ Goto(r, "idle")
       ELSE UNCHANGED currentFailureCount /\ Goto(r, "load")
    /\ UNCHANGED <<lastFailure, count, stamp, healthy, failures, latest>>

\* The 503 has been written.
Rejected(r) ==
    /\ pc[r] = "rejected"
    /\ Goto(r, "idle")
    /\ UNCHANGED <<currentFailureCount, lastFailure, count, stamp, healthy, failures, latest>>

\* External: time passes, and the backend breaks down or comes back.
Tick ==
    /\ lastFailure' = Older(lastFailure)
    /\ stamp' = [r \in Requests |-> Older(stamp[r])]
    /\ latest' = Older(latest)
    /\ UNCHANGED <<currentFailureCount, pc, count, healthy, failures>>

Backend ==
    /\ healthy' = ~healthy
    /\ UNCHANGED <<currentFailureCount, lastFailure, pc, count, stamp, failures, latest>>

\* What a request does once it has arrived; BackendFails only offers an
\* alternative to BackendAnswers.
Serve(r) ==
    \/ Check(r) \/ HalfOpen(r) \/ BackendFails(r) \/ BackendAnswers(r)
    \/ CountFailure(r) \/ TakeTime(r) \/ StoreTime(r)
    \/ LoadForDecrement(r) \/ Decrement(r) \/ Rejected(r)

Next ==
    \/ \E r \in Requests : Arrive(r) \/ Serve(r)
    \/ Tick
    \/ Backend

\* Every handler goroutine is scheduled, and time passes.
Fairness == WF_vars(Tick) /\ \A r \in Requests : WF_vars(Serve(r))

Spec == Init /\ [][Next]_vars
FairSpec == Spec /\ Fairness

-----------------------------------------------------------------------------
\* The types of the monitor's atomics and of the requests' local state.
TypeOK ==
    /\ currentFailureCount \in Int
    /\ lastFailure \in Age
    /\ pc \in [Requests -> {"idle", "check", "rejected", "halfOpen", "forward", "add", "now",
                            "store", "load", "cas"}]
    /\ count \in [Requests -> Int]
    /\ stamp \in [Requests -> Age]
    /\ healthy \in BOOLEAN
    /\ failures \in 0 .. MaxFailures
    /\ latest \in Age

\* The count never goes below zero and never exceeds the failures counted: no
\* interleaving of failing, succeeding and probing requests invents a failure or
\* takes one off twice (a negative count would need extra failures to open).
CountIsSound == 0 <= currentFailureCount /\ currentFailureCount <= failures

\* A request is turned away only after the backend has failed at least
\* failure-threshold times.
RejectionJustified ==
    \A r \in Requests : pc[r] = "rejected" => failures >= FailureThreshold

\* A request is turned away only while a failure is younger than the recovery time,
\* however late and in whatever order the times of failures are stored: neither a
\* rejection nor a slow goroutine's store makes the breaker stay open for longer.
RejectionTimely ==
    [][\A r \in Requests : pc[r] = "check" /\ pc'[r] = "rejected" => latest < Recovery]_vars

\* If the backend stays healthy, requests are not turned away for ever: the
\* recovery time runs out and the breaker lets them through again.
Recovers == <>[]healthy => <>[](\A r \in Requests : pc[r] # "rejected")

\* The breaker's count is the balance of what happened, and it rejects nobody
\* before the threshold was reached, whatever loads, additions and exchanges
\* of concurrent requests interleave.
BreakerSound == TypeOK /\ CountIsSound /\ RejectionJustified
=============================================================================
