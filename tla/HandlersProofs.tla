--------------------------- MODULE HandlersProofs ---------------------------
(***************************************************************************)
(* Proofs about the registry (Torii) and about the management API's        *)
(* handlers that work on it, for every number of requests at once, every   *)
(* set of ports and every configuration.                                   *)
(*                                                                         *)
(* ListenerOwned, ChainsNotShared and ExposedChainsReclaimed are not       *)
(* inductive as they stand.  IInv adds what keeps them: a chain that is    *)
(* not built yet is nobody's (Fresh), a started server's chain is exposed, *)
(* and a stopped server's chain that was exposed has been cancelled by     *)
(* stop().                                                                 *)
(***************************************************************************)
EXTENDS Handlers, FiniteSetTheorems, FunctionTheorems, SequenceTheorems, TLAPS

-----------------------------------------------------------------------------
(* The registry.                                                           *)

USE ToriiAssumption DEF ToriiAssumption

-----------------------------------------------------------------------------
\* applyDefaultTimeouts keeps a configuration well formed.
LEMMA DefaultsType ==
    ASSUME NEW conf \in HTTPListener
    PROVE  applyDefaultTimeouts(conf) \in HTTPListener
BY DEF applyDefaultTimeouts, HTTPListener

\* A server object is built around the next chain and is neither started nor failed.
LEMMA BuiltServer ==
    ASSUME NEW conf \in HTTPListener, nextChain \in Chain
    PROVE  /\ buildHttpServer(conf) \in Server
           /\ buildHttpServer(conf) # NoServer
           /\ buildHttpServer(conf).chain = nextChain
           /\ ~buildHttpServer(conf).isStarted
<1>. DEFINE c == applyDefaultTimeouts(conf)
<1>1. c \in HTTPListener
  BY DefaultsType
<1>. HIDE DEF c
<1>2. SocketOf(c) \in Socket
  BY <1>1 DEF SocketOf, Socket, HTTPListener
<1>3. buildHttpServer(conf) = [built |-> SocketOf(c), conf |-> c, chain |-> nextChain,
                               isStarted |-> FALSE, err |-> FALSE]
  BY DEF buildHttpServer, c
<1>4. buildHttpServer(conf) \in Server
  BY <1>1, <1>2, <1>3 DEF Server
<1>5. buildHttpServer(conf) # NoServer
  BY <1>4
<1>6. buildHttpServer(conf).chain = nextChain
  BY <1>3
<1>7. ~buildHttpServer(conf).isStarted
  BY <1>3
<1>. QED
  BY <1>4, <1>5, <1>6, <1>7

\* Every operation keeps the registry well typed.
LEMMA TypeStep == TypeOK /\ [Next]_vars => TypeOK'
<1>. SUFFICES ASSUME TypeOK, [Next]_vars PROVE TypeOK'
  OBVIOUS
<1>. USE DEF TypeOK
<1>1. CASE UNCHANGED vars
  BY <1>1 DEF vars
<1>2. CASE Next
  <2>. PICK p \in Ports : Step(p)
    BY <1>2 DEF Next
  <2>1. CASE StartOk(p)
    <3>1. stopped[p] \in Server
      BY <2>1 DEF StartOk
    <3>2. [stopped[p] EXCEPT !.isStarted = TRUE, !.err = FALSE] \in Server /\ stopped[p].chain \in Chain
      BY <3>1 DEF Server
    <3>3. listener' \in [Ports -> {"closed", "serving", "orphan"}]
      BY <2>1 DEF StartOk
    <3>. QED
      BY <2>1, <3>2, <3>3 DEF StartOk
  <2>2. CASE StartFailed(p)
    <3>1. stopped[p] \in Server
      BY <2>2 DEF StartFailed
    <3>2. [stopped[p] EXCEPT !.err = TRUE] \in Server
      BY <3>1 DEF Server
    <3>. QED
      BY <2>2, <3>2 DEF StartFailed
  <2>3. CASE StopOk(p)
    <3>1. started[p] \in Server
      BY <2>3 DEF StopOk
    <3>2. [started[p] EXCEPT !.isStarted = FALSE] \in Server
      BY <3>1 DEF Server
    <3>3. listener' \in [Ports -> {"closed", "serving", "orphan"}]
      BY <2>3 DEF StopOk, stopServer
    <3>4. ctx' \in [Chain -> {"unbuilt", "live", "cancelled"}]
      BY <2>3 DEF StopOk, stopServer
    <3>. QED
      BY <2>3, <3>2, <3>3, <3>4 DEF StopOk
  <2>4. CASE ShutdownTimesOut(p)
    <3>1. started[p] \in Server
      BY <2>4 DEF ShutdownTimesOut
    <3>2. [started[p] EXCEPT !.isStarted = FALSE] \in Server
      BY <3>1 DEF Server
    <3>3. listener' \in [Ports -> {"closed", "serving", "orphan"}]
      BY <2>4 DEF ShutdownTimesOut, stopServer
    <3>4. ctx' \in [Chain -> {"unbuilt", "live", "cancelled"}]
      BY <2>4 DEF ShutdownTimesOut, stopServer
    <3>. QED
      BY <2>4, <3>2, <3>3, <3>4 DEF ShutdownTimesOut
  <2>5. CASE DeleteStopped(p)
    BY <2>5 DEF DeleteStopped
  <2>6. CASE DeleteStarted(p)
    BY <2>6 DEF DeleteStarted, stopServer, Server
  <2>7. ASSUME NEW conf \in Requests, AddHttpServer(p, conf) PROVE TypeOK'
    <3>1. nextChain \in Chain /\ conf \in HTTPListener
      BY <2>7 DEF AddHttpServer, Buildable, Chain
    <3>2. buildHttpServer(conf) \in Server
      BY <3>1, BuiltServer
    <3>. QED
      BY <2>7, <3>1, <3>2 DEF AddHttpServer, buildHandlerChain, Chain
  <2>8. ASSUME NEW conf \in Requests, HotSwapOk(p, conf) PROVE TypeOK'
    <3>1. nextChain \in Chain /\ conf \in HTTPListener
      BY <2>8 DEF HotSwapOk, Buildable, Chain
    <3>2. Lookup(p) \in Server /\ Lookup(p).chain \in Chain
      BY <2>8 DEF HotSwapOk, Lookup, Server
    <3>3. updateServerMetadata(updateHandler(Lookup(p)), conf) \in Server
      BY <3>1, <3>2 DEF Server, updateHandler, updateServerMetadata
    <3>4. stopped' \in [Ports -> Server \union {NoServer}] /\ started' \in [Ports -> Server \union {NoServer}]
      BY <2>8, <3>3 DEF HotSwapOk
    <3>5. exposed' \subseteq Chain
      BY <2>8, <3>1 DEF HotSwapOk
    <3>6. ctx' \in [Chain -> {"unbuilt", "live", "cancelled"}]
      BY <2>8, <3>1, <3>2 DEF HotSwapOk
    <3>7. nextChain' \in 1 .. MaxChains + 1 /\ registered' \in [Ports -> 0 .. MaxChains] /\ listener' = listener
      BY <2>8, <3>1 DEF HotSwapOk, Chain
    <3>. QED
      BY <3>4, <3>5, <3>6, <3>7
  <2>9. CASE ServeFails(p) \/ OrphanCollected(p)
    BY <2>9 DEF ServeFails, OrphanCollected
  <2>10. CASE DeleteFailed(p) /\ UNCHANGED vars
    BY <2>10 DEF vars
  <2>. QED
    BY <2>1, <2>2, <2>3, <2>4, <2>5, <2>6, <2>7, <2>8, <2>9, <2>10
    DEF Step, StopTimedOut, DeleteOk, DeleteFailed
<1>. QED
  BY <1>1, <1>2

\* The type invariant of the registry holds in every reachable state.
THEOREM TypeCorrect == Spec => []TypeOK
<1>1. Init => TypeOK
  BY DEF Init, TypeOK, Chain
<1>. QED
  BY <1>1, TypeStep, PTL DEF Spec

-----------------------------------------------------------------------------
\* A chain that buildHandlerChain has not returned yet is used nowhere.
Fresh ==
    /\ \A p \in Ports : /\ started[p] # NoServer => started[p].chain < nextChain
                        /\ stopped[p] # NoServer => stopped[p].chain < nextChain
    /\ \A c \in exposed : c < nextChain
    /\ \A c \in Chain : c >= nextChain => ctx[c] = "unbuilt"

\* What is exposed, seen from the two maps.
ExposedByMap ==
    \A p \in Ports :
        /\ started[p] # NoServer => started[p].chain \in exposed
        /\ stopped[p] # NoServer /\ stopped[p].chain \in exposed
              => ctx[stopped[p].chain] = "cancelled"

IInv == /\ TypeOK /\ Fresh /\ ExposedByMap
        /\ ListenerOwned /\ ChainsNotShared /\ ExposedChainsReclaimed /\ RegisteredCurrent

\* Every operation keeps the inductive invariant.
LEMMA IInvStep == IInv /\ [Next]_vars => IInv'
<1>. SUFFICES ASSUME IInv, [Next]_vars PROVE IInv'
  OBVIOUS
<1>0. TypeOK /\ TypeOK'
  BY TypeStep DEF IInv
<1>1. CASE UNCHANGED vars
  BY <1>1 DEF vars, IInv, TypeOK, Fresh, ExposedByMap, ListenerOwned, ChainsNotShared,
              ExposedChainsReclaimed, RegisteredCurrent, Owned, Owns
<1>2. CASE Next
  <2>. PICK p \in Ports : Step(p)
    BY <1>2 DEF Next
  <2>. USE <1>0 DEF IInv
  <2>1. CASE StartOk(p)
    <3>. DEFINE s == [stopped[p] EXCEPT !.isStarted = TRUE, !.err = FALSE]
    <3>1. /\ started[p] = NoServer /\ stopped[p] \in Server /\ stopped[p] # NoServer
          /\ started' = [started EXCEPT ![p] = s]
          /\ stopped' = [stopped EXCEPT ![p] = NoServer]
          /\ exposed' = exposed \union {stopped[p].chain}
          /\ UNCHANGED <<ctx, nextChain, registered>>
      BY <2>1 DEF StartOk, TypeOK
    <3>2. s \in Server /\ s # NoServer /\ s.chain = stopped[p].chain /\ s.isStarted
      BY <3>1 DEF Server
    <3>3. \A q \in Ports : q # p => listener'[q] = listener[q]
      BY <2>1 DEF StartOk, TypeOK
    <3>. HIDE DEF s
    <3>4. /\ started'[p] = s /\ stopped'[p] = NoServer
          /\ \A q \in Ports : q # p => started'[q] = started[q] /\ stopped'[q] = stopped[q]
      BY <3>1 DEF TypeOK
    <3>5. Fresh'
      BY <3>1, <3>2, <3>4 DEF Fresh
    <3>6. ExposedByMap'
      BY <3>1, <3>2, <3>4 DEF ExposedByMap, ChainsNotShared
    <3>7. ListenerOwned'
      BY <3>2, <3>3, <3>4 DEF ListenerOwned
    <3>8. ChainsNotShared'
      BY <3>1, <3>2, <3>4 DEF ChainsNotShared
    <3>9. ExposedChainsReclaimed'
      BY <3>1, <3>2, <3>4 DEF ExposedChainsReclaimed, Owned, Owns
    <3>10. RegisteredCurrent'
      BY <3>1, <3>2, <3>4 DEF RegisteredCurrent
    <3>. QED
      BY <3>5, <3>6, <3>7, <3>8, <3>9, <3>10
  <2>2. CASE StartFailed(p)
    <3>1. Fresh'
      BY <2>2 DEF StartFailed, Fresh, TypeOK, Server
    <3>2. ExposedByMap'
      BY <2>2 DEF StartFailed, ExposedByMap, Fresh, TypeOK, Server
    <3>3. ListenerOwned'
      BY <2>2 DEF StartFailed, ListenerOwned, TypeOK, Server
    <3>4. ChainsNotShared'
      BY <2>2 DEF StartFailed, ChainsNotShared, Fresh, TypeOK, Server
    <3>5. ExposedChainsReclaimed'
      BY <2>2 DEF StartFailed, ExposedChainsReclaimed, ExposedByMap, Fresh, ChainsNotShared, Owned, Owns, TypeOK, Server
    <3>6. RegisteredCurrent'
      BY <2>2 DEF StartFailed, RegisteredCurrent, Fresh, TypeOK, Server
    <3>. QED
      BY <3>1, <3>2, <3>3, <3>4, <3>5, <3>6
  <2>3. CASE StopOk(p)
    <3>1. Fresh'
      BY <2>3 DEF StopOk, stopServer, Fresh, TypeOK, Server, Chain
    <3>2. ExposedByMap'
      BY <2>3 DEF StopOk, stopServer, ExposedByMap, Fresh, TypeOK, Server
    <3>3. ListenerOwned'
      BY <2>3 DEF StopOk, stopServer, ListenerOwned, TypeOK, Server
    <3>4. ChainsNotShared'
      BY <2>3 DEF StopOk, stopServer, ChainsNotShared, Fresh, TypeOK, Server
    <3>5. ExposedChainsReclaimed'
      BY <2>3 DEF StopOk, stopServer, ExposedChainsReclaimed, ExposedByMap, Fresh, ChainsNotShared, Owned, Owns, TypeOK, Server
    <3>6. RegisteredCurrent'
      BY <2>3 DEF StopOk, stopServer, RegisteredCurrent, Fresh, TypeOK, Server
    <3>. QED
      BY <3>1, <3>2, <3>3, <3>4, <3>5, <3>6
  <2>4. CASE ShutdownTimesOut(p)
    <3>1. Fresh'
      BY <2>4 DEF ShutdownTimesOut, stopServer, Fresh, TypeOK, Server, Chain
    <3>2. ExposedByMap'
      BY <2>4 DEF ShutdownTimesOut, stopServer, ExposedByMap, Fresh, TypeOK, Server
    <3>3. ListenerOwned'
      BY <2>4 DEF ShutdownTimesOut, stopServer, ListenerOwned, TypeOK, Server
    <3>4. ChainsNotShared'
      BY <2>4 DEF ShutdownTimesOut, stopServer, ChainsNotShared, Fresh, TypeOK, Server
    <3>5. ExposedChainsReclaimed'
      BY <2>4 DEF ShutdownTimesOut, stopServer, ExposedChainsReclaimed, ExposedByMap, Fresh, ChainsNotShared, Owned, Owns, TypeOK, Server
    <3>6. RegisteredCurrent'
      BY <2>4 DEF ShutdownTimesOut, stopServer, RegisteredCurrent, Fresh, TypeOK, Server
    <3>. QED
      BY <3>1, <3>2, <3>3, <3>4, <3>5, <3>6
  <2>5. CASE DeleteStopped(p)
    <3>1. Fresh'
      BY <2>5 DEF DeleteStopped, Fresh, TypeOK, Server
    <3>2. ExposedByMap'
      BY <2>5 DEF DeleteStopped, ExposedByMap, Fresh, TypeOK, Server
    <3>3. ListenerOwned'
      BY <2>5 DEF DeleteStopped, ListenerOwned, TypeOK, Server
    <3>4. ChainsNotShared'
      BY <2>5 DEF DeleteStopped, ChainsNotShared, Fresh, TypeOK, Server
    <3>5. ExposedChainsReclaimed'
      BY <2>5 DEF DeleteStopped, ExposedChainsReclaimed, ExposedByMap, Fresh, ChainsNotShared, Owned, Owns, TypeOK, Server
    <3>6. RegisteredCurrent'
      BY <2>5 DEF DeleteStopped, RegisteredCurrent, Fresh, TypeOK, Server
    <3>. QED
      BY <3>1, <3>2, <3>3, <3>4, <3>5, <3>6
  <2>6. CASE DeleteStarted(p)
    <3>1. Fresh'
      BY <2>6 DEF DeleteStarted, stopServer, Fresh, TypeOK, Server, Chain
    <3>2. ExposedByMap'
      BY <2>6 DEF DeleteStarted, stopServer, ExposedByMap, Fresh, TypeOK, Server
    <3>3. ListenerOwned'
      BY <2>6 DEF DeleteStarted, stopServer, ListenerOwned, TypeOK, Server
    <3>4. ChainsNotShared'
      BY <2>6 DEF DeleteStarted, stopServer, ChainsNotShared, Fresh, TypeOK, Server
    <3>5. ExposedChainsReclaimed'
      BY <2>6 DEF DeleteStarted, stopServer, ExposedChainsReclaimed, ExposedByMap, Fresh, ChainsNotShared, Owned, Owns, TypeOK, Server
    <3>6. RegisteredCurrent'
      BY <2>6 DEF DeleteStarted, stopServer, RegisteredCurrent, Fresh, TypeOK, Server
    <3>. QED
      BY <3>1, <3>2, <3>3, <3>4, <3>5, <3>6
  <2>7. ASSUME NEW conf \in Requests, AddHttpServer(p, conf) PROVE IInv'
    <3>1. Fresh'
      BY <2>7, BuiltServer DEF AddHttpServer, buildHandlerChain, Buildable, Chain, Fresh, TypeOK, Server
    <3>2. ExposedByMap'
      BY <2>7, BuiltServer DEF AddHttpServer, buildHandlerChain, Buildable, Chain, ExposedByMap, Fresh, TypeOK, Server
    <3>3. ListenerOwned'
      BY <2>7, BuiltServer DEF AddHttpServer, buildHandlerChain, Buildable, Chain, ListenerOwned, TypeOK, Server
    <3>4. ChainsNotShared'
      BY <2>7, BuiltServer DEF AddHttpServer, buildHandlerChain, Buildable, Chain, ChainsNotShared, Fresh, TypeOK, Server
    <3>5. ExposedChainsReclaimed'
      BY <2>7, BuiltServer DEF AddHttpServer, buildHandlerChain, Buildable, Chain, ExposedChainsReclaimed, ExposedByMap, Fresh, ChainsNotShared, Owned, Owns, TypeOK, Server
    <3>6. RegisteredCurrent'
      BY <2>7, BuiltServer DEF AddHttpServer, buildHandlerChain, Buildable, Chain, RegisteredCurrent, Fresh, TypeOK, Server
    <3>. QED
      BY <3>1, <3>2, <3>3, <3>4, <3>5, <3>6
  <2>8. ASSUME NEW conf \in Requests, HotSwapOk(p, conf) PROVE IInv'
    <3>. DEFINE s == Lookup(p)
                t == updateServerMetadata(updateHandler(s), conf)
    <3>1. /\ s \in Server /\ s # NoServer
          /\ s.chain \in Chain /\ nextChain \in Chain
          /\ listener' = listener
      BY <2>8 DEF HotSwapOk, Lookup, Buildable, TypeOK, Chain, Server
    <3>2. /\ t # NoServer /\ t.chain = nextChain /\ t.isStarted = s.isStarted
      <4>1. t \in Server
        BY <3>1 DEF Server, updateHandler, updateServerMetadata
      <4>. QED
        BY <3>1, <4>1 DEF Server, updateHandler, updateServerMetadata
    <3>3. /\ ctx' = [ctx EXCEPT ![nextChain] = "live", ![s.chain] = "cancelled"]
          /\ nextChain' = nextChain + 1
          /\ registered' = [registered EXCEPT ![p] = nextChain]
      BY <2>8 DEF HotSwapOk
    <3>4. s.chain < nextChain
      BY <3>1 DEF Lookup, Fresh
    <3>5. CASE started[p] # NoServer
      <4>1. /\ started' = [started EXCEPT ![p] = t]
            /\ stopped' = stopped
            /\ exposed' = exposed \union {nextChain}
            /\ s = started[p]
        BY <2>8, <3>5 DEF HotSwapOk, Lookup
      <4>2. /\ started'[p] = t
            /\ \A q \in Ports : q # p => started'[q] = started[q]
        BY <4>1 DEF TypeOK
      <4>. HIDE DEF s, t
      <4>3. Fresh'
        <5>1. \A q \in Ports : /\ started'[q] # NoServer => started'[q].chain < nextChain'
                               /\ stopped'[q] # NoServer => stopped'[q].chain < nextChain'
          <6>1. \A c \in Chain : c < nextChain => c < nextChain'
            BY <3>1, <3>3 DEF Chain
          <6>2. \A q \in Ports : /\ started[q] # NoServer => started[q].chain \in Chain
                                 /\ stopped[q] # NoServer => stopped[q].chain \in Chain
            BY DEF TypeOK, Server
          <6>3. nextChain < nextChain'
            BY <3>1, <3>3 DEF Chain
          <6>4. \A q \in Ports : /\ started[q] # NoServer => started[q].chain < nextChain'
                                 /\ stopped[q] # NoServer => stopped[q].chain < nextChain'
            BY <6>1, <6>2 DEF Fresh
          <6>. QED
            BY <3>2, <4>1, <4>2, <6>3, <6>4
        <5>2. \A c \in exposed' : c < nextChain'
          BY <3>1, <3>3, <4>1 DEF Fresh, TypeOK, Chain
        <5>3. \A c \in Chain : c >= nextChain' => ctx'[c] = "unbuilt"
          BY <3>1, <3>3, <3>4 DEF Fresh, TypeOK, Chain
        <5>. QED
          BY <5>1, <5>2, <5>3 DEF Fresh, Chain
      <4>4. ExposedByMap'
        BY <3>1, <3>2, <3>3, <3>4, <3>5, <4>1, <4>2 DEF ExposedByMap, ChainsNotShared, Fresh, TypeOK, Chain
      <4>5. ListenerOwned'
        BY <3>1, <3>2, <3>5, <4>1, <4>2 DEF ListenerOwned, TypeOK
      <4>6. ChainsNotShared'
        BY <3>1, <3>2, <3>4, <4>1, <4>2 DEF ChainsNotShared, Fresh, Chain
      <4>7. ExposedChainsReclaimed'
        BY <3>1, <3>2, <3>3, <3>4, <3>5, <4>1, <4>2 DEF ExposedChainsReclaimed, Owned, Owns, Fresh, TypeOK, Chain
      <4>8. RegisteredCurrent'
        BY <3>1, <3>2, <3>3, <3>4, <4>1, <4>2 DEF RegisteredCurrent, Fresh, TypeOK, Chain, Server
      <4>. QED
        BY <4>3, <4>4, <4>5, <4>6, <4>7, <4>8
    <3>6. CASE started[p] = NoServer
      <4>1. /\ stopped' = [stopped EXCEPT ![p] = t]
            /\ started' = started
            /\ exposed' = exposed
            /\ s = stopped[p]
        BY <2>8, <3>6 DEF HotSwapOk, Lookup
      <4>2. /\ stopped'[p] = t
            /\ \A q \in Ports : q # p => stopped'[q] = stopped[q]
        BY <4>1 DEF TypeOK
      <4>. HIDE DEF s, t
      <4>3. Fresh'
        <5>1. \A q \in Ports : /\ started'[q] # NoServer => started'[q].chain < nextChain'
                               /\ stopped'[q] # NoServer => stopped'[q].chain < nextChain'
          <6>1. \A c \in Chain : c < nextChain => c < nextChain'
            BY <3>1, <3>3 DEF Chain
          <6>2. \A q \in Ports : /\ started[q] # NoServer => started[q].chain \in Chain
                                 /\ stopped[q] # NoServer => stopped[q].chain \in Chain
            BY DEF TypeOK, Server
          <6>3. nextChain < nextChain'
            BY <3>1, <3>3 DEF Chain
          <6>4. \A q \in Ports : /\ started[q] # NoServer => started[q].chain < nextChain'
                                 /\ stopped[q] # NoServer => stopped[q].chain < nextChain'
            BY <6>1, <6>2 DEF Fresh
          <6>. QED
            BY <3>2, <4>1, <4>2, <6>3, <6>4
        <5>2. \A c \in exposed' : c < nextChain'
          BY <3>1, <3>3, <4>1 DEF Fresh, TypeOK, Chain
        <5>3. \A c \in Chain : c >= nextChain' => ctx'[c] = "unbuilt"
          BY <3>1, <3>3, <3>4 DEF Fresh, TypeOK, Chain
        <5>. QED
          BY <5>1, <5>2, <5>3 DEF Fresh, Chain
      <4>4. ExposedByMap'
        BY <3>1, <3>2, <3>3, <3>4, <3>6, <4>1, <4>2 DEF ExposedByMap, ChainsNotShared, Fresh, TypeOK, Chain
      <4>5. ListenerOwned'
        BY <3>1, <3>2, <3>6, <4>1, <4>2 DEF ListenerOwned, TypeOK
      <4>6. ChainsNotShared'
        BY <3>1, <3>2, <3>4, <4>1, <4>2 DEF ChainsNotShared, Fresh, Chain
      <4>7. ExposedChainsReclaimed'
        BY <3>1, <3>2, <3>3, <3>4, <3>6, <4>1, <4>2 DEF ExposedChainsReclaimed, Owned, Owns, Fresh, TypeOK, Chain
      <4>8. RegisteredCurrent'
        BY <3>1, <3>2, <3>3, <3>4, <4>1, <4>2 DEF RegisteredCurrent, Fresh, TypeOK, Chain, Server
      <4>. QED
        BY <4>3, <4>4, <4>5, <4>6, <4>7, <4>8
    <3>. QED
      BY <3>5, <3>6
  <2>9. CASE ServeFails(p) \/ OrphanCollected(p)
    BY <2>9 DEF ServeFails, OrphanCollected, Fresh, ExposedByMap, ListenerOwned, ChainsNotShared,
                ExposedChainsReclaimed, RegisteredCurrent, Owned, Owns, TypeOK
  <2>. QED
    BY <1>1, <2>1, <2>2, <2>3, <2>4, <2>5, <2>6, <2>7, <2>8, <2>9
    DEF Step, StopTimedOut, DeleteOk, DeleteFailed
<1>. QED
  BY <1>1, <1>2

\* The empty registry satisfies the inductive invariant.
LEMMA IInvInit == Init => IInv
BY DEF Init, IInv, TypeOK, Fresh, ExposedByMap, ListenerOwned, ChainsNotShared,
       ExposedChainsReclaimed, RegisteredCurrent, Chain

\* The inductive invariant holds in every reachable state of the registry.
THEOREM IInvCorrect == Spec => []IInv
BY IInvInit, IInvStep, PTL DEF Spec

\* No sequence of operations and failures leaves a port answering requests outside
\* startedHttpServers (proxy.go: StartHttpProxy, StopHttpProxy, DeleteHttpProxy).
THEOREM ListenerOwnedCorrect == Spec => []ListenerOwned
<1>1. IInv => ListenerOwned
  BY DEF IInv
<1>. QED
  BY <1>1, IInvCorrect, PTL

\* No two server objects share a chain, whatever is added, swapped or rebuilt.
THEOREM ChainsNotSharedCorrect == Spec => []ChainsNotShared
<1>1. IInv => ChainsNotShared
  BY DEF IInv
<1>. QED
  BY <1>1, IInvCorrect, PTL

\* A chain that a started server has used is cancelled by the time no server has
\* it any more: stop() and updateHandler leak none of them.
THEOREM ExposedReclaimedCorrect == Spec => []ExposedChainsReclaimed
<1>1. IInv => ExposedChainsReclaimed
  BY DEF IInv
<1>. QED
  BY <1>1, IInvCorrect, PTL

\* The global dispatcher has a handler for every server in the registry.
THEOREM RegisteredCorrect == Spec => []RegisteredCurrent
<1>1. IInv => RegisteredCurrent
  BY DEF IInv
<1>. QED
  BY <1>1, IInvCorrect, PTL

-----------------------------------------------------------------------------
\* No operation ends the background work of a server that goes on serving with
\* the handler it has.
THEOREM BackgroundKeptCorrect == Spec => BackgroundKept
<1>. DEFINE Kept(p) ==
        (/\ listener[p] = "serving" /\ listener'[p] = "serving"
         /\ started[p] # NoServer /\ started'[p] # NoServer
         /\ started'[p].chain = started[p].chain)
        => ctx'[started[p].chain] = ctx[started[p].chain]
<1>1. IInv /\ [Next]_vars => [\A p \in Ports : Kept(p)]_vars
  <2>. SUFFICES ASSUME IInv, Next, NEW q \in Ports PROVE Kept(q)
    BY DEF Kept
  <2>. PICK p \in Ports : Step(p)
    BY DEF Next
  <2>. USE DEF IInv
  <2>1. CASE StartOk(p) \/ StartFailed(p) \/ DeleteStopped(p) \/ ServeFails(p) \/ OrphanCollected(p)
    BY <2>1 DEF StartOk, StartFailed, DeleteStopped, ServeFails, OrphanCollected
  <2>2. CASE StopOk(p) \/ ShutdownTimesOut(p) \/ DeleteStarted(p)
    <3>1. /\ started[p] # NoServer
          /\ ctx' = [ctx EXCEPT ![started[p].chain] = "cancelled"]
          /\ listener'[p] # "serving"
      BY <2>2 DEF StopOk, ShutdownTimesOut, DeleteStarted, stopServer, TypeOK
    <3>2. CASE q = p
      BY <3>1, <3>2
    <3>3. CASE q # p
      BY <3>1, <3>3 DEF ChainsNotShared, TypeOK, Server
    <3>. QED
      BY <3>2, <3>3
  <2>3. ASSUME NEW conf \in Requests, AddHttpServer(p, conf) PROVE Kept(q)
    BY <2>3 DEF AddHttpServer, buildHandlerChain, Buildable, Fresh, TypeOK, Server, Chain
  <2>4. ASSUME NEW conf \in Requests, HotSwapOk(p, conf) PROVE Kept(q)
    <3>. DEFINE s == Lookup(p)
    <3>1. /\ s # NoServer /\ s.chain \in Chain /\ nextChain \in Chain
          /\ ctx' = [ctx EXCEPT ![nextChain] = "live", ![s.chain] = "cancelled"]
      BY <2>4 DEF HotSwapOk, Lookup, Buildable, TypeOK, Chain, Server
    <3>2. SUFFICES ASSUME started[q] # NoServer, started'[q].chain = started[q].chain
                   PROVE  started[q].chain # s.chain /\ started[q].chain # nextChain
      BY <3>1, <3>2 DEF TypeOK, Server
    <3>3. started[q].chain # nextChain
      BY <3>1, <3>2 DEF Fresh, Chain
    <3>4. started[q].chain # s.chain
      <4>1. CASE q = p
        <5>1. s = started[p] /\ started' = [started EXCEPT ![p] = updateServerMetadata(updateHandler(s), conf)]
          BY <2>4, <3>2, <4>1 DEF HotSwapOk, Lookup
        <5>2. started'[p].chain = nextChain
          BY <5>1, <3>1, <3>2, <4>1 DEF TypeOK, Server, updateHandler, updateServerMetadata
        <5>. QED
          BY <5>2, <3>2, <3>3, <4>1
      <4>2. CASE q # p
        BY <3>1, <3>2, <4>2 DEF Lookup, ChainsNotShared
      <4>. QED
        BY <4>1, <4>2
    <3>. QED
      BY <3>3, <3>4
  <2>5. CASE DeleteFailed(p) /\ UNCHANGED vars
    BY <2>5 DEF vars
  <2>. QED
    BY <2>1, <2>2, <2>3, <2>4, <2>5 DEF Step, StopTimedOut, DeleteOk, DeleteFailed
<1>. QED
  BY <1>1, IInvCorrect, PTL DEF Spec, BackgroundKept
-----------------------------------------------------------------------------
\* The mapping, read at one port.
LEMMA ServingAt ==
    ASSUME NEW q \in Ports
    PROVE  Serving[q] = IF listener[q] = "serving" /\ started[q] # NoServer THEN started[q].chain ELSE 0
BY DEF Serving

\* A port that answers does so with the chain of its started server, which has
\* been exposed and answers nowhere else.
LEMMA ServingOwned ==
    ASSUME IInv, NEW q \in Ports, Serving[q] # 0
    PROVE  /\ started[q] \in Server /\ started[q] # NoServer
           /\ Serving[q] = started[q].chain /\ Serving[q] \in exposed
BY ServingAt DEF IInv, TypeOK, ExposedByMap

\* Every operation of the registry is a step of Exposure or leaves what it shows.
LEMMA ExposureStep == IInv /\ [Next]_vars => [Public!Next]_(Public!exposure)
<1>. SUFFICES ASSUME IInv, [Next]_vars
              PROVE  Public!Next \/ (Serving' = Serving /\ exposed' = exposed)
  BY DEF Public!exposure
<1>0. TypeOK /\ TypeOK'
  BY TypeStep DEF IInv
<1>. DEFINE Same == Serving' = Serving /\ exposed' = exposed
            Held(q) == IF listener[q] = "serving" /\ started[q] # NoServer THEN started[q].chain ELSE 0
            Changes(p, c) == Serving' = [Serving EXCEPT ![p] = c]
<1>1. CASE UNCHANGED vars
  BY <1>1 DEF vars, Serving
<1>2. CASE Next
  <2>. PICK p \in Ports : Step(p)
    BY <1>2 DEF Next
  <2>0. ASSUME NEW c, \A q \in Ports : q # p => listener'[q] = listener[q] /\ started'[q] = started[q],
               c = Held(p)'
        PROVE  Changes(p, c)
    BY <2>0 DEF Serving
  <2>1. CASE StartOk(p)
    <3>. DEFINE c == stopped[p].chain
    <3>1. /\ stopped[p] \in Server /\ stopped[p] # NoServer /\ started[p] = NoServer
          /\ exposed' = exposed \union {c} /\ c \in Chain
          /\ \A q \in Ports : q # p => listener'[q] = listener[q] /\ started'[q] = started[q]
      BY <2>1, <1>0 DEF StartOk, TypeOK, Server
    <3>2. started'[p] # NoServer /\ started'[p].chain = c
      <4>. DEFINE s == [stopped[p] EXCEPT !.isStarted = TRUE, !.err = FALSE]
      <4>1. s \in Server /\ s # NoServer /\ s.chain = c
        BY <3>1 DEF Server
      <4>2. started'[p] = s
        BY <2>1, <1>0 DEF StartOk, TypeOK
      <4>. QED
        BY <4>1, <4>2
    <3>3. Serving[p] = 0
      BY <3>1 DEF Serving
    <3>4. CASE listener'[p] = "serving"
      <4>1. Changes(p, c)
        BY <2>0, <3>1, <3>2, <3>4
      <4>2. \A q \in Ports : Serving[q] # c
        <5>. SUFFICES ASSUME NEW q \in Ports, Serving[q] = c PROVE FALSE
          OBVIOUS
        <5>1. Serving[q] # 0
          BY <3>1 DEF Chain
        <5>. QED
          BY <5>1, <3>1, ServingOwned DEF IInv, ChainsNotShared
      <4>3. Public!Open(p, c)
        BY <3>1, <3>3, <4>1, <4>2 DEF Public!Open
      <4>. QED
        BY <4>3, <3>1 DEF Public!Next
    <3>5. CASE listener'[p] # "serving"
      <4>1. Changes(p, 0)
        BY <2>0, <3>1, <3>5
      <4>2. Serving' = Serving
        BY <4>1, <3>3 DEF Serving
      <4>3. CASE c \in exposed
        BY <4>2, <4>3, <3>1
      <4>4. CASE c \notin exposed
        BY <4>2, <4>4, <3>1 DEF Public!Next, Public!Waste
      <4>. QED
        BY <4>3, <4>4
    <3>. QED
      BY <3>4, <3>5
  <2>2. CASE StartFailed(p) \/ DeleteStopped(p) \/ OrphanCollected(p)
    <3>1. \A q \in Ports : Held(q)' = Held(q)
      BY <2>2, <1>0 DEF StartFailed, DeleteStopped, OrphanCollected, TypeOK
    <3>. QED
      BY <2>2, <3>1 DEF StartFailed, DeleteStopped, OrphanCollected, Serving
  <2>3. CASE StopOk(p) \/ ShutdownTimesOut(p) \/ DeleteStarted(p) \/ ServeFails(p)
    <3>1. /\ exposed' = exposed /\ listener'[p] # "serving"
          /\ \A q \in Ports : q # p => listener'[q] = listener[q] /\ started'[q] = started[q]
      BY <2>3, <1>0 DEF StopOk, ShutdownTimesOut, DeleteStarted, ServeFails, stopServer, TypeOK
    <3>2. Changes(p, 0)
      BY <2>0, <3>1
    <3>3. CASE Serving[p] = 0
      <4>1. Serving' = Serving
        BY <3>2, <3>3 DEF Serving
      <4>. QED
        BY <4>1, <3>1
    <3>4. CASE Serving[p] # 0
      BY <3>1, <3>2, <3>4 DEF Public!Close, Public!Next
    <3>. QED
      BY <3>3, <3>4
  <2>4. ASSUME NEW conf \in Requests, AddHttpServer(p, conf) PROVE Same
    BY <2>4 DEF AddHttpServer, Serving
  <2>5. ASSUME NEW conf \in Requests, HotSwapOk(p, conf) PROVE Public!Next \/ Same
    <3>1. listener' = listener /\ nextChain \in Chain /\ nextChain \notin exposed
      BY <2>5, <1>0 DEF HotSwapOk, Buildable, Chain, TypeOK, IInv, Fresh
    <3>2. CASE started[p] = NoServer
      BY <2>5, <3>1, <3>2 DEF HotSwapOk, Serving
    <3>3. CASE started[p] # NoServer
      <4>1. /\ started' = [started EXCEPT ![p] = updateServerMetadata(updateHandler(started[p]), conf)]
            /\ exposed' = exposed \union {nextChain}
        BY <2>5, <3>3 DEF HotSwapOk, Lookup
      <4>2. started'[p] # NoServer /\ started'[p].chain = nextChain
        <5>1. started[p] \in Server
          BY <1>0, <3>3 DEF TypeOK
        <5>2. conf \in HTTPListener /\ nextChain \in Chain
          BY <3>1
        <5>3. /\ updateServerMetadata(updateHandler(started[p]), conf) \in Server
              /\ updateServerMetadata(updateHandler(started[p]), conf).chain = nextChain
          BY <5>1, <5>2 DEF Server, updateHandler, updateServerMetadata
        <5>. QED
          BY <5>3, <4>1, <1>0 DEF TypeOK
      <4>3. \A q \in Ports : q # p => listener'[q] = listener[q] /\ started'[q] = started[q]
        BY <3>1, <4>1, <1>0 DEF TypeOK
      <4>4. CASE listener[p] = "serving"
        <5>1. Changes(p, nextChain)
          BY <2>0, <3>1, <4>2, <4>3, <4>4
        <5>2. Serving[p] # 0
          BY <4>4, <3>3, <1>0 DEF Serving, TypeOK, Server, Chain
        <5>. QED
          BY <5>1, <5>2, <3>1, <4>1 DEF Public!Swap, Public!Next
      <4>5. CASE listener[p] # "serving"
        <5>1. Changes(p, 0)
          BY <2>0, <3>1, <4>3, <4>5
        <5>2. Serving' = Serving
          BY <5>1, <4>5 DEF Serving
        <5>. QED
          BY <5>2, <3>1, <4>1 DEF Public!Waste, Public!Next
      <4>. QED
        BY <4>4, <4>5
    <3>. QED
      BY <3>2, <3>3
  <2>6. CASE DeleteFailed(p) /\ UNCHANGED vars
    BY <2>6 DEF vars, Serving
  <2>. QED
    BY <2>1, <2>2, <2>3, <2>4, <2>5, <2>6 DEF Step, StopTimedOut, DeleteOk, DeleteFailed
<1>. QED
  BY <1>1, <1>2

\* The registry implements Exposure for every set of ports and every bound: a chain
\* answers on one port only, and a port that answers goes over to a chain that is
\* new in one step.
THEOREM ImplementsExposure == Spec => ExposureSpec
<1>1. Init => Public!Init
  BY DEF Init, Public!Init, Serving
<1>. QED
  BY <1>1, ExposureStep, IInvCorrect, PTL DEF Spec, ExposureSpec, Public!Spec

HIDE ToriiAssumption DEF ToriiAssumption

-----------------------------------------------------------------------------
(* The handlers.                                                           *)

\* Lists of listeners, as they are collected, saved and loaded.
Lists == [Ports -> Seq(HTTPListener)]
FrameType == [op : {"none", "delete", "create", "edit"}, port : Ports, conf : Requests,
              was : BOOLEAN, data : Lists]
FileType == [state : {"ok", "blank", "torn"}, confs : Lists]

\* The types of the handlers' state, the contents of the lists included.
HandlersType ==
    /\ running \in BOOLEAN
    /\ pc \in [Admins -> Labels]
    /\ frame \in [Admins -> FrameType]
    /\ shared \in Lists
    /\ file \in FileType
    /\ creates \in [Ports -> 0 .. MaxCreates]
    /\ dirty \in BOOLEAN
    /\ deleted \subseteq Ports

\* A process that is down serves no request.
DownIsQuiet == ~running => Quiet

SvcInv == IInv /\ HandlersType /\ DownIsQuiet /\ EditsDoNotMultiply

-----------------------------------------------------------------------------
\* The listeners of the registry are lists of listeners.
LEMMA ListingType ==
    ASSUME TypeOK
    PROVE  GetAllHTTPConfigs \in Lists
<1>1. ASSUME NEW s \in Server \union {NoServer} PROVE ConfOf(s) \in Seq(HTTPListener)
  BY DEF ConfOf, Server
<1>2. ASSUME NEW p \in Ports PROVE ConfOf(stopped[p]) \o ConfOf(started[p]) \in Seq(HTTPListener)
  <2>1. ConfOf(stopped[p]) \in Seq(HTTPListener) /\ ConfOf(started[p]) \in Seq(HTTPListener)
    BY <1>1 DEF TypeOK
  <2> QED BY <2>1
<1> QED BY <1>2 DEF GetAllHTTPConfigs, Lists

\* The frames the handlers start with.
LEMMA FrameIsTyped ==
    /\ NoListeners \in Lists
    /\ NoFrame \in FrameType
    /\ \A p \in Ports, c \in Requests, op \in {"none", "delete", "create", "edit"} :
         /\ Frame(op, p, c) \in FrameType
         /\ Frame(op, p, c).port = p
         /\ Frame(op, p, c).conf = c
    /\ NoFrame.conf \in Requests
<1>1. NoListeners \in Lists
  BY DEF NoListeners, Lists
<1>2. ASSUME NEW p \in Ports, NEW c \in Requests, NEW op \in {"none", "delete", "create", "edit"}
      PROVE  /\ Frame(op, p, c) \in FrameType
             /\ Frame(op, p, c).port = p
             /\ Frame(op, p, c).conf = c
  BY <1>1 DEF Frame, FrameType
<1>3. (CHOOSE p \in Ports : TRUE) \in Ports /\ (CHOOSE c \in Requests : TRUE) \in Requests
  BY ServiceAssumption DEF ServiceAssumption
<1>4. NoFrame \in FrameType
  BY <1>2, <1>3 DEF NoFrame
<1> QED BY <1>1, <1>2, <1>4 DEF FrameType

\* A process that has just come up, before the first request.
LEMMA SvcInvInit == SvcInit => SvcInv
<1> SUFFICES ASSUME SvcInit PROVE SvcInv
  OBVIOUS
<1>1. IInv
  BY IInvInit DEF SvcInit
<1>2. HandlersType
  <2>1. /\ pc \in [Admins -> Labels] /\ frame \in [Admins -> FrameType]
        /\ shared \in Lists /\ deleted \subseteq Ports
    BY FrameIsTyped DEF SvcInit, Labels
  <2>2. file \in FileType
    BY FrameIsTyped DEF SvcInit, File, FileType
  <2>3. creates \in [Ports -> 0 .. MaxCreates]
    BY ServiceAssumption DEF SvcInit, ServiceAssumption
  <2>4. running \in BOOLEAN /\ dirty \in BOOLEAN
    BY Zenon DEF SvcInit
  <2> QED BY <2>1, <2>2, <2>3, <2>4 DEF HandlersType
<1>3. DownIsQuiet
  BY DEF SvcInit, DownIsQuiet, Quiet
<1>4. EditsDoNotMultiply
  <2> SUFFICES ASSUME NEW p \in Ports PROVE Servers(p) + Cardinality(PendingAdds(p)) <= creates[p]
    BY DEF EditsDoNotMultiply
  <2>1. PendingAdds(p) = {}
    BY DEF SvcInit, PendingAdds
  <2>2. Servers(p) = 0 /\ creates[p] = 0
    BY DEF SvcInit, Init, Servers
  <2> QED BY <2>1, <2>2, FS_EmptySet
<1> QED BY <1>1, <1>2, <1>3, <1>4 DEF SvcInv

-----------------------------------------------------------------------------
\* What a handler does to the registry is one of the registry's operations, or
\* nothing.
LEMMA HandlersUseRegistry ==
    ASSUME HandlersType, NEW a \in Admins, Handler(a)
    PROVE  [Next]_vars
<1>1. Port(a) \in Ports /\ Conf(a) \in Requests
  BY DEF HandlersType, FrameType, Port, Conf
<1>2. ASSUME NEW p \in Ports, HandleStart(a, p) \/ HandleStop(a, p) \/ HandleDelete(a, p)
      PROVE  [Next]_vars
  BY <1>2 DEF HandleStart, HandleStop, HandleDelete, Next, Step
<1>3. ASSUME NEW p \in Ports, NEW c \in Requests, HandleCreate(a, p, c) \/ EditCheck(a, p, c)
      PROVE  [Next]_vars
  BY <1>3 DEF HandleCreate, EditCheck, Next, Step
<1>4. CASE EditIsStarted(a) \/ PersistCollect(a) \/ PersistAssign(a) \/ PersistCopy(a)
           \/ PersistOpen(a) \/ PersistWrite(a)
  BY <1>4 DEF EditIsStarted, PersistCollect, PersistAssign, PersistCopy, PersistOpen, PersistWrite
<1>5. CASE EditStop(a) \/ EditDelete(a) \/ EditStart(a)
  BY <1>1, <1>5 DEF EditStop, EditDelete, EditStart, StopRefused, StartRefused, Next, Step
<1>6. CASE EditAdd(a) \/ EditSwap(a)
  BY <1>1, <1>6 DEF EditAdd, EditSwap, AddFailed, HotSwapSkipped, HotSwapFailed, Next, Step
<1> QED BY <1>2, <1>3, <1>4, <1>5, <1>6 DEF Handler

-----------------------------------------------------------------------------
\* There are enough chain numbers for the ports: BootChain gives each its own.
LEMMA BootChainNumbers ==
    /\ BootChain \in [Ports -> Chain]
    /\ \A p \in Ports : BootChain[p] < Cardinality(Ports) + 1
    /\ \A p, q \in Ports : BootChain[p] = BootChain[q] => p = q
    /\ Cardinality(Ports) \in Nat /\ Cardinality(Ports) <= MaxChains
<1> DEFINE N == Cardinality(Ports)
<1>1. N \in Nat /\ N <= MaxChains /\ ExistsBijection(1 .. N, Ports)
  BY FS_CardinalityType, ServiceAssumption DEF ServiceAssumption
<1> HIDE DEF N
<1>2. PICK f : f \in Bijection(Ports, 1 .. N)
  BY <1>1, Fun_ExistsBijSymmetric DEF ExistsBijection
<1>3. f \in [Ports -> 1 .. N] /\ \A p, q \in Ports : f[p] = f[q] => p = q
  BY <1>2 DEF Bijection, Injection, IsInjective
<1>4. /\ BootChain \in [Ports -> 1 .. N]
      /\ \A p, q \in Ports : BootChain[p] = BootChain[q] => p = q
  BY <1>3 DEF BootChain, N
<1>5. 1 .. N \subseteq Chain /\ \A n \in 1 .. N : n < N + 1
  BY <1>1, ToriiAssumption DEF Chain, ToriiAssumption
<1> QED BY <1>1, <1>4, <1>5 DEF N

\* The listener that survives of several on a port.
LEMMA SurvivorType ==
    ASSUME NEW confs \in Seq(HTTPListener), confs # <<>>
    PROVE  Survivor(confs) \in HTTPListener
<1>1. confs[Len(confs)] \in HTTPListener
  OBVIOUS
<1> QED BY <1>1, DefaultsType DEF Survivor

\* A server object as initializeHttpNetworkStackFromConf makes it.
LEMMA LoadedServer ==
    ASSUME NEW conf \in HTTPListener, NEW c \in Chain, NEW ok \in BOOLEAN, NEW failed \in BOOLEAN,
           NEW s, s = [built |-> SocketOf(conf), conf |-> conf, chain |-> c,
                       isStarted |-> ok, err |-> failed]
    PROVE  s \in Server /\ s # NoServer /\ s.chain = c /\ s.isStarted = ok /\ s.conf = conf
           /\ s.built = SocketOf(conf)
<1>1. SocketOf(conf) \in Socket
  BY DEF SocketOf, Socket, HTTPListener
<1>2. s \in Server
  BY <1>1 DEF Server
<1>3. s # NoServer
  BY <1>2, ToriiAssumption DEF ToriiAssumption
<1> QED BY <1>2, <1>3

\* What Boot brings up, port by port.
LEMMA BootBringsUp ==
    ASSUME HandlersType, NEW up \in SUBSET Ports, Boot(up), NEW p \in Ports
    PROVE  /\ started'[p] \in Server \union {NoServer} /\ stopped'[p] \in Server \union {NoServer}
           /\ started'[p] # NoServer <=> p \in up
           /\ stopped'[p] # NoServer <=> p \notin up /\ file.confs[p] # <<>>
           /\ started'[p] # NoServer =>
                /\ file.confs[p] # <<>>
                /\ started'[p].chain = BootChain[p] /\ started'[p].isStarted
                /\ started'[p].conf = Survivor(file.confs[p])
                /\ started'[p].built = SocketOf(Survivor(file.confs[p]))
           /\ stopped'[p] # NoServer =>
                /\ stopped'[p].chain = BootChain[p] /\ ~stopped'[p].isStarted
                /\ stopped'[p].conf = Survivor(file.confs[p])
                /\ stopped'[p].built = SocketOf(Survivor(file.confs[p]))
<1> DEFINE inFile == {q \in Ports : file.confs[q] # <<>>}
           new(q) == [built |-> SocketOf(Survivor(file.confs[q])), conf |-> Survivor(file.confs[q]),
                      chain |-> BootChain[q], isStarted |-> q \in up, err |-> q \notin up]
<1>1. /\ up \subseteq inFile
      /\ stopped' = [q \in Ports |-> IF q \in inFile \ up THEN new(q) ELSE NoServer]
      /\ started' = [q \in Ports |-> IF q \in up THEN new(q) ELSE NoServer]
  BY DEF Boot
<1>2. ASSUME p \in inFile
      PROVE  /\ new(p) \in Server /\ new(p) # NoServer /\ new(p).chain = BootChain[p]
             /\ new(p).isStarted = (p \in up)
             /\ new(p).conf = Survivor(file.confs[p])
             /\ new(p).built = SocketOf(Survivor(file.confs[p]))
  <2> DEFINE conf == Survivor(file.confs[p])
             ok == p \in up
             failed == p \notin up
             s == new(p)
  <2>1. conf \in HTTPListener
    BY <1>2, SurvivorType DEF HandlersType, FileType, Lists
  <2>2. BootChain[p] \in Chain
    BY BootChainNumbers
  <2>3. ok \in BOOLEAN /\ failed \in BOOLEAN
    OBVIOUS
  <2>4. s = [built |-> SocketOf(conf), conf |-> conf, chain |-> BootChain[p],
             isStarted |-> ok, err |-> failed]
    BY Zenon
  <2> HIDE DEF conf, ok, failed, s
  <2>5. /\ s \in Server /\ s # NoServer /\ s.chain = BootChain[p] /\ s.isStarted = ok
        /\ s.conf = conf /\ s.built = SocketOf(conf)
    BY <2>1, <2>2, <2>3, <2>4, LoadedServer
  <2> QED BY <2>5, Zenon DEF conf, ok, s
<1> HIDE DEF new
<1>3. CASE p \in up
  BY <1>1, <1>2, <1>3
<1>4. CASE p \in inFile /\ p \notin up
  BY <1>1, <1>2, <1>4
<1>5. CASE p \notin inFile
  BY <1>1, <1>5
<1> QED BY <1>3, <1>4, <1>5

\* The registry that a new process builds from the file.
LEMMA BootKeeps ==
    ASSUME HandlersType, NEW up \in SUBSET Ports, Boot(up)
    PROVE  IInv'
<1> DEFINE inFile == {q \in Ports : file.confs[q] # <<>>}
           N == Cardinality(Ports)
<1>1. /\ up \subseteq inFile
      /\ listener' = [p \in Ports |-> IF p \in up THEN "serving" ELSE "closed"]
      /\ ctx' = [c \in Chain |-> IF \E p \in inFile : c = BootChain[p] THEN "live" ELSE "unbuilt"]
      /\ nextChain' = N + 1
      /\ registered' = [p \in Ports |-> IF p \in inFile THEN BootChain[p] ELSE 0]
      /\ exposed' = {BootChain[p] : p \in up}
  BY DEF Boot
<1>2. /\ N \in Nat /\ N <= MaxChains /\ MaxChains \in Nat
      /\ BootChain \in [Ports -> Chain] /\ \A p \in Ports : BootChain[p] < N + 1
      /\ \A p, q \in Ports : BootChain[p] = BootChain[q] => p = q
  BY BootChainNumbers, ToriiAssumption DEF ToriiAssumption
<1>3. DOMAIN started' = Ports /\ DOMAIN stopped' = Ports
  BY DEF Boot
<1> HIDE DEF N, inFile
<1>4. TypeOK'
  <2>1. started' \in [Ports -> Server \union {NoServer}] /\ stopped' \in [Ports -> Server \union {NoServer}]
    <3>1. /\ started' = [p \in Ports |-> started'[p]]
          /\ stopped' = [p \in Ports |-> stopped'[p]]
      BY DEF Boot
    <3> QED BY <3>1, BootBringsUp
  <2>2. /\ listener' \in [Ports -> {"closed", "serving", "orphan"}]
        /\ ctx' \in [Chain -> {"unbuilt", "live", "cancelled"}]
        /\ exposed' \subseteq Chain
    BY <1>1, <1>2
  <2>3. nextChain' \in 1 .. MaxChains + 1 /\ registered' \in [Ports -> 0 .. MaxChains]
    BY <1>1, <1>2 DEF Chain
  <2> QED BY <2>1, <2>2, <2>3 DEF TypeOK
<1>5. /\ \A p \in Ports : started'[p] # NoServer => p \in up /\ started'[p].chain = BootChain[p] /\ started'[p].isStarted
      /\ \A p \in Ports : stopped'[p] # NoServer => p \in inFile \ up /\ stopped'[p].chain = BootChain[p] /\ ~stopped'[p].isStarted
      /\ \A p \in up : started'[p] # NoServer
  BY BootBringsUp DEF inFile
<1>6. Fresh'
  <2>1. \A c \in Chain : c >= N + 1 => ctx'[c] = "unbuilt"
    <3> SUFFICES ASSUME NEW c \in Chain, c >= N + 1, NEW p \in inFile, c = BootChain[p] PROVE FALSE
      BY <1>1
    <3> QED BY <1>2 DEF Chain, inFile
  <2>2. \A c \in exposed' : c < N + 1
    BY <1>1, <1>2
  <2> QED BY <1>1, <1>2, <1>5, <2>1, <2>2 DEF Fresh
<1>7. ExposedByMap'
  <2>1. \A p \in inFile \ up : BootChain[p] \notin exposed'
    BY <1>1, <1>2 DEF inFile
  <2> QED BY <1>1, <1>5, <2>1 DEF ExposedByMap
<1>8. ListenerOwned'
  BY <1>1, <1>5 DEF ListenerOwned
<1>9. ChainsNotShared'
  BY <1>2, <1>5 DEF ChainsNotShared
<1>10. ExposedChainsReclaimed'
  <2> SUFFICES ASSUME NEW c \in exposed' PROVE Owned(c)'
    BY DEF ExposedChainsReclaimed
  <2>1. PICK p \in up : c = BootChain[p]
    BY <1>1
  <2> QED BY <1>5, <2>1 DEF Owned, Owns
<1>11. RegisteredCurrent'
  <2>1. \A p \in inFile : registered'[p] = BootChain[p] /\ BootChain[p] \in Nat
    BY <1>1, <1>2 DEF Chain, inFile
  <2> QED BY <1>1, <1>5, <2>1 DEF RegisteredCurrent
<1> QED BY <1>4, <1>6, <1>7, <1>8, <1>9, <1>10, <1>11 DEF IInv

\* Every step of the handlers, the end of the process and the next start keep the
\* invariants of the registry.
LEMMA RegistryStep ==
    ASSUME IInv, HandlersType, [SvcNext]_allVars
    PROVE  IInv'
<1>1. ASSUME NEW a \in Admins, Handler(a) PROVE IInv'
  BY <1>1, HandlersUseRegistry, IInvStep
<1>2. CASE Environment
  BY <1>2, IInvStep DEF Environment, Next, Step
<1>3. CASE ProcessEnds
  <2>1. Init'
    BY <1>3 DEF ProcessEnds, Init
  <2>2. Init' => IInv'
    BY IInvInit, PTL
  <2> QED BY <2>1, <2>2
<1>4. ASSUME NEW up \in SUBSET Ports, Boot(up) PROVE IInv'
  BY <1>4, BootKeeps
<1>5. CASE UNCHANGED allVars
  BY <1>5, IInvStep DEF allVars
<1> QED BY <1>1, <1>2, <1>3, <1>4, <1>5 DEF SvcNext

-----------------------------------------------------------------------------
\* What moves a request: its place and its local variables.
LEMMA EnterMoves ==
    ASSUME HandlersType, NEW a \in Admins, NEW l \in Labels, NEW f \in FrameType, Enter(a, l, f)
    PROVE  /\ pc' \in [Admins -> Labels] /\ frame' \in [Admins -> FrameType]
           /\ pc'[a] = l /\ frame'[a] = f
           /\ \A b \in Admins : b # a => pc'[b] = pc[b] /\ frame'[b] = frame[b]
BY DEF HandlersType, Enter, Goto

\* A step forward with the same local variables.
LEMMA GotoMoves ==
    ASSUME HandlersType, NEW a \in Admins, NEW l \in Labels, Goto(a, l)
    PROVE  /\ pc' \in [Admins -> Labels] /\ pc'[a] = l
           /\ \A b \in Admins : b # a => pc'[b] = pc[b]
BY DEF HandlersType, Goto

\* A request that ends, with success or not.
LEMMA ReturnMoves ==
    ASSUME HandlersType, NEW a \in Admins, Return(a)
    PROVE  /\ pc' \in [Admins -> Labels] /\ frame' \in [Admins -> FrameType]
           /\ pc'[a] = "idle"
           /\ \A b \in Admins : b # a => pc'[b] = pc[b] /\ frame'[b] = frame[b]
<1>1. "idle" \in Labels /\ NoFrame \in FrameType
  BY FrameIsTyped DEF Labels
<1> QED BY <1>1, EnterMoves DEF Return

\* A local variable that changes leaves the request's arguments alone.
LEMMA FrameUpdates ==
    ASSUME NEW f \in FrameType, NEW was \in BOOLEAN, NEW data \in Lists
    PROVE  /\ [f EXCEPT !.was = was] \in FrameType
           /\ [f EXCEPT !.was = was].port = f.port /\ [f EXCEPT !.was = was].conf = f.conf
           /\ [f EXCEPT !.data = data] \in FrameType /\ [f EXCEPT !.data = data].data = data
           /\ [f EXCEPT !.data = data].port = f.port /\ [f EXCEPT !.data = data].conf = f.conf
BY DEF FrameType

\* The steps of EditProxy that make one call and go on or give up.
LEMMA EditMoves ==
    ASSUME HandlersType, NEW a \in Admins, NEW l \in Labels, EditContinues(a, l) \/ EditFails(a)
    PROVE  /\ pc' \in [Admins -> Labels] /\ frame' \in [Admins -> FrameType] /\ dirty' \in BOOLEAN
           /\ \/ pc'[a] = l /\ frame' = frame /\ dirty' = dirty
              \/ pc'[a] = "idle" /\ dirty'
           /\ \A b \in Admins : b # a => pc'[b] = pc[b] /\ frame'[b] = frame[b]
<1>1. CASE EditContinues(a, l)
  <2>1. Goto(a, l) /\ frame' = frame /\ dirty' = dirty
    BY <1>1 DEF EditContinues
  <2>2. dirty' \in BOOLEAN /\ frame' \in [Admins -> FrameType]
    BY <2>1 DEF HandlersType
  <2>3. /\ pc' \in [Admins -> Labels] /\ pc'[a] = l
        /\ \A b \in Admins : b # a => pc'[b] = pc[b] /\ frame'[b] = frame[b]
    BY <2>1, GotoMoves
  <2> QED BY <2>1, <2>2, <2>3, Zenon
<1>2. CASE EditFails(a)
  <2>1. Return(a) /\ dirty'
    BY <1>2 DEF EditFails
  <2>2. dirty' \in BOOLEAN
    BY <1>2, Zenon DEF EditFails
  <2> QED BY <2>1, <2>2, ReturnMoves
<1> QED BY <1>1, <1>2

\* The rest of the handlers' types: what only a few steps touch.
Others == <<running, shared, file, creates, deleted>>

\* A step that changes program counters, frames and the dirty mark only keeps the types.
LEMMA OthersKept ==
    ASSUME HandlersType, UNCHANGED Others, pc' \in [Admins -> Labels],
           frame' \in [Admins -> FrameType], dirty' \in BOOLEAN
    PROVE  HandlersType'
BY DEF HandlersType, Others

\* Every step keeps the handlers' state well typed.
LEMMA HandlersTypeStep ==
    ASSUME IInv, HandlersType, [SvcNext]_allVars
    PROVE  HandlersType'
<1>1. /\ \A a \in Admins : frame[a] \in FrameType
      /\ dirty \in BOOLEAN /\ pc \in [Admins -> Labels] /\ frame \in [Admins -> FrameType]
  BY DEF HandlersType
<1>2. ASSUME NEW a \in Admins, NEW p \in Ports, HandleStart(a, p) \/ HandleStop(a, p)
      PROVE  HandlersType'
  BY <1>2 DEF HandleStart, HandleStop, svcVars, HandlersType
<1>3. ASSUME NEW a \in Admins, NEW p \in Ports, HandleDelete(a, p) PROVE HandlersType'
  <2>1. UNCHANGED Others /\ dirty' = dirty
    BY <1>3 DEF HandleDelete, Others
  <2>2. CASE UNCHANGED <<pc, frame>>
    BY <1>1, <2>1, <2>2, OthersKept
  <2>3. CASE Enter(a, "collect", Frame("delete", p, NoFrame.conf))
    BY <1>1, <2>1, <2>3, EnterMoves, FrameIsTyped, OthersKept DEF Labels
  <2> QED BY <1>3, <2>2, <2>3 DEF HandleDelete
<1>4. ASSUME NEW a \in Admins, NEW p \in Ports, NEW c \in Requests, HandleCreate(a, p, c)
      PROVE  HandlersType'
  <2>1. /\ creates[p] < MaxCreates /\ creates' = [creates EXCEPT ![p] = @ + 1]
        /\ deleted' = deleted \ {p}
        /\ Enter(a, "collect", Frame("create", p, c))
        /\ UNCHANGED <<running, shared, file, dirty>>
    BY <1>4 DEF HandleCreate
  <2>2. creates' \in [Ports -> 0 .. MaxCreates]
    BY <2>1, ServiceAssumption DEF HandlersType, ServiceAssumption
  <2>3. pc' \in [Admins -> Labels] /\ frame' \in [Admins -> FrameType]
    BY <2>1, EnterMoves, FrameIsTyped DEF Labels
  <2> QED BY <2>1, <2>2, <2>3 DEF HandlersType
<1>5. ASSUME NEW a \in Admins, NEW p \in Ports, NEW c \in Requests, EditCheck(a, p, c)
      PROVE  HandlersType'
  <2>1. PICK l \in {"isStarted", "swap"} : Enter(a, l, Frame("edit", p, c))
    BY <1>5 DEF EditCheck
  <2>2. UNCHANGED Others /\ dirty' = dirty
    BY <1>5 DEF EditCheck, Others
  <2> QED BY <1>1, <2>1, <2>2, EnterMoves, FrameIsTyped, OthersKept DEF Labels
<1>6. ASSUME NEW a \in Admins, EditIsStarted(a) PROVE HandlersType'
  <2> DEFINE was == started[Port(a)] # NoServer
             f == [frame[a] EXCEPT !.was = was]
  <2>1. was \in BOOLEAN
    OBVIOUS
  <2>2. (IF was THEN "stop" ELSE "delete") \in Labels
    BY DEF Labels
  <2>3. Enter(a, IF was THEN "stop" ELSE "delete", f) /\ UNCHANGED Others /\ dirty' = dirty
    BY <1>6, Zenon DEF EditIsStarted, Others
  <2> HIDE DEF was
  <2>4. f \in FrameType
    BY <1>1, <2>1, FrameUpdates, FrameIsTyped
  <2> HIDE DEF f
  <2> QED BY <1>1, <2>2, <2>3, <2>4, EnterMoves, OthersKept
<1>7. ASSUME NEW a \in Admins, EditStop(a) \/ EditDelete(a) \/ EditStart(a) \/ EditSwap(a)
      PROVE  HandlersType'
  <2>1. PICK l \in Labels : EditContinues(a, l) \/ EditFails(a)
    BY <1>7 DEF EditStop, EditDelete, EditStart, EditSwap, Labels
  <2>2. UNCHANGED Others
    BY <1>7 DEF EditStop, EditDelete, EditStart, EditSwap, Others
  <2> QED BY <2>1, <2>2, EditMoves, OthersKept
<1>8. ASSUME NEW a \in Admins, EditAdd(a) PROVE HandlersType'
  <2>1. PICK l \in Labels : EditContinues(a, l) \/ EditFails(a)
    BY <1>8 DEF EditAdd, Labels
  <2>2. deleted' \subseteq Ports /\ UNCHANGED <<running, shared, file, creates>>
    BY <1>8 DEF EditAdd, HandlersType
  <2>3. pc' \in [Admins -> Labels] /\ frame' \in [Admins -> FrameType] /\ dirty' \in BOOLEAN
    BY <2>1, EditMoves
  <2> QED BY <2>2, <2>3 DEF HandlersType
<1>9. ASSUME NEW a \in Admins, PersistCollect(a) PROVE HandlersType'
  <2>1. [frame[a] EXCEPT !.data = GetAllHTTPConfigs] \in FrameType
    BY <1>1, ListingType, FrameUpdates DEF IInv
  <2>2. UNCHANGED Others /\ dirty' = dirty /\ Enter(a, "assign", [frame[a] EXCEPT !.data = GetAllHTTPConfigs])
    BY <1>9 DEF PersistCollect, Others
  <2> QED BY <1>1, <2>1, <2>2, EnterMoves, OthersKept DEF Labels
<1>10. ASSUME NEW a \in Admins, PersistAssign(a) PROVE HandlersType'
  <2>1. shared' \in Lists
    BY <1>1, <1>10 DEF PersistAssign, FrameType
  <2>2. pc' \in [Admins -> Labels] /\ UNCHANGED <<running, frame, file, creates, dirty, deleted>>
    BY <1>10, GotoMoves DEF PersistAssign, Labels
  <2> QED BY <2>1, <2>2 DEF HandlersType
<1>11. ASSUME NEW a \in Admins, PersistCopy(a) PROVE HandlersType'
  <2>1. [frame[a] EXCEPT !.data = shared] \in FrameType
    BY <1>1, FrameUpdates DEF HandlersType
  <2>2. UNCHANGED Others /\ dirty' = dirty /\ Enter(a, "open", [frame[a] EXCEPT !.data = shared])
    BY <1>11 DEF PersistCopy, Others
  <2> QED BY <1>1, <2>1, <2>2, EnterMoves, OthersKept DEF Labels
<1>12. ASSUME NEW a \in Admins, PersistOpen(a) PROVE HandlersType'
  <2>1. CASE Return(a) /\ dirty' = TRUE /\ UNCHANGED file
    <3>1. UNCHANGED Others /\ dirty' \in BOOLEAN
      BY <1>12, <2>1, Zenon DEF PersistOpen, Others
    <3> QED BY <2>1, <3>1, ReturnMoves, OthersKept
  <2>2. CASE file' = File("blank", NoListeners) /\ Goto(a, "write") /\ UNCHANGED <<frame, dirty>>
    <3>1. file' \in FileType
      BY <2>2, FrameIsTyped DEF File, FileType
    <3>2. pc' \in [Admins -> Labels] /\ UNCHANGED <<running, shared, creates, deleted>>
      BY <1>12, <2>2, GotoMoves DEF PersistOpen, Labels
    <3> QED BY <2>2, <3>1, <3>2 DEF HandlersType
  <2> QED BY <1>12, <2>1, <2>2 DEF PersistOpen
<1>13. ASSUME NEW a \in Admins, PersistWrite(a) PROVE HandlersType'
  <2>1. File("ok", frame[a].data) \in FileType /\ File("torn", NoListeners) \in FileType /\ file \in FileType
    BY <1>1, FrameIsTyped DEF File, FileType, FrameType, HandlersType
  <2>2. file' \in {File("ok", frame[a].data), File("torn", NoListeners), file}
    BY <1>13 DEF PersistWrite
  <2>3. dirty' \in BOOLEAN
    BY <1>13, Zenon DEF PersistWrite
  <2>4. deleted' \subseteq Ports
    <3>1. deleted' \subseteq deleted \union {Port(a)}
      BY <1>13 DEF PersistWrite
    <3> QED BY <1>1, <3>1 DEF Port, FrameType, HandlersType
  <2>5. /\ pc' \in [Admins -> Labels] /\ frame' \in [Admins -> FrameType]
        /\ UNCHANGED <<running, shared, creates>>
    BY <1>13, ReturnMoves DEF PersistWrite
  <2> QED BY <2>1, <2>2, <2>3, <2>4, <2>5 DEF HandlersType
<1>14. CASE Environment
  BY <1>14 DEF Environment, svcVars, HandlersType
<1>15. CASE ProcessEnds
  <2>1. dirty' \in BOOLEAN /\ running' \in BOOLEAN
    BY <1>15, Zenon DEF ProcessEnds
  <2>2. creates' \in [Ports -> 0 .. MaxCreates]
    BY <1>15, ServiceAssumption DEF ProcessEnds, ServiceAssumption
  <2>3. /\ pc' \in [Admins -> Labels] /\ frame' \in [Admins -> FrameType] /\ shared' \in Lists
        /\ UNCHANGED <<file, deleted>>
    BY <1>15, FrameIsTyped DEF ProcessEnds, Labels
  <2> QED BY <2>1, <2>2, <2>3 DEF HandlersType
<1>16. ASSUME NEW up \in SUBSET Ports, Boot(up) PROVE HandlersType'
  <2>1. running' \in BOOLEAN
    BY <1>16, Zenon DEF Boot
  <2>2. creates' \in [Ports -> 0 .. MaxCreates]
    BY <1>16, ServiceAssumption DEF Boot, ServiceAssumption
  <2>3. shared' = file.confs /\ UNCHANGED <<pc, frame, file, dirty, deleted>>
    BY <1>16 DEF Boot
  <2>4. shared' \in Lists
    BY <2>3 DEF HandlersType, FileType
  <2> QED BY <2>1, <2>2, <2>3, <2>4 DEF HandlersType
<1>17. CASE UNCHANGED allVars
  BY <1>17 DEF allVars, svcVars, HandlersType
<1> QED BY <1>2, <1>3, <1>4, <1>5, <1>6, <1>7, <1>8, <1>9, <1>10, <1>11, <1>12, <1>13, <1>14,
           <1>15, <1>16, <1>17 DEF SvcNext, Handler

-----------------------------------------------------------------------------
\* No operation but AddHttpServer adds a server to a port, and a deletion that
\* succeeds takes one away.
LEMMA ServersKept ==
    ASSUME TypeOK, NEW p \in Ports,
           \/ StartOk(p) \/ StartFailed(p) \/ StopOk(p) \/ StopTimedOut(p) \/ DeleteOk(p) \/ DeleteFailed(p)
           \/ ServeFails(p) \/ OrphanCollected(p)
           \/ \E conf \in Requests : HotSwapOk(p, conf)
    PROVE  /\ \A q \in Ports : Servers(q)' <= Servers(q)
           /\ DeleteOk(p) => Servers(p)' = Servers(p) - 1
<1>1. CASE StartOk(p) \/ StartFailed(p)
  BY <1>1 DEF StartOk, StartFailed, DeleteOk, DeleteStopped, DeleteStarted, Servers, TypeOK
<1>2. CASE StopOk(p) \/ StopTimedOut(p)
  BY <1>2 DEF StopOk, StopTimedOut, ShutdownTimesOut, DeleteOk, DeleteStopped, DeleteStarted, Servers, TypeOK
<1>3. CASE DeleteOk(p)
  BY <1>3 DEF DeleteOk, DeleteStopped, DeleteStarted, Servers, TypeOK
<1>4. CASE DeleteFailed(p) /\ ~DeleteOk(p)
  BY <1>4 DEF DeleteFailed, ShutdownTimesOut, Servers, TypeOK, vars
<1>5. CASE (ServeFails(p) \/ OrphanCollected(p)) /\ ~DeleteOk(p)
  BY <1>5 DEF ServeFails, OrphanCollected, Servers
<1>6. ASSUME NEW conf \in Requests, HotSwapOk(p, conf), ~DeleteOk(p)
      PROVE  \A q \in Ports : Servers(q)' <= Servers(q)
  BY <1>6 DEF HotSwapOk, Lookup, Servers, TypeOK
<1> QED BY <1>1, <1>2, <1>3, <1>4, <1>5, <1>6

\* AddHttpServer adds one server at most.
LEMMA ServersAdded ==
    ASSUME TypeOK, NEW p \in Ports, NEW conf \in Requests, AddHttpServer(p, conf)
    PROVE  /\ Servers(p)' <= Servers(p) + 1
           /\ \A q \in Ports : q # p => Servers(q)' = Servers(q)
BY DEF AddHttpServer, Servers, TypeOK

\* The rebuilds in progress are counted by a natural number, fewer of them by a smaller.
LEMMA Counting ==
    ASSUME NEW S \in SUBSET Admins, NEW T \in SUBSET S
    PROVE  /\ IsFiniteSet(S) /\ Cardinality(S) \in Nat /\ Cardinality(T) \in Nat
           /\ Cardinality(T) <= Cardinality(S)
<1>1. IsFiniteSet(Admins)
  BY ServiceAssumption DEF ServiceAssumption
<1>2. IsFiniteSet(S)
  BY <1>1, FS_Subset
<1>3. IsFiniteSet(T) /\ Cardinality(T) <= Cardinality(S)
  BY <1>2, FS_Subset
<1> QED BY <1>2, <1>3, FS_CardinalityType

\* A step after which a port has no more servers and no more rebuilds than before.
LEMMA NoneMultiplied ==
    ASSUME HandlersType, EditsDoNotMultiply, creates' = creates,
           \A q \in Ports : Servers(q)' <= Servers(q),
           \A b \in Admins : pc'[b] = "add" => pc[b] = "add" /\ Port(b)' = Port(b)
    PROVE  EditsDoNotMultiply'
<1> SUFFICES ASSUME NEW q \in Ports
             PROVE  Servers(q)' + Cardinality(PendingAdds(q)') <= creates[q]
  BY DEF EditsDoNotMultiply
<1> DEFINE S == PendingAdds(q)
           T == PendingAdds(q)'
           m == Servers(q)
           n == Servers(q)'
<1>1. S \in SUBSET Admins /\ T \in SUBSET S
  BY DEF PendingAdds
<1>2. m \in Int /\ n \in Int /\ n <= m /\ creates[q] \in Int
  BY DEF Servers, HandlersType
<1>3. m + Cardinality(S) <= creates[q]
  BY DEF EditsDoNotMultiply
<1> HIDE DEF S, T, m, n
<1>4. Cardinality(S) \in Nat /\ Cardinality(T) \in Nat /\ Cardinality(T) <= Cardinality(S)
  BY <1>1, Counting
<1>5. n + Cardinality(T) <= creates[q]
  BY <1>2, <1>3, <1>4
<1> QED BY <1>5 DEF T, n

\* EditProxy has deleted the proxy and will add it again.
LEMMA DeleteThenAdd ==
    ASSUME TypeOK, HandlersType, EditsDoNotMultiply, NEW a \in Admins, EditDelete(a)
    PROVE  EditsDoNotMultiply'
<1> DEFINE p == Port(a)
<1>1. p \in Ports /\ pc[a] = "delete" /\ creates' = creates
  BY DEF EditDelete, At, HandlersType, FrameType, Port
<1>2. CASE DeleteFailed(p) /\ EditFails(a)
  <2>1. \A b \in Admins : pc'[b] = "add" => pc[b] = "add" /\ Port(b)' = Port(b)
    BY <1>2, ReturnMoves DEF EditFails, Port
  <2> QED BY <1>1, <1>2, <2>1, ServersKept, NoneMultiplied
<1>3. CASE DeleteOk(p) /\ EditContinues(a, "add")
  <2>1. /\ pc'[a] = "add" /\ frame' = frame
        /\ \A b \in Admins : b # a => pc'[b] = pc[b]
    BY <1>3, GotoMoves DEF EditContinues, Labels
  <2> SUFFICES ASSUME NEW q \in Ports
               PROVE  Servers(q)' + Cardinality(PendingAdds(q)') <= creates[q]
    BY <1>1 DEF EditsDoNotMultiply
  <2> DEFINE S == PendingAdds(q)
             T == PendingAdds(q)'
             m == Servers(q)
             n == Servers(q)'
  <2>2. S \in SUBSET Admins /\ a \notin S
    BY <1>1 DEF PendingAdds
  <2>3. T = IF q = p THEN S \union {a} ELSE S
    BY <2>1 DEF PendingAdds, Port
  <2>4. m \in Int /\ n \in Int /\ n <= m /\ (q = p => n = m - 1) /\ creates[q] \in Int
    <3>1. n <= m /\ (q = p => n = m - 1)
      BY <1>1, <1>3, ServersKept
    <3> QED BY <3>1 DEF Servers, HandlersType
  <2>5. m + Cardinality(S) <= creates[q]
    BY DEF EditsDoNotMultiply
  <2> HIDE DEF S, T, m, n
  <2>6. Cardinality(S) \in Nat /\ Cardinality(S \union {a}) = Cardinality(S) + 1
    BY <2>2, Counting, FS_AddElement
  <2>7. n + Cardinality(T) <= creates[q]
    BY <2>3, <2>4, <2>5, <2>6
  <2> QED BY <2>7 DEF T, n
<1> QED BY <1>2, <1>3 DEF EditDelete

\* EditProxy adds what it has deleted.
LEMMA AddAfterDelete ==
    ASSUME TypeOK, HandlersType, EditsDoNotMultiply, NEW a \in Admins, EditAdd(a)
    PROVE  EditsDoNotMultiply'
<1> DEFINE p == Port(a)
<1>1. p \in Ports /\ Conf(a) \in Requests /\ pc[a] = "add" /\ creates' = creates
  BY DEF EditAdd, At, HandlersType, FrameType, Port, Conf
<1>2. CASE AddFailed /\ EditFails(a)
  <2>1. \A b \in Admins : pc'[b] = "add" => pc[b] = "add" /\ Port(b)' = Port(b)
    BY <1>2, ReturnMoves DEF EditFails, Port
  <2>2. \A q \in Ports : Servers(q)' <= Servers(q)
    BY <1>2 DEF AddFailed, vars, Servers
  <2> QED BY <1>1, <2>1, <2>2, NoneMultiplied
<1>3. CASE AddHttpServer(p, Conf(a)) /\ EditContinues(a, IF frame[a].was THEN "start" ELSE "collect")
  <2>1. /\ pc'[a] # "add" /\ frame' = frame
        /\ \A b \in Admins : b # a => pc'[b] = pc[b]
    BY <1>3, GotoMoves DEF EditContinues, Labels
  <2> SUFFICES ASSUME NEW q \in Ports
               PROVE  Servers(q)' + Cardinality(PendingAdds(q)') <= creates[q]
    BY <1>1 DEF EditsDoNotMultiply
  <2> DEFINE S == PendingAdds(q)
             T == PendingAdds(q)'
             m == Servers(q)
             n == Servers(q)'
  <2>2. S \in SUBSET Admins /\ (q = p <=> a \in S)
    BY <1>1 DEF PendingAdds
  <2>3. T = S \ {a}
    BY <2>1 DEF PendingAdds, Port
  <2>4. m \in Int /\ n \in Int /\ (q # p => n = m) /\ (q = p => n <= m + 1) /\ creates[q] \in Int
    <3>1. (q # p => n = m) /\ (q = p => n <= m + 1)
      BY <1>1, <1>3, ServersAdded
    <3> QED BY <3>1 DEF Servers, HandlersType
  <2>5. m + Cardinality(S) <= creates[q]
    BY DEF EditsDoNotMultiply
  <2> HIDE DEF S, T, m, n
  <2>6. /\ Cardinality(S) \in Nat
        /\ Cardinality(S \ {a}) = IF a \in S THEN Cardinality(S) - 1 ELSE Cardinality(S)
    BY <2>2, Counting, FS_RemoveElement
  <2>7. n + Cardinality(T) <= creates[q]
    BY <2>2, <2>3, <2>4, <2>5, <2>6
  <2> QED BY <2>7 DEF T, n
<1> QED BY <1>2, <1>3 DEF EditAdd

\* A creation is counted.
LEMMA CreateCounted ==
    ASSUME TypeOK, HandlersType, EditsDoNotMultiply,
           NEW a \in Admins, NEW p \in Ports, NEW c \in Requests, HandleCreate(a, p, c)
    PROVE  EditsDoNotMultiply'
<1>1. /\ AddHttpServer(p, c) /\ creates' = [creates EXCEPT ![p] = @ + 1] /\ pc[a] = "idle"
      /\ Enter(a, "collect", Frame("create", p, c))
  BY DEF HandleCreate, At
<1>2. pc'[a] = "collect" /\ \A b \in Admins : b # a => pc'[b] = pc[b] /\ frame'[b] = frame[b]
  BY <1>1, EnterMoves, FrameIsTyped DEF Labels
<1> SUFFICES ASSUME NEW q \in Ports
             PROVE  Servers(q)' + Cardinality(PendingAdds(q)') <= creates'[q]
  BY DEF EditsDoNotMultiply
<1> DEFINE S == PendingAdds(q)
           T == PendingAdds(q)'
           m == Servers(q)
           n == Servers(q)'
<1>3. S \in SUBSET Admins /\ T = S
  BY <1>1, <1>2 DEF PendingAdds, Port
<1>4. /\ m \in Int /\ n \in Int /\ creates[q] \in Int
      /\ (q # p => n = m) /\ (q = p => n <= m + 1)
      /\ creates'[q] = IF q = p THEN creates[q] + 1 ELSE creates[q]
  <2>1. (q # p => n = m) /\ (q = p => n <= m + 1)
    BY <1>1, ServersAdded
  <2> QED BY <1>1, <2>1 DEF Servers, HandlersType
<1>5. m + Cardinality(S) <= creates[q]
  BY DEF EditsDoNotMultiply
<1> HIDE DEF S, T, m, n
<1>6. Cardinality(S) \in Nat
  BY <1>3, Counting
<1>7. n + Cardinality(T) <= creates'[q]
  BY <1>3, <1>4, <1>5, <1>6
<1> QED BY <1>7 DEF T, n

\* A new process has one server at most on a port, and no request.
LEMMA BootCounted ==
    ASSUME HandlersType, DownIsQuiet, NEW up \in SUBSET Ports, Boot(up)
    PROVE  EditsDoNotMultiply'
<1> SUFFICES ASSUME NEW q \in Ports
             PROVE  Servers(q)' + Cardinality(PendingAdds(q)') <= creates'[q]
  BY DEF EditsDoNotMultiply
<1>1. PendingAdds(q)' = {}
  BY DEF Boot, DownIsQuiet, Quiet, PendingAdds
<1>2. creates'[q] = IF file.confs[q] # <<>> THEN 1 ELSE 0
  BY DEF Boot
<1>3. Servers(q)' <= creates'[q] /\ Servers(q)' \in Int
  <2>1. /\ started'[q] # NoServer <=> q \in up
        /\ stopped'[q] # NoServer <=> q \notin up /\ file.confs[q] # <<>>
        /\ started'[q] # NoServer => file.confs[q] # <<>>
    BY BootBringsUp
  <2> QED BY <1>2, <2>1 DEF Servers
<1>4. Cardinality(PendingAdds(q)') = 0
  BY <1>1, FS_EmptySet
<1> QED BY <1>2, <1>3, <1>4

\* The steps that neither add a server nor get a request to its "add" step.
LEMMA OtherStepsCounted ==
    ASSUME TypeOK, HandlersType, EditsDoNotMultiply, NEW a \in Admins, Handler(a),
           ~EditDelete(a), ~EditAdd(a),
           ~\E p \in Ports, c \in Requests : HandleCreate(a, p, c)
    PROVE  EditsDoNotMultiply'
<1>1. Port(a) \in Ports /\ Conf(a) \in Requests /\ frame[a] \in FrameType
  BY DEF HandlersType, FrameType, Port, Conf
<1>2. creates' = creates
  BY DEF Handler, HandleStart, HandleStop, HandleDelete, EditCheck, EditIsStarted, EditStop, EditStart,
         EditSwap, PersistCollect, PersistAssign, PersistCopy, PersistOpen, PersistWrite, svcVars
<1>3. ASSUME UNCHANGED vars PROVE \A q \in Ports : Servers(q)' <= Servers(q)
  BY <1>3 DEF vars, Servers
<1>4. \A q \in Ports : Servers(q)' <= Servers(q)
  <2>1. ASSUME NEW p \in Ports, HandleStart(a, p) \/ HandleStop(a, p) \/ HandleDelete(a, p)
        PROVE  \A q \in Ports : Servers(q)' <= Servers(q)
    BY <2>1, ServersKept DEF HandleStart, HandleStop, HandleDelete
  <2>2. ASSUME NEW p \in Ports, NEW c \in Requests, EditCheck(a, p, c)
        PROVE  \A q \in Ports : Servers(q)' <= Servers(q)
    BY <1>3, <2>2 DEF EditCheck
  <2>3. CASE EditIsStarted(a) \/ PersistCollect(a) \/ PersistAssign(a) \/ PersistCopy(a)
             \/ PersistOpen(a) \/ PersistWrite(a)
    <3>1. UNCHANGED vars
      BY <2>3, Zenon DEF EditIsStarted, PersistCollect, PersistAssign, PersistCopy, PersistOpen, PersistWrite
    <3> QED BY <1>3, <3>1
  <2>4. CASE EditStop(a) \/ EditStart(a) \/ EditSwap(a)
    BY <1>1, <1>3, <2>4, ServersKept
    DEF EditStop, EditStart, EditSwap, StopRefused, StartRefused, HotSwapSkipped, HotSwapFailed
  <2> QED BY <2>1, <2>2, <2>3, <2>4 DEF Handler
<1>5. \A b \in Admins : pc'[b] = "add" => pc[b] = "add" /\ Port(b)' = Port(b)
  <2>1. ASSUME NEW p \in Ports, HandleStart(a, p) \/ HandleStop(a, p)
        PROVE  \A b \in Admins : pc'[b] = "add" => pc[b] = "add" /\ Port(b)' = Port(b)
    BY <2>1 DEF HandleStart, HandleStop, svcVars, Port
  <2>2. ASSUME NEW l \in Labels \ {"add"}, NEW f \in FrameType, Enter(a, l, f)
        PROVE  \A b \in Admins : pc'[b] = "add" => pc[b] = "add" /\ Port(b)' = Port(b)
    BY <2>2, EnterMoves DEF Port
  <2>3. ASSUME NEW l \in Labels \ {"add"}, Goto(a, l), frame' = frame
        PROVE  \A b \in Admins : pc'[b] = "add" => pc[b] = "add" /\ Port(b)' = Port(b)
    BY <2>3, GotoMoves DEF Port
  <2>4. ASSUME Return(a)
        PROVE  \A b \in Admins : pc'[b] = "add" => pc[b] = "add" /\ Port(b)' = Port(b)
    BY <2>4, ReturnMoves DEF Port
  <2>5. ASSUME NEW p \in Ports, HandleDelete(a, p)
        PROVE  \A b \in Admins : pc'[b] = "add" => pc[b] = "add" /\ Port(b)' = Port(b)
    BY <2>2, <2>5, FrameIsTyped DEF HandleDelete, Labels, Port
  <2>6. ASSUME NEW p \in Ports, NEW c \in Requests, EditCheck(a, p, c)
        PROVE  \A b \in Admins : pc'[b] = "add" => pc[b] = "add" /\ Port(b)' = Port(b)
    <3>1. PICK l \in {"isStarted", "swap"} : Enter(a, l, Frame("edit", p, c))
      BY <2>6 DEF EditCheck
    <3> QED BY <2>2, <3>1, FrameIsTyped DEF Labels
  <2>7. CASE EditIsStarted(a)
    <3> DEFINE l == IF started[Port(a)] # NoServer THEN "stop" ELSE "delete"
    <3>1. pc' = [pc EXCEPT ![a] = l] /\ l \in Labels \ {"add"}
      BY <2>7 DEF EditIsStarted, Enter, Goto, Labels
    <3>2. \A b \in Admins : b # a => frame'[b] = frame[b]
      <4> DEFINE f == [frame[a] EXCEPT !.was = (started[Port(a)] # NoServer)]
      <4>1. frame' = [frame EXCEPT ![a] = f]
        BY <2>7, Zenon DEF EditIsStarted, Enter
      <4> HIDE DEF f
      <4> QED BY <4>1 DEF HandlersType
    <3> QED BY <3>1, <3>2 DEF HandlersType, Port
  <2>8. CASE EditStop(a) \/ EditStart(a) \/ EditSwap(a)
    BY <2>3, <2>4, <2>8 DEF EditStop, EditStart, EditSwap, EditContinues, EditFails, Labels
  <2>9. CASE PersistCollect(a)
    <3>1. [frame[a] EXCEPT !.data = GetAllHTTPConfigs] \in FrameType
      BY <1>1, ListingType, FrameUpdates
    <3> QED BY <2>2, <2>9, <3>1 DEF PersistCollect, Labels
  <2>10. CASE PersistCopy(a)
    <3>1. [frame[a] EXCEPT !.data = shared] \in FrameType
      BY <1>1, FrameUpdates DEF HandlersType
    <3> QED BY <2>2, <2>10, <3>1 DEF PersistCopy, Labels
  <2>11. CASE PersistAssign(a) \/ PersistOpen(a)
    BY <2>3, <2>4, <2>11 DEF PersistAssign, PersistOpen, Labels
  <2>12. CASE PersistWrite(a)
    BY <2>4, <2>12 DEF PersistWrite
  <2> QED BY <2>1, <2>5, <2>6, <2>7, <2>8, <2>9, <2>10, <2>11, <2>12 DEF Handler
<1> QED BY <1>2, <1>4, <1>5, NoneMultiplied

\* Every step keeps the number of servers within the number of creations.
LEMMA CountStep ==
    ASSUME SvcInv, [SvcNext]_allVars
    PROVE  EditsDoNotMultiply'
<1>1. TypeOK /\ HandlersType /\ EditsDoNotMultiply /\ DownIsQuiet
  BY DEF SvcInv, IInv
<1>2. ASSUME NEW a \in Admins, Handler(a) PROVE EditsDoNotMultiply'
  BY <1>1, <1>2, DeleteThenAdd, AddAfterDelete, CreateCounted, OtherStepsCounted
<1>3. CASE Environment
  <2>1. PICK p \in Ports : (ServeFails(p) \/ OrphanCollected(p)) /\ UNCHANGED svcVars
    BY <1>3 DEF Environment
  <2>2. \A q \in Ports : Servers(q)' <= Servers(q)
    BY <1>1, <2>1, ServersKept
  <2> QED BY <1>1, <2>1, <2>2, NoneMultiplied DEF svcVars, Port
<1>4. CASE ProcessEnds
  <2> SUFFICES ASSUME NEW q \in Ports PROVE Servers(q)' + Cardinality(PendingAdds(q)') <= creates'[q]
    BY DEF EditsDoNotMultiply
  <2>1. PendingAdds(q)' = {}
    BY <1>4 DEF ProcessEnds, PendingAdds
  <2>2. Servers(q)' = 0 /\ creates'[q] = 0
    BY <1>4 DEF ProcessEnds, Servers
  <2>3. Cardinality(PendingAdds(q)') = 0
    BY <2>1, FS_EmptySet
  <2> QED BY <2>2, <2>3
<1>5. ASSUME NEW up \in SUBSET Ports, Boot(up) PROVE EditsDoNotMultiply'
  BY <1>1, <1>5, BootCounted
<1>6. CASE UNCHANGED allVars
  <2>1. \A q \in Ports : Servers(q)' <= Servers(q)
    BY <1>6 DEF allVars, vars, Servers
  <2> QED BY <1>1, <1>6, <2>1, NoneMultiplied DEF allVars, svcVars, Port
<1> QED BY <1>2, <1>3, <1>4, <1>5, <1>6 DEF SvcNext

\* Handlers run in a process that is up.
LEMMA HandlersRun ==
    ASSUME NEW a \in Admins, Handler(a)
    PROVE  running /\ running'
<1>1. ASSUME NEW p \in Ports, HandleStart(a, p) \/ HandleStop(a, p) \/ HandleDelete(a, p)
      PROVE  running /\ running'
  BY <1>1 DEF HandleStart, HandleStop, HandleDelete, At, svcVars
<1>2. ASSUME NEW p \in Ports, NEW c \in Requests, HandleCreate(a, p, c) \/ EditCheck(a, p, c)
      PROVE  running /\ running'
  BY <1>2 DEF HandleCreate, EditCheck, At
<1>3. CASE EditIsStarted(a)
  BY <1>3, Zenon DEF EditIsStarted, At
<1>4. CASE EditStop(a) \/ EditDelete(a) \/ EditAdd(a) \/ EditStart(a) \/ EditSwap(a)
  BY <1>4 DEF EditStop, EditDelete, EditAdd, EditStart, EditSwap, At
<1>5. CASE PersistCollect(a) \/ PersistAssign(a) \/ PersistCopy(a) \/ PersistOpen(a) \/ PersistWrite(a)
  BY <1>5 DEF PersistCollect, PersistAssign, PersistCopy, PersistOpen, PersistWrite, At
<1> QED BY <1>1, <1>2, <1>3, <1>4, <1>5 DEF Handler

\* The invariant is inductive.
LEMMA SvcInvStep == SvcInv /\ [SvcNext]_allVars => SvcInv'
<1> SUFFICES ASSUME SvcInv, [SvcNext]_allVars PROVE SvcInv'
  OBVIOUS
<1>1. IInv' /\ HandlersType'
  BY RegistryStep, HandlersTypeStep DEF SvcInv
<1>2. DownIsQuiet'
  <2>1. ASSUME NEW a \in Admins, Handler(a) PROVE running'
    BY <2>1, HandlersRun
  <2>2. CASE Environment \/ UNCHANGED allVars
    BY <2>2 DEF Environment, allVars, svcVars, SvcInv, DownIsQuiet, Quiet
  <2>3. CASE ProcessEnds
    BY <2>3 DEF ProcessEnds, DownIsQuiet, Quiet
  <2>4. ASSUME NEW up \in SUBSET Ports, Boot(up) PROVE running'
    BY <2>4 DEF Boot
  <2> QED BY <2>1, <2>2, <2>3, <2>4 DEF SvcNext, DownIsQuiet
<1> QED BY <1>1, <1>2, CountStep DEF SvcInv

\* However requests to the management API overlap, fail and are cut off by the end of
\* the process, the registry's invariants, the handlers' types and the count of servers
\* hold.
THEOREM SvcInvCorrect == SvcSpec => []SvcInv
BY SvcInvInit, SvcInvStep, PTL DEF SvcSpec

\* Under the sequences of calls the handlers really make, restarts from the file
\* included, a port that answers belongs to a started server, chains are not shared,
\* those that were exposed are reclaimed and the dispatcher knows every server.
THEOREM RegistrySurvives ==
    SvcSpec => [](ListenerOwned /\ ChainsNotShared /\ ExposedChainsReclaimed /\ RegisteredCurrent)
<1>1. SvcInv => ListenerOwned /\ ChainsNotShared /\ ExposedChainsReclaimed /\ RegisteredCurrent
  BY DEF SvcInv, IInv
<1> QED BY <1>1, SvcInvCorrect, PTL

\* Edits in parallel never multiply a proxy, for any number of requests at once.
THEOREM OneServerEachCorrect == SvcSpec => []OneServerEach
<1>1. SvcInv => OneServerEach
  <2> SUFFICES ASSUME SvcInv PROVE OneServerEach
    OBVIOUS
  <2>1. \A a \in Admins : Port(a) \in Ports /\ Conf(a) \in Requests /\ frame[a].was \in BOOLEAN
    BY DEF SvcInv, HandlersType, FrameType, Port, Conf
  <2>2. file.state \in {"ok", "blank", "torn"}
    BY DEF SvcInv, HandlersType, FileType
  <2>3. SvcTypeOK
    BY <2>1, <2>2 DEF SvcInv, IInv, HandlersType, SvcTypeOK
  <2> QED BY <2>3 DEF OneServerEach, SvcInv
<1> QED BY <1>1, SvcInvCorrect, PTL

-----------------------------------------------------------------------------
(* Requests that come one at a time.                                        *)

OneAtATime == \A a, b \in Admins : pc[a] # "idle" /\ pc[b] # "idle" => a = b

\* What EditProxy found when it chose the hot-swap still holds when it swaps.
SwapFits ==
    \A a \in Admins : pc[a] = "swap" =>
        Lookup(Port(a)) # NoServer /\ ~RequiresRestart(Lookup(Port(a)), Conf(a))

\* What PersistConfig carries from step to step is what the registry has.
Collected ==
    \A a \in Admins :
        /\ pc[a] \in {"assign", "open", "write"} => frame[a].data = GetAllHTTPConfigs
        /\ pc[a] = "copy" => shared = GetAllHTTPConfigs
        /\ pc[a] = "write" => file.state = "blank"

\* A process that went down after a change that was answered with success, and with
\* no request in progress, left a whole file.
DownIsWhole == ~running /\ ~dirty => file.state = "ok"

AloneInv == /\ OneAtATime /\ ConfigDescribesServer /\ SwapFits /\ Collected
            /\ DownIsWhole /\ AcknowledgedIsSaved

\* A listing has the same listeners wherever a single server of a port is kept.
LEMMA ListingOfOne ==
    ASSUME NEW s \in Server
    PROVE  /\ ConfOf(s) \o ConfOf(NoServer) = <<s.conf>>
           /\ ConfOf(NoServer) \o ConfOf(s) = <<s.conf>>
<1>1. s # NoServer /\ s.conf \in HTTPListener
  BY ToriiAssumption DEF ToriiAssumption, Server
<1>2. ConfOf(s) = <<s.conf>> /\ ConfOf(NoServer) = <<>> /\ <<s.conf>> \in Seq(HTTPListener)
  BY <1>1 DEF ConfOf
<1> QED BY <1>2, ConcatEmptySeq

\* Marks on a server object change neither its configuration nor its socket.
LEMMA MarksKeep ==
    ASSUME NEW s \in Server
    PROVE  /\ [s EXCEPT !.isStarted = TRUE, !.err = FALSE] \in Server
           /\ [s EXCEPT !.isStarted = TRUE, !.err = FALSE].conf = s.conf
           /\ [s EXCEPT !.isStarted = TRUE, !.err = FALSE].built = s.built
           /\ [s EXCEPT !.isStarted = FALSE] \in Server
           /\ [s EXCEPT !.isStarted = FALSE].conf = s.conf
           /\ [s EXCEPT !.isStarted = FALSE].built = s.built
           /\ [s EXCEPT !.err = TRUE] \in Server
           /\ [s EXCEPT !.err = TRUE].conf = s.conf
           /\ [s EXCEPT !.err = TRUE].built = s.built
BY DEF Server

\* What an operation that neither adds, deletes nor swaps does to the two maps: it moves
\* a server from one to the other, or marks it where it is.
Moves(p) ==
    /\ \A q \in Ports : q # p => started'[q] = started[q] /\ stopped'[q] = stopped[q]
    /\ \/ started'[p] = started[p] /\ stopped'[p] = stopped[p]
       \/ \E s, t \in Server :
            /\ t.conf = s.conf /\ t.built = s.built
            /\ \/ started[p] = NoServer /\ stopped[p] = s /\ started'[p] = t /\ stopped'[p] = NoServer
               \/ started[p] = s /\ stopped[p] = NoServer /\ started'[p] = NoServer /\ stopped'[p] = t
               \/ started[p] = s /\ started'[p] = t /\ stopped'[p] = stopped[p]
               \/ stopped[p] = s /\ stopped'[p] = t /\ started'[p] = started[p]

\* Start, stop and the failures are such operations.
LEMMA OperationsMove ==
    ASSUME TypeOK, NEW p \in Ports,
           \/ StartOk(p) \/ StartFailed(p) \/ StopOk(p) \/ StopTimedOut(p) \/ DeleteFailed(p)
           \/ ServeFails(p) \/ OrphanCollected(p)
    PROVE  Moves(p)
<1>1. CASE StartOk(p)
  <2> DEFINE s == stopped[p]
             t == [s EXCEPT !.isStarted = TRUE, !.err = FALSE]
  <2>1. s \in Server /\ t \in Server /\ t.conf = s.conf /\ t.built = s.built
    BY <1>1, MarksKeep DEF StartOk, TypeOK
  <2>2. started[p] = NoServer /\ started' = [started EXCEPT ![p] = t] /\ stopped' = [stopped EXCEPT ![p] = NoServer]
    BY <1>1 DEF StartOk
  <2> HIDE DEF t
  <2> QED BY <2>1, <2>2 DEF Moves, TypeOK
<1>2. CASE StartFailed(p)
  <2> DEFINE s == stopped[p]
             t == [s EXCEPT !.err = TRUE]
  <2>1. s \in Server /\ t \in Server /\ t.conf = s.conf /\ t.built = s.built
    BY <1>2, MarksKeep DEF StartFailed, TypeOK
  <2>2. started' = started /\ stopped' = [stopped EXCEPT ![p] = t]
    BY <1>2 DEF StartFailed
  <2> HIDE DEF t
  <2> QED BY <2>1, <2>2 DEF Moves, TypeOK
<1>3. CASE StopOk(p)
  <2> DEFINE s == started[p]
             t == [s EXCEPT !.isStarted = FALSE]
  <2>1. s \in Server /\ t \in Server /\ t.conf = s.conf /\ t.built = s.built
    BY <1>3, MarksKeep DEF StopOk, TypeOK
  <2>2. stopped[p] = NoServer /\ stopped' = [stopped EXCEPT ![p] = t] /\ started' = [started EXCEPT ![p] = NoServer]
    BY <1>3 DEF StopOk
  <2> HIDE DEF t
  <2> QED BY <2>1, <2>2 DEF Moves, TypeOK
<1>4. CASE ShutdownTimesOut(p)
  <2> DEFINE s == started[p]
             t == [s EXCEPT !.isStarted = FALSE]
  <2>1. s \in Server /\ t \in Server /\ t.conf = s.conf /\ t.built = s.built
    BY <1>4, MarksKeep DEF ShutdownTimesOut, TypeOK
  <2>2. stopped' = stopped /\ started' = [started EXCEPT ![p] = t]
    BY <1>4 DEF ShutdownTimesOut
  <2> HIDE DEF t
  <2> QED BY <2>1, <2>2 DEF Moves, TypeOK
<1>5. CASE UNCHANGED vars \/ ServeFails(p) \/ OrphanCollected(p)
  BY <1>5 DEF vars, ServeFails, OrphanCollected, Moves
<1> QED BY <1>1, <1>2, <1>3, <1>4, <1>5 DEF StopTimedOut, DeleteFailed

\* Such an operation shows in no listing, lookup or description.
LEMMA MovesUnseen ==
    ASSUME TypeOK, NEW p \in Ports, Moves(p)
    PROVE  /\ GetAllHTTPConfigs' = GetAllHTTPConfigs
           /\ ConfigDescribesServer => ConfigDescribesServer'
           /\ \A q \in Ports, c \in Requests :
                Lookup(q) # NoServer /\ ~RequiresRestart(Lookup(q), c)
                => Lookup(q)' # NoServer /\ ~RequiresRestart(Lookup(q)', c)
<1>1. \A s \in Server : s # NoServer
  BY ToriiAssumption DEF ToriiAssumption
<1>2. GetAllHTTPConfigs' = GetAllHTTPConfigs
  <2>1. ASSUME NEW q \in Ports
        PROVE  ConfOf(stopped'[q]) \o ConfOf(started'[q]) = ConfOf(stopped[q]) \o ConfOf(started[q])
    <3>1. CASE started'[q] = started[q] /\ stopped'[q] = stopped[q]
      BY <3>1
    <3>2. CASE q = p /\ ~(started'[q] = started[q] /\ stopped'[q] = stopped[q])
      <4>1. PICK s \in Server, t \in Server :
              /\ t.conf = s.conf
              /\ \/ started[p] = NoServer /\ stopped[p] = s /\ started'[p] = t /\ stopped'[p] = NoServer
                 \/ started[p] = s /\ stopped[p] = NoServer /\ started'[p] = NoServer /\ stopped'[p] = t
                 \/ started[p] = s /\ started'[p] = t /\ stopped'[p] = stopped[p]
                 \/ stopped[p] = s /\ stopped'[p] = t /\ started'[p] = started[p]
        BY <3>2 DEF Moves
      <4>2. ConfOf(s) = ConfOf(t)
        BY <1>1, <4>1 DEF ConfOf
      <4>3. /\ ConfOf(s) \o ConfOf(NoServer) = ConfOf(NoServer) \o ConfOf(s)
            /\ ConfOf(t) \o ConfOf(NoServer) = ConfOf(NoServer) \o ConfOf(t)
        BY ListingOfOne
      <4> QED BY <3>2, <4>1, <4>2, <4>3
    <3> QED BY <3>1, <3>2 DEF Moves
  <2> QED BY <2>1 DEF GetAllHTTPConfigs
<1>3. ConfigDescribesServer => ConfigDescribesServer'
  BY <1>1 DEF Moves, ConfigDescribesServer, SocketOf
<1>4. ASSUME NEW q \in Ports, NEW c \in Requests, Lookup(q) # NoServer, ~RequiresRestart(Lookup(q), c)
      PROVE  Lookup(q)' # NoServer /\ ~RequiresRestart(Lookup(q)', c)
  <2>1. Lookup(q)' # NoServer /\ Lookup(q)'.conf = Lookup(q).conf /\ Lookup(q)'.built = Lookup(q).built
    BY <1>1, <1>4 DEF Moves, Lookup
  <2> QED BY <1>4, <2>1 DEF RequiresRestart
<1> QED BY <1>2, <1>3, <1>4

\* Steps that leave the handlers alone and only move servers.
LEMMA RestKeepsAlone ==
    ASSUME SvcInv, AloneInv, NEW p \in Ports, Moves(p), UNCHANGED svcVars
    PROVE  AloneInv'
<1>1. TypeOK /\ HandlersType
  BY DEF SvcInv, IInv
<1>2. /\ GetAllHTTPConfigs' = GetAllHTTPConfigs
      /\ ConfigDescribesServer => ConfigDescribesServer'
      /\ \A q \in Ports, c \in Requests :
           Lookup(q) # NoServer /\ ~RequiresRestart(Lookup(q), c)
           => Lookup(q)' # NoServer /\ ~RequiresRestart(Lookup(q)', c)
  BY <1>1, MovesUnseen
<1>3. UNCHANGED <<pc, frame, running, shared, file, dirty>>
  BY DEF svcVars
<1>4. OneAtATime' /\ ConfigDescribesServer' /\ DownIsWhole'
  BY <1>2, <1>3 DEF AloneInv, OneAtATime, DownIsWhole
<1>5. SwapFits'
  <2> SUFFICES ASSUME NEW a \in Admins, pc'[a] = "swap"
               PROVE  Lookup(Port(a))' # NoServer /\ ~RequiresRestart(Lookup(Port(a))', Conf(a)')
    BY DEF SwapFits
  <2>1. Port(a) \in Ports /\ Conf(a) \in Requests /\ Port(a)' = Port(a) /\ Conf(a)' = Conf(a)
    BY <1>1, <1>3 DEF Port, Conf, HandlersType, FrameType
  <2>2. PICK q \in Ports : q = Port(a)
    BY <2>1
  <2>3. Lookup(Port(a)) = Lookup(q) /\ Lookup(Port(a))' = Lookup(q)'
    BY <2>1, <2>2 DEF Lookup
  <2>4. Lookup(q) # NoServer /\ ~RequiresRestart(Lookup(q), Conf(a))
    BY <1>3, <2>3 DEF AloneInv, SwapFits
  <2> QED BY <1>2, <2>1, <2>3, <2>4
<1>6. Collected' /\ AcknowledgedIsSaved'
  BY <1>2, <1>3 DEF AloneInv, Collected, AcknowledgedIsSaved, Quiet
<1> QED BY <1>4, <1>5, <1>6 DEF AloneInv

\* When one request takes a step and is in progress before or after it, it is the only
\* one.
LEMMA TheOnlyOne ==
    ASSUME OneAtATime, OneAtATime', NEW a \in Admins, pc[a] # "idle" \/ pc'[a] # "idle",
           \A b \in Admins : b # a => pc'[b] = pc[b]
    PROVE  \A b \in Admins : b # a => pc[b] = "idle" /\ pc'[b] = "idle"
BY DEF OneAtATime

\* What the step of the only request has to show.
LEMMA OnlyOneKeeps ==
    ASSUME NEW a \in Admins, running', OneAtATime', ConfigDescribesServer',
           \A b \in Admins : b # a => pc'[b] = "idle",
           pc'[a] = "swap" => Lookup(Port(a))' # NoServer /\ ~RequiresRestart(Lookup(Port(a))', Conf(a)'),
           pc'[a] \in {"assign", "open", "write"} => frame'[a].data = GetAllHTTPConfigs',
           pc'[a] = "copy" => shared' = GetAllHTTPConfigs',
           pc'[a] = "write" => file'.state = "blank",
           pc'[a] = "idle" /\ ~dirty' => file'.state = "ok" /\ file'.confs = GetAllHTTPConfigs'
    PROVE  AloneInv'
<1>1. SwapFits'
  BY DEF SwapFits
<1>2. Collected' /\ DownIsWhole'
  BY DEF Collected, DownIsWhole
<1>3. AcknowledgedIsSaved'
  BY DEF AcknowledgedIsSaved, Quiet
<1> QED BY <1>1, <1>2, <1>3 DEF AloneInv

\* Deletions, rebuilds and hot-swaps that fit keep every description true.
LEMMA DescribesKept ==
    ASSUME TypeOK, ConfigDescribesServer, NEW p \in Ports,
           \/ DeleteOk(p)
           \/ \E c \in Requests : AddHttpServer(p, c)
           \/ \E c \in Requests : HotSwapOk(p, c) /\ ~RequiresRestart(Lookup(p), c)
    PROVE  ConfigDescribesServer'
<1>1. CASE DeleteOk(p)
  BY <1>1 DEF DeleteOk, DeleteStopped, DeleteStarted, ConfigDescribesServer, TypeOK
<1>2. ASSUME NEW c \in Requests, AddHttpServer(p, c) PROVE ConfigDescribesServer'
  <2> DEFINE s == buildHttpServer(c)
  <2>1. s.built = SocketOf(s.conf)
    BY DEF buildHttpServer
  <2>2. started' = started /\ stopped' = [stopped EXCEPT ![p] = s]
    BY <1>2 DEF AddHttpServer
  <2> HIDE DEF s
  <2> QED BY <2>1, <2>2 DEF ConfigDescribesServer, TypeOK
<1>3. ASSUME NEW c \in Requests, HotSwapOk(p, c), ~RequiresRestart(Lookup(p), c)
      PROVE  ConfigDescribesServer'
  <2> DEFINE s == Lookup(p)
             t == updateServerMetadata(updateHandler(s), c)
  <2>1. s \in Server /\ s.built \in Socket /\ s.conf \in HTTPListener
    BY <1>3 DEF HotSwapOk, Lookup, TypeOK, Server
  <2>2. t.conf = c /\ t.built = s.built
    BY <2>1 DEF updateServerMetadata, updateHandler, Server
  <2>3. SocketOf(s.conf) = s.built
    BY <1>3, <2>1 DEF HotSwapOk, Lookup, ConfigDescribesServer
  <2>4. c \in HTTPListener
    BY ToriiAssumption DEF ToriiAssumption
  <2>5. s.conf.net = c.net /\ s.conf.timeout = c.timeout /\ s.conf.tls = c.tls
    BY <1>3, <2>3 DEF RequiresRestart, SocketOf
  <2>6. SocketOf(c) = s.built
    BY <2>3, <2>5 DEF SocketOf
  <2>7. \/ started' = [started EXCEPT ![p] = t] /\ stopped' = stopped
        \/ stopped' = [stopped EXCEPT ![p] = t] /\ started' = started
    BY <1>3 DEF HotSwapOk
  <2> HIDE DEF t
  <2> QED BY <2>2, <2>6, <2>7 DEF ConfigDescribesServer, TypeOK
<1> QED BY <1>1, <1>2, <1>3

\* A step of EditProxy that calls the registry and goes on or gives up.
LEMMA EditCallKeeps ==
    ASSUME SvcInv, AloneInv, OneAtATime', running', NEW a \in Admins, pc[a] # "idle",
           NEW l \in {"delete", "add", "start", "collect"}, EditContinues(a, l) \/ EditFails(a),
           ConfigDescribesServer'
    PROVE  AloneInv'
<1>1. HandlersType /\ OneAtATime /\ l \in Labels
  BY DEF SvcInv, AloneInv, Labels
<1>2. /\ pc'[a] = l \/ (pc'[a] = "idle" /\ dirty')
      /\ \A b \in Admins : b # a => pc'[b] = pc[b]
  BY <1>1, EditMoves
<1>3. \A b \in Admins : b # a => pc'[b] = "idle"
  BY <1>1, <1>2, TheOnlyOne
<1> QED BY <1>2, <1>3, OnlyOneKeeps

\* The handlers, one request at a time.
LEMMA HandlersKeepAlone ==
    ASSUME SvcInv, AloneInv, OneAtATime', NEW a \in Admins, Handler(a)
    PROVE  AloneInv'
<1>1. TypeOK /\ HandlersType /\ OneAtATime /\ ConfigDescribesServer
  BY DEF SvcInv, IInv, AloneInv
<1>2. Port(a) \in Ports /\ Conf(a) \in Requests /\ frame[a] \in FrameType
  BY <1>1 DEF HandlersType, FrameType, Port, Conf
<1>3. running'
  BY HandlersRun
<1>4. ASSUME UNCHANGED vars PROVE GetAllHTTPConfigs' = GetAllHTTPConfigs /\ ConfigDescribesServer'
  BY <1>1, <1>4 DEF vars, GetAllHTTPConfigs, ConfigDescribesServer
<1>5. ASSUME NEW p \in Ports, Moves(p) PROVE ConfigDescribesServer'
  BY <1>1, <1>5, MovesUnseen
<1>6. ASSUME NEW p \in Ports, HandleStart(a, p) \/ HandleStop(a, p) PROVE AloneInv'
  <2>1. Moves(p) /\ UNCHANGED svcVars
    BY <1>1, <1>6, OperationsMove DEF HandleStart, HandleStop
  <2> QED BY <2>1, RestKeepsAlone
<1>7. ASSUME NEW p \in Ports, HandleDelete(a, p) PROVE AloneInv'
  <2>1. CASE DeleteFailed(p) /\ UNCHANGED <<pc, frame>>
    <3>1. Moves(p) /\ UNCHANGED svcVars
      BY <1>1, <1>7, <2>1, OperationsMove DEF HandleDelete, svcVars
    <3> QED BY <3>1, RestKeepsAlone
  <2>2. CASE DeleteOk(p) /\ Enter(a, "collect", Frame("delete", p, NoFrame.conf))
    <3>1. pc'[a] = "collect" /\ \A b \in Admins : b # a => pc'[b] = pc[b]
      BY <1>1, <2>2, EnterMoves, FrameIsTyped DEF Labels
    <3>2. \A b \in Admins : b # a => pc'[b] = "idle"
      BY <1>1, <3>1, TheOnlyOne
    <3>3. ConfigDescribesServer'
      BY <1>1, <2>2, DescribesKept
    <3> QED BY <1>3, <3>1, <3>2, <3>3, OnlyOneKeeps
  <2> QED BY <1>7, <2>1, <2>2 DEF HandleDelete
<1>8. ASSUME NEW p \in Ports, NEW c \in Requests, HandleCreate(a, p, c) PROVE AloneInv'
  <2>1. AddHttpServer(p, c) /\ Enter(a, "collect", Frame("create", p, c))
    BY <1>8 DEF HandleCreate
  <2>2. pc'[a] = "collect" /\ \A b \in Admins : b # a => pc'[b] = pc[b]
    BY <1>1, <2>1, EnterMoves, FrameIsTyped DEF Labels
  <2>3. \A b \in Admins : b # a => pc'[b] = "idle"
    BY <1>1, <2>2, TheOnlyOne
  <2>4. ConfigDescribesServer'
    BY <1>1, <2>1, DescribesKept
  <2> QED BY <1>3, <2>2, <2>3, <2>4, OnlyOneKeeps
<1>9. ASSUME NEW p \in Ports, NEW c \in Requests, EditCheck(a, p, c) PROVE AloneInv'
  <2>1. PICK l \in {"isStarted", "swap"} : /\ l = "swap" => ~RequiresRestart(Lookup(p), c)
                                           /\ Enter(a, l, Frame("edit", p, c))
    BY <1>9 DEF EditCheck
  <2>2. UNCHANGED vars /\ Lookup(p) # NoServer
    BY <1>9 DEF EditCheck
  <2>3. /\ pc'[a] = l /\ frame'[a] = Frame("edit", p, c)
        /\ \A b \in Admins : b # a => pc'[b] = pc[b]
    BY <1>1, <2>1, EnterMoves, FrameIsTyped DEF Labels
  <2>4. Port(a)' = p /\ Conf(a)' = c
    BY <2>3, FrameIsTyped DEF Port, Conf
  <2>5. Lookup(Port(a))' = Lookup(p)
    BY <2>2, <2>4 DEF Lookup, vars
  <2>6. \A b \in Admins : b # a => pc'[b] = "idle"
    BY <1>1, <2>1, <2>3, TheOnlyOne
  <2> QED BY <1>3, <1>4, <2>1, <2>2, <2>3, <2>4, <2>5, <2>6, OnlyOneKeeps
<1>10. CASE EditIsStarted(a)
  <2>1. PICK l \in {"stop", "delete"} : pc' = [pc EXCEPT ![a] = l]
    BY <1>10 DEF EditIsStarted, Enter, Goto
  <2>2. UNCHANGED vars /\ pc[a] = "isStarted"
    BY <1>10, Zenon DEF EditIsStarted, At
  <2>3. pc'[a] = l /\ \A b \in Admins : b # a => pc'[b] = pc[b]
    BY <1>1, <2>1 DEF HandlersType
  <2>4. \A b \in Admins : b # a => pc'[b] = "idle"
    BY <1>1, <2>1, <2>3, TheOnlyOne
  <2> QED BY <1>3, <1>4, <2>2, <2>3, <2>4, OnlyOneKeeps
<1>11. CASE EditStop(a)
  <2>1. ConfigDescribesServer'
    BY <1>1, <1>2, <1>4, <1>5, <1>11, OperationsMove DEF EditStop, StopRefused
  <2>2. (EditContinues(a, "delete") \/ EditFails(a)) /\ pc[a] # "idle"
    BY <1>11 DEF EditStop, At
  <2> QED BY <1>3, <2>1, <2>2, EditCallKeeps
<1>12. CASE EditDelete(a)
  <2>1. ConfigDescribesServer'
    BY <1>1, <1>2, <1>5, <1>12, OperationsMove, DescribesKept DEF EditDelete
  <2>2. (EditContinues(a, "add") \/ EditFails(a)) /\ pc[a] # "idle"
    BY <1>12 DEF EditDelete, At
  <2> QED BY <1>3, <2>1, <2>2, EditCallKeeps
<1>13. CASE EditAdd(a)
  <2>1. ConfigDescribesServer'
    BY <1>1, <1>2, <1>4, <1>13, DescribesKept DEF EditAdd, AddFailed
  <2>2. PICK l \in {"start", "collect"} : (EditContinues(a, l) \/ EditFails(a)) /\ pc[a] # "idle"
    BY <1>13 DEF EditAdd, At
  <2> QED BY <1>3, <2>1, <2>2, EditCallKeeps
<1>14. CASE EditStart(a)
  <2>1. ConfigDescribesServer'
    BY <1>1, <1>2, <1>4, <1>5, <1>14, OperationsMove DEF EditStart, StartRefused
  <2>2. (EditContinues(a, "collect") \/ EditFails(a)) /\ pc[a] # "idle"
    BY <1>14 DEF EditStart, At
  <2> QED BY <1>3, <2>1, <2>2, EditCallKeeps
<1>15. CASE EditSwap(a)
  <2>1. pc[a] = "swap" /\ ~RequiresRestart(Lookup(Port(a)), Conf(a))
    BY <1>15 DEF EditSwap, At, AloneInv, SwapFits
  <2>2. ConfigDescribesServer'
    BY <1>1, <1>2, <1>4, <1>15, <2>1, DescribesKept DEF EditSwap, HotSwapSkipped, HotSwapFailed
  <2>3. EditContinues(a, "collect") \/ EditFails(a)
    BY <1>15 DEF EditSwap
  <2> QED BY <1>3, <2>1, <2>2, <2>3, EditCallKeeps
<1>16. CASE PersistCollect(a)
  <2> DEFINE f == [frame[a] EXCEPT !.data = GetAllHTTPConfigs]
  <2>1. f \in FrameType /\ f.data = GetAllHTTPConfigs
    BY <1>1, <1>2, ListingType, FrameUpdates
  <2>2. Enter(a, "assign", f) /\ UNCHANGED vars /\ pc[a] # "idle"
    BY <1>16 DEF PersistCollect, At
  <2> HIDE DEF f
  <2>3. pc'[a] = "assign" /\ frame'[a] = f /\ \A b \in Admins : b # a => pc'[b] = pc[b]
    BY <1>1, <2>1, <2>2, EnterMoves DEF Labels
  <2>4. \A b \in Admins : b # a => pc'[b] = "idle"
    BY <1>1, <2>2, <2>3, TheOnlyOne
  <2> QED BY <1>3, <1>4, <2>1, <2>2, <2>3, <2>4, OnlyOneKeeps
<1>17. CASE PersistAssign(a)
  <2>1. Goto(a, "copy") /\ UNCHANGED vars /\ pc[a] = "assign" /\ shared' = frame[a].data
    BY <1>17 DEF PersistAssign, At
  <2>2. pc'[a] = "copy" /\ \A b \in Admins : b # a => pc'[b] = pc[b]
    BY <1>1, <2>1, GotoMoves DEF Labels
  <2>3. \A b \in Admins : b # a => pc'[b] = "idle"
    BY <1>1, <2>1, <2>2, TheOnlyOne
  <2>4. shared' = GetAllHTTPConfigs
    BY <2>1 DEF AloneInv, Collected
  <2> QED BY <1>3, <1>4, <2>1, <2>2, <2>3, <2>4, OnlyOneKeeps
<1>18. CASE PersistCopy(a)
  <2> DEFINE f == [frame[a] EXCEPT !.data = shared]
  <2>1. f \in FrameType /\ f.data = shared
    BY <1>1, <1>2, FrameUpdates DEF HandlersType
  <2>2. Enter(a, "open", f) /\ UNCHANGED vars /\ pc[a] = "copy"
    BY <1>18 DEF PersistCopy, At
  <2> HIDE DEF f
  <2>3. pc'[a] = "open" /\ frame'[a] = f /\ \A b \in Admins : b # a => pc'[b] = pc[b]
    BY <1>1, <2>1, <2>2, EnterMoves DEF Labels
  <2>4. \A b \in Admins : b # a => pc'[b] = "idle"
    BY <1>1, <2>2, <2>3, TheOnlyOne
  <2>5. shared = GetAllHTTPConfigs
    BY <2>2 DEF AloneInv, Collected
  <2> QED BY <1>3, <1>4, <2>1, <2>2, <2>3, <2>4, <2>5, OnlyOneKeeps
<1>19. CASE PersistOpen(a)
  <2>1. UNCHANGED vars /\ pc[a] = "open"
    BY <1>19 DEF PersistOpen, At
  <2>2. CASE file' = File("blank", NoListeners) /\ Goto(a, "write") /\ UNCHANGED <<frame, dirty>>
    <3>1. pc'[a] = "write" /\ \A b \in Admins : b # a => pc'[b] = pc[b]
      BY <1>1, <2>2, GotoMoves DEF Labels
    <3>2. \A b \in Admins : b # a => pc'[b] = "idle"
      BY <1>1, <2>1, <3>1, TheOnlyOne
    <3>3. frame'[a].data = GetAllHTTPConfigs
      BY <2>1, <2>2 DEF AloneInv, Collected
    <3>4. file'.state = "blank"
      BY <2>2 DEF File
    <3> QED BY <1>3, <1>4, <2>1, <3>1, <3>2, <3>3, <3>4, OnlyOneKeeps
  <2>3. CASE Return(a) /\ dirty' = TRUE /\ UNCHANGED file
    <3>1. pc'[a] = "idle" /\ \A b \in Admins : b # a => pc'[b] = pc[b]
      BY <1>1, <2>3, ReturnMoves
    <3>2. \A b \in Admins : b # a => pc'[b] = "idle"
      BY <1>1, <2>1, <3>1, TheOnlyOne
    <3> QED BY <1>3, <1>4, <2>1, <2>3, <3>1, <3>2, OnlyOneKeeps
  <2> QED BY <1>19, <2>2, <2>3 DEF PersistOpen
<1>20. CASE PersistWrite(a)
  <2>1. UNCHANGED vars /\ pc[a] = "write" /\ Return(a)
    BY <1>20 DEF PersistWrite, At
  <2>2. pc'[a] = "idle" /\ \A b \in Admins : b # a => pc'[b] = pc[b]
    BY <1>1, <2>1, ReturnMoves
  <2>3. \A b \in Admins : b # a => pc'[b] = "idle"
    BY <1>1, <2>1, <2>2, TheOnlyOne
  <2>4. file.state = "blank" /\ frame[a].data = GetAllHTTPConfigs
    BY <2>1 DEF AloneInv, Collected
  <2>5. dirty' \/ file' = File("ok", frame[a].data)
    BY <1>20, <2>4 DEF PersistWrite
  <2>6. ~dirty' => file'.state = "ok" /\ file'.confs = GetAllHTTPConfigs
    BY <2>4, <2>5 DEF File
  <2> QED BY <1>3, <1>4, <2>1, <2>2, <2>3, <2>6, OnlyOneKeeps
<1> QED BY <1>6, <1>7, <1>8, <1>9, <1>10, <1>11, <1>12, <1>13, <1>14, <1>15, <1>16, <1>17, <1>18,
           <1>19, <1>20 DEF Handler

\* applyDefaultTimeouts changes nothing the second time.
LEMMA DefaultsOnce ==
    ASSUME NEW c \in HTTPListener
    PROVE  applyDefaultTimeouts(applyDefaultTimeouts(c)) = applyDefaultTimeouts(c)
<1>1. CASE c.timeout = 0
  <2>1. applyDefaultTimeouts(c) = [c EXCEPT !.timeout = DefaultTimeout]
    BY <1>1 DEF applyDefaultTimeouts
  <2> QED BY <2>1 DEF applyDefaultTimeouts, HTTPListener
<1>2. CASE c.timeout # 0
  <2>1. applyDefaultTimeouts(c) = c
    BY <1>2 DEF applyDefaultTimeouts, HTTPListener
  <2> QED BY <2>1
<1> QED BY <1>1, <1>2

\* A process that loads the file has in memory what the file says.
LEMMA BootKeepsAlone ==
    ASSUME SvcInv, AloneInv, NEW up \in SUBSET Ports, Boot(up)
    PROVE  AloneInv'
<1>1. HandlersType /\ Quiet /\ ~running
  BY DEF SvcInv, DownIsQuiet, Boot
<1>2. running' /\ UNCHANGED <<pc, frame, file, dirty>>
  BY DEF Boot
<1>3. OneAtATime' /\ SwapFits' /\ Collected' /\ DownIsWhole'
  BY <1>1, <1>2 DEF Quiet, OneAtATime, SwapFits, Collected, DownIsWhole
<1>4. ConfigDescribesServer'
  BY <1>1, BootBringsUp DEF ConfigDescribesServer
<1>5. ASSUME NEW p \in Ports
      PROVE  AfterRestart(file.confs[p]) = AfterRestart(GetAllHTTPConfigs'[p])
  <2> DEFINE confs == file.confs[p]
             c == Survivor(confs)
             now == GetAllHTTPConfigs'[p]
  <2>1. now = ConfOf(stopped'[p]) \o ConfOf(started'[p])
    BY DEF GetAllHTTPConfigs
  <2>2. confs \in Seq(HTTPListener)
    BY <1>1 DEF HandlersType, FileType, Lists
  <2>3. CASE confs = <<>>
    <3>1. stopped'[p] = NoServer /\ started'[p] = NoServer
      BY <1>1, <2>3, BootBringsUp
    <3>2. now = <<>>
      BY <2>1, <3>1 DEF ConfOf
    <3> QED BY <2>3, <3>2 DEF AfterRestart
  <2>4. CASE confs # <<>>
    <3>1. PICK s \in Server : /\ s.conf = c
                              /\ \/ started'[p] = s /\ stopped'[p] = NoServer
                                 \/ stopped'[p] = s /\ started'[p] = NoServer
      BY <1>1, <2>4, BootBringsUp
    <3>2. now = <<c>>
      BY <2>1, <3>1, ListingOfOne
    <3>3. confs[Len(confs)] \in HTTPListener
      BY <2>2, <2>4
    <3>4. applyDefaultTimeouts(c) = c
      BY <3>3, DefaultsOnce DEF Survivor
    <3> HIDE DEF c, now
    <3>5. Survivor(now) = c /\ now # <<>>
      BY <3>2, <3>4 DEF Survivor
    <3> QED BY <2>4, <3>5 DEF AfterRestart, c, now
  <2> QED BY <2>3, <2>4
<1>6. AcknowledgedIsSaved'
  BY <1>1, <1>2, <1>5 DEF AcknowledgedIsSaved, AloneInv, DownIsWhole
<1> QED BY <1>3, <1>4, <1>6 DEF AloneInv

\* The end of the process: what was in progress counts as unanswered.
LEMMA ProcessEndsKeepsAlone ==
    ASSUME SvcInv, AloneInv, ProcessEnds
    PROVE  AloneInv'
<1>1. /\ running /\ ~running' /\ file' = file
      /\ \A a \in Admins : pc'[a] = "idle"
      /\ \A p \in Ports : started'[p] = NoServer /\ stopped'[p] = NoServer
      /\ ~dirty' => ~dirty /\ Quiet
  BY DEF ProcessEnds, Quiet
<1>2. DownIsWhole'
  BY <1>1 DEF DownIsWhole, AloneInv, AcknowledgedIsSaved
<1>3. OneAtATime' /\ ConfigDescribesServer' /\ SwapFits' /\ Collected' /\ AcknowledgedIsSaved'
  BY <1>1 DEF OneAtATime, ConfigDescribesServer, SwapFits, Collected, AcknowledgedIsSaved
<1> QED BY <1>2, <1>3 DEF AloneInv

\* Every step keeps it, as long as requests come one at a time.
LEMMA AloneStep ==
    ASSUME SvcInv, AloneInv, [SvcNext]_allVars, OneAtATime'
    PROVE  AloneInv'
<1>1. TypeOK
  BY DEF SvcInv, IInv
<1>2. ASSUME NEW a \in Admins, Handler(a) PROVE AloneInv'
  BY <1>2, HandlersKeepAlone
<1>3. CASE Environment
  <2>1. PICK p \in Ports : (ServeFails(p) \/ OrphanCollected(p)) /\ UNCHANGED svcVars
    BY <1>3 DEF Environment
  <2> QED BY <1>1, <2>1, OperationsMove, RestKeepsAlone
<1>4. CASE UNCHANGED allVars
  <2>1. PICK p : p \in Ports
    BY ServiceAssumption DEF ServiceAssumption
  <2>2. Moves(p) /\ UNCHANGED svcVars
    BY <1>4 DEF allVars, vars, Moves
  <2> QED BY <2>1, <2>2, RestKeepsAlone
<1> QED BY <1>2, <1>3, <1>4, BootKeepsAlone, ProcessEndsKeepsAlone DEF SvcNext

\* In the first process nothing is listed and nothing is saved.
LEMMA AloneInit == SvcInit => AloneInv
<1> SUFFICES ASSUME SvcInit PROVE AloneInv
  OBVIOUS
<1>1. /\ running /\ file = File("ok", NoListeners)
      /\ \A a \in Admins : pc[a] = "idle"
      /\ \A p \in Ports : started[p] = NoServer /\ stopped[p] = NoServer
  BY DEF SvcInit, Init
<1>2. \A p \in Ports : GetAllHTTPConfigs[p] = <<>> /\ file.confs[p] = <<>>
  BY <1>1 DEF GetAllHTTPConfigs, ConfOf, File, NoListeners
<1>3. AcknowledgedIsSaved
  BY <1>1, <1>2 DEF AcknowledgedIsSaved, File
<1> QED BY <1>1, <1>3 DEF AloneInv, OneAtATime, ConfigDescribesServer, SwapFits, Collected, DownIsWhole

\* The two modes are behaviours of the handlers, and in one of them requests come one
\* at a time.
THEOREM AloneInvCorrect == ModeSpec => [](SvcInv /\ (mode = "alone" => AloneInv))
<1>1. ModeInit => SvcInv /\ (mode = "alone" => AloneInv)
  BY SvcInvInit, AloneInit DEF ModeInit
<1>2. SvcInv /\ (mode = "alone" => AloneInv) /\ [ModeNext]_modeVars
      => (SvcInv /\ (mode = "alone" => AloneInv))'
  <2> SUFFICES ASSUME SvcInv, mode = "alone" => AloneInv, [ModeNext]_modeVars
               PROVE  SvcInv' /\ (mode' = "alone" => AloneInv')
    OBVIOUS
  <2>1. [SvcNext]_allVars /\ mode' = mode
    BY DEF ModeNext, modeVars
  <2>2. SvcInv'
    BY <2>1, SvcInvStep
  <2>3. ASSUME mode' = "alone" PROVE AloneInv'
    <3>1. OneAtATime'
      <4>1. CASE ModeNext
        BY <2>3, <4>1 DEF ModeNext, Alone, Overlap, OneAtATime
      <4>2. CASE UNCHANGED modeVars
        BY <2>1, <2>3, <4>2 DEF modeVars, allVars, svcVars, AloneInv, OneAtATime
      <4> QED BY <4>1, <4>2
    <3> QED BY <2>1, <2>3, <3>1, AloneStep
  <2> QED BY <2>2, <2>3
<1> QED BY <1>1, <1>2, PTL DEF ModeSpec

\* With requests one at a time, whatever fails and whenever the process ends, a restart
\* brings back what the management API has acknowledged.
THEOREM AloneIsSavedCorrect == ModeSpec => []AloneIsSaved
<1>1. SvcInv /\ (mode = "alone" => AloneInv) => AloneIsSaved
  BY DEF AloneInv, AloneIsSaved
<1> QED BY <1>1, AloneInvCorrect, PTL

\* With requests one at a time the configuration that is shown, saved and compared with
\* describes the socket the server really has: no sequence of hot-swaps and rebuilds
\* lets the two drift apart.
THEOREM AloneDescribesCorrect == ModeSpec => []AloneDescribes
<1>1. SvcInv /\ (mode = "alone" => AloneInv) => AloneDescribes
  BY DEF AloneInv, AloneDescribes
<1> QED BY <1>1, AloneInvCorrect, PTL
=============================================================================
