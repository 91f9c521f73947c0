------------------------------- MODULE Torii -------------------------------
(***************************************************************************)
(* The registry of HTTP servers (proxy/proxy.go, type Torii) with the      *)
(* server objects it keeps (proxy/http.go, proxy/https.go), the handler    *)
(* chains built for them (proxy/config.go) and the handlers registered     *)
(* with the global dispatcher (proxy/global_dispatcher.go).                *)
(*                                                                         *)
(* Every method of Torii that changes the registry holds m.lock from its   *)
(* first read to its last write, so each is one action here.  Next lets    *)
(* the callers invoke the methods in any order with any argument, which    *)
(* covers every interleaving of the management API's handlers;             *)
(* ManagedService restricts it to the sequences EditProxy and the other    *)
(* handlers really perform.                                                *)
(***************************************************************************)
EXTENDS Integers, FiniteSets

CONSTANTS
    Ports,          \* listening ports
    Nets,           \* values of the fields Bind, Interface and DisableHTTP2
    Timeouts,       \* values of the four timeout fields; 0 is "not set"
    DefaultTimeout, \* what applyDefaultTimeouts puts in the place of 0
    Routes,         \* values of the fields Routes and Default
    BadRoutes,      \* those from which no handler chain can be built
    Requests,       \* the listener configurations that callers pass in
    MaxChains,      \* bound: handler chains built in a behaviour
    NoServer        \* a missing entry of a server map

Tls == {"none", "files", "acme"}

\* config.HTTPListener.  The port is the key under which the registry keeps it.
HTTPListener == [net : Nets, timeout : Timeouts, tls : Tls, routes : Routes]

\* What the object was built with and only a rebuild can change: the bind
\* addresses, the timeouts copied into http.Server, and the Go type (HTTP/HTTPS).
Socket == [net : Nets, timeout : Timeouts, tls : Tls]
SocketOf(conf) == [net |-> conf.net, timeout |-> conf.timeout, tls |-> conf.tls]

\* A handler chain owns a runtime context: its caches are swept and its block
\* lists and databases are refreshed by goroutines that end with the context.
Chain == 1 .. MaxChains

\* ToriiHttpServer and ToriiHttpsServer.
Server == [built     : Socket,        \* bindPort, timeouts, useAcme, certFilepath, ...
           conf      : HTTPListener,  \* currentConfig
           chain     : Chain,         \* handler and cancelChain
           isStarted : BOOLEAN,
           err       : BOOLEAN]       \* errorMessage # ""

ASSUME ToriiAssumption ==
    /\ DefaultTimeout \in Timeouts
    /\ Requests \subseteq HTTPListener
    /\ MaxChains \in Nat
    /\ NoServer \notin Server

VARIABLES
    stopped,    \* stoppedHttpServers
    started,    \* startedHttpServers
    listener,   \* the sockets this process holds on a port: closed, serving
                \* (accepted by an http.Server) or orphan (bound, nobody accepts)
    ctx,        \* the runtime context of each chain
    nextChain,  \* the next chain buildHandlerChain creates
    registered, \* GlobalDispatcher.registeredHandlers; 0 is "no entry"
    exposed     \* history: the chains that a started server has used

vars == <<stopped, started, listener, ctx, nextChain, registered, exposed>>

-----------------------------------------------------------------------------
\* The chain buildHandlerChain creates next, if the routes can be built; its
\* context is cancelled again before an error is returned.
Buildable(conf) == conf.routes \notin BadRoutes /\ nextChain <= MaxChains

applyDefaultTimeouts(conf) ==
    [conf EXCEPT !.timeout = IF @ = 0 THEN DefaultTimeout ELSE @]

\* Mutant: a chain that is built once and handed out again.
ChainReused(p) ==
    /\ ctx' = [ctx EXCEPT ![nextChain] = "live"]
    /\ nextChain' = nextChain
    /\ registered' = [registered EXCEPT ![p] = nextChain]

\* Mutant: a port that has a handler keeps it.
RegisteredOnce(p) ==
    /\ ctx' = [ctx EXCEPT ![nextChain] = "live"]
    /\ nextChain' = nextChain + 1
    /\ registered' = [registered EXCEPT ![p] = IF @ = 0 THEN nextChain ELSE @]

\* Registers the new handler for the port before any server uses it.
buildHandlerChain(p) ==
    /\ ctx' = [ctx EXCEPT ![nextChain] = "live"]
    /\ nextChain' = nextChain + 1
    /\ registered' = [registered EXCEPT ![p] = nextChain]

buildHttpServer(conf) ==
    LET c == applyDefaultTimeouts(conf)
    IN  [built |-> SocketOf(c), conf |-> c, chain |-> nextChain,
         isStarted |-> FALSE, err |-> FALSE]

\* The lookup of HotSwapHandler and DoesConfigRequireServerRestart.
Lookup(p) == IF started[p] # NoServer THEN started[p] ELSE stopped[p]

\* Mutant: the comparison of the timeouts is missing.
TimeoutsIgnored(s, conf) ==
    \/ s.conf.net # conf.net
    \/ IF s.built.tls = "none" THEN conf.tls # "none" ELSE s.conf.tls # conf.tls

\* DoesConfigChangeRequireServerRestart of the two server types.
RequiresRestart(s, conf) ==
    \/ s.conf.net # conf.net
    \/ s.conf.timeout # conf.timeout
    \/ IF s.built.tls = "none" THEN conf.tls # "none" ELSE s.conf.tls # conf.tls

\* Mutant: stop() without Shutdown.
StopKeepsSocket(p) ==
    /\ ctx' = [ctx EXCEPT ![started[p].chain] = "cancelled"]
    /\ UNCHANGED listener

\* Mutant: stop() without cancelChain.
StopKeepsChain(p) ==
    /\ listener' = [listener EXCEPT ![p] = IF @ = "serving" THEN "closed" ELSE @]
    /\ UNCHANGED ctx

\* Both server types' stop(): the chain's context is cancelled, Shutdown closes
\* the sockets the http.Server accepts on, whether or not it then times out.
stopServer(p) ==
    /\ ctx' = [ctx EXCEPT ![started[p].chain] = "cancelled"]
    /\ listener' = [listener EXCEPT ![p] = IF @ = "serving" THEN "closed" ELSE @]

-----------------------------------------------------------------------------
Init ==
    /\ stopped = [p \in Ports |-> NoServer]
    /\ started = [p \in Ports |-> NoServer]
    /\ listener = [p \in Ports |-> "closed"]
    /\ ctx = [c \in Chain |-> "unbuilt"]
    /\ nextChain = 1
    /\ registered = [p \in Ports |-> 0]
    /\ exposed = {}

\* StartHttpProxy returns nil.  With certificate files that exist but cannot be
\* loaded, ServeTLS gives up after start() has returned and leaves the socket bound.
StartOk(p) ==
    /\ started[p] = NoServer
    /\ stopped[p] # NoServer
    /\ listener[p] = "closed"
    /\ \/ listener' = [listener EXCEPT ![p] = "serving"]
       \/ stopped[p].built.tls = "files" /\ listener' = [listener EXCEPT ![p] = "orphan"]
    /\ started' = [started EXCEPT ![p] = [stopped[p] EXCEPT !.isStarted = TRUE, !.err = FALSE]]
    /\ stopped' = [stopped EXCEPT ![p] = NoServer]
    /\ exposed' = exposed \union {stopped[p].chain}
    /\ UNCHANGED <<ctx, nextChain, registered>>

\* StartHttpProxy finds no server to start.
StartRefused(p) ==
    /\ started[p] # NoServer \/ stopped[p] = NoServer
    /\ UNCHANGED vars

\* start() fails: a socket cannot be bound, there is no ACME configuration or no
\* certificate file.  Whatever was bound is closed again.
StartFailed(p) ==
    /\ started[p] = NoServer
    /\ stopped[p] # NoServer
    /\ stopped' = [stopped EXCEPT ![p].err = TRUE]
    /\ UNCHANGED <<started, listener, ctx, nextChain, registered, exposed>>

\* StopHttpProxy answers that the server is stopped already.
StopAlreadyStopped(p) == stopped[p] # NoServer

StopRefused(p) ==
    /\ StopAlreadyStopped(p) \/ started[p] = NoServer
    /\ UNCHANGED vars

StopOk(p) ==
    /\ stopped[p] = NoServer
    /\ started[p] # NoServer
    /\ stopServer(p)
    /\ stopped' = [stopped EXCEPT ![p] = [started[p] EXCEPT !.isStarted = FALSE]]
    /\ started' = [started EXCEPT ![p] = NoServer]
    /\ UNCHANGED <<nextChain, registered, exposed>>

\* Shutdown runs into its 30 s timeout: the server stays in startedHttpServers.
ShutdownTimesOut(p) ==
    /\ started[p] # NoServer
    /\ stopServer(p)
    /\ started' = [started EXCEPT ![p].isStarted = FALSE]
    /\ UNCHANGED <<stopped, nextChain, registered, exposed>>

StopTimedOut(p) == stopped[p] = NoServer /\ ShutdownTimesOut(p)

DeleteStopped(p) ==
    /\ stopped[p] # NoServer
    /\ stopped' = [stopped EXCEPT ![p] = NoServer]
    /\ UNCHANGED <<started, listener, ctx, nextChain, registered, exposed>>

DeleteStarted(p) ==
    /\ stopped[p] = NoServer
    /\ started[p] # NoServer
    /\ stopServer(p)
    /\ started' = [started EXCEPT ![p] = NoServer]
    /\ UNCHANGED <<stopped, nextChain, registered, exposed>>

DeleteOk(p) == DeleteStopped(p) \/ DeleteStarted(p)

DeleteFailed(p) ==
    \/ stopped[p] = NoServer /\ started[p] = NoServer /\ UNCHANGED vars
    \/ stopped[p] = NoServer /\ ShutdownTimesOut(p)

\* Mutant: the chain of the server already running on the port is cancelled.
AddCancels(p, conf) ==
    /\ Buildable(conf)
    /\ ctx' = [c \in Chain |-> IF c = nextChain THEN "live"
                               ELSE IF started[p] # NoServer /\ c = started[p].chain
                               THEN "cancelled" ELSE ctx[c]]
    /\ nextChain' = nextChain + 1
    /\ registered' = [registered EXCEPT ![p] = nextChain]
    /\ stopped' = [stopped EXCEPT ![p] = buildHttpServer(conf)]
    /\ UNCHANGED <<started, listener, exposed>>

\* AddHttpServer looks at neither map before it stores the new server.
AddHttpServer(p, conf) ==
    /\ Buildable(conf)
    /\ buildHandlerChain(p)
    /\ stopped' = [stopped EXCEPT ![p] = buildHttpServer(conf)]
    /\ UNCHANGED <<started, listener, exposed>>

\* The routes do not build, or the interface has no address.
AddFailed == UNCHANGED vars

\* HotSwapHandler returns nil without a swap: the configuration is the same.
HotSwapSkipped(p, conf) ==
    /\ Lookup(p) # NoServer
    /\ Lookup(p).conf = conf
    /\ UNCHANGED vars

HotSwapFailed(p, conf) ==
    /\ \/ Lookup(p) = NoServer
       \/ Lookup(p) # NoServer /\ Lookup(p).conf # conf /\ conf.routes \in BadRoutes
    /\ UNCHANGED vars

updateHandler(s) == [s EXCEPT !.chain = nextChain]
updateServerMetadata(s, conf) == [s EXCEPT !.conf = conf]

\* The new chain is built and registered, the old one cancelled, the handler
\* swapped and the metadata replaced.
HotSwapOk(p, conf) ==
    LET s == Lookup(p)
        t == updateServerMetadata(updateHandler(s), conf)
    IN  /\ s # NoServer
        /\ s.conf # conf
        /\ Buildable(conf)
        /\ ctx' = [ctx EXCEPT ![nextChain] = "live", ![s.chain] = "cancelled"]
        /\ nextChain' = nextChain + 1
        /\ registered' = [registered EXCEPT ![p] = nextChain]
        /\ IF started[p] # NoServer
           THEN /\ started' = [started EXCEPT ![p] = t]
                /\ exposed' = exposed \union {nextChain}
                /\ UNCHANGED stopped
           ELSE /\ stopped' = [stopped EXCEPT ![p] = t]
                /\ UNCHANGED <<started, exposed>>
        /\ UNCHANGED listener

\* Serve returns with an error (Accept fails): the socket is closed, nothing else.
ServeFails(p) ==
    /\ listener[p] = "serving"
    /\ listener' = [listener EXCEPT ![p] = "closed"]
    /\ UNCHANGED <<stopped, started, ctx, nextChain, registered, exposed>>

\* External: the Go runtime closes an unreachable socket when it collects it.
OrphanCollected(p) ==
    /\ listener[p] = "orphan"
    /\ listener' = [listener EXCEPT ![p] = "closed"]
    /\ UNCHANGED <<stopped, started, ctx, nextChain, registered, exposed>>

Step(p) ==
    \/ StartOk(p) \/ StartFailed(p)
    \/ StopOk(p) \/ StopTimedOut(p)
    \/ DeleteOk(p) \/ DeleteFailed(p)
    \/ \E conf \in Requests : AddHttpServer(p, conf) \/ HotSwapOk(p, conf)
    \/ ServeFails(p) \/ OrphanCollected(p)

Next == \E p \in Ports : Step(p)

Spec == Init /\ [][Next]_vars

-----------------------------------------------------------------------------
\* The servers in the registry, each with the place it has.
Owns(m, p, c) == m[p] # NoServer /\ m[p].chain = c
Owned(c) == \E p \in Ports : Owns(started, p, c) \/ Owns(stopped, p, c)

\* The types of the registry's maps and of what the program keeps beside them.
TypeOK ==
    /\ stopped \in [Ports -> Server \union {NoServer}]
    /\ started \in [Ports -> Server \union {NoServer}]
    /\ listener \in [Ports -> {"closed", "serving", "orphan"}]
    /\ ctx \in [Chain -> {"unbuilt", "live", "cancelled"}]
    /\ nextChain \in 1 .. MaxChains + 1
    /\ registered \in [Ports -> 0 .. MaxChains]
    /\ exposed \subseteq Chain

\* A socket that answers requests belongs to a server in startedHttpServers that
\* shows itself as started: no sequence of Start, Stop, Delete, Add, HotSwap and
\* failures leaves a port answering that StopHttpProxy and DeleteHttpProxy can no
\* longer reach, and a server in stoppedHttpServers never answers.
ListenerOwned ==
    \A p \in Ports :
        /\ listener[p] = "serving" => started[p] # NoServer /\ started[p].isStarted
        /\ stopped[p] # NoServer => ~stopped[p].isStarted

\* A chain has one owner: no two server objects in the registry share a chain, so
\* the cancelChain of one server (stop, updateHandler) cannot end the background
\* work of another.
ChainsNotShared ==
    \A p, q \in Ports :
        /\ started[p] # NoServer /\ stopped[q] # NoServer => started[p].chain # stopped[q].chain
        /\ p # q /\ started[p] # NoServer /\ started[q] # NoServer => started[p].chain # started[q].chain
        /\ p # q /\ stopped[p] # NoServer /\ stopped[q] # NoServer => stopped[p].chain # stopped[q].chain

\* The background work of a chain that a started server has used is ended once no
\* server in the registry has that chain.  (Chains that only ever belonged to a
\* stopped server are not covered: DeleteHttpProxy and AddHttpServer drop those
\* without cancelling them.)
ExposedChainsReclaimed ==
    \A c \in exposed : ~Owned(c) => ctx[c] = "cancelled"

\* A started server is never without an entry in the global dispatcher (whose
\* answer would be 404), and the entry is never older than the server's own chain.
RegisteredCurrent ==
    \A p \in Ports :
        /\ started[p] # NoServer => registered[p] >= started[p].chain
        /\ stopped[p] # NoServer => registered[p] >= stopped[p].chain

\* As long as a started server keeps its handler and its socket, no operation on
\* any port ends its background work, builds that fail included.
BackgroundKept ==
    [][\A p \in Ports :
        (/\ listener[p] = "serving" /\ listener'[p] = "serving"
         /\ started[p] # NoServer /\ started'[p] # NoServer
         /\ started'[p].chain = started[p].chain)
        => ctx'[started[p].chain] = ctx[started[p].chain]]_vars

\* The chain that answers on a port.
Serving == [p \in Ports |-> IF listener[p] = "serving" /\ started[p] # NoServer THEN started[p].chain ELSE 0]

Public == INSTANCE Exposure WITH Chains <- Chain, serving <- Serving, used <- exposed

\* The registry implements Exposure: whatever Start, Stop, Delete, Add and HotSwap
\* do, a chain answers on one port only, and a port that answers changes to a chain
\* that is new, in one step and without an interruption (HotSwapHandler).
ExposureSpec == Public!Spec

-----------------------------------------------------------------------------
(* What the repository says of the registry and the code does not keep.    *)

\* While a server answers requests its chain's context is live, so that block lists
\* and databases are fetched again at the refresh interval (docs/configuration.md).
ServingHasLiveChain ==
    \A p \in Ports : listener[p] = "serving" => ctx[started[p].chain] = "live"
=============================================================================
