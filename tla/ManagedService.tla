--------------------------- MODULE ManagedService ---------------------------
(***************************************************************************)
(* The management API's proxy handlers (api/handler_proxy.go) on top of    *)
(* managedService (internal/app/system.go), the registry of Torii and the  *)
(* configuration file (config.SaveConfiguration, config.LoadConfiguration).*)
(*                                                                         *)
(* Handlers run concurrently, one goroutine per request.  Each call into   *)
(* Torii is atomic (Torii.lock), but EditProxy and PersistConfig make       *)
(* several calls and hold no lock of their own: between two of their steps *)
(* another handler, or the end of the process, may come.                   *)
(***************************************************************************)
EXTENDS Torii, Sequences

CONSTANTS
    Admins,     \* concurrent requests to the management API
    MaxCreates  \* bound: creations of a proxy on one port

ASSUME ServiceAssumption ==
    /\ IsFiniteSet(Admins) /\ IsFiniteSet(Ports)
    /\ Ports # {} /\ Requests # {}
    /\ MaxCreates \in Nat \ {0}
    /\ Cardinality(Ports) <= MaxChains

VARIABLES
    running,  \* the process is up
    pc,       \* where each request is
    frame,    \* its arguments and local variables
    shared,   \* managedService.appConfig.NetConfig.HTTPListeners
    file,     \* the configuration file
    creates,  \* history: creations per port in this process
    dirty,    \* history: the last change was answered with an error or a warning
    deleted   \* history: ports deleted with success and not created again

svcVars == <<running, pc, frame, shared, file, creates, dirty, deleted>>
allVars == <<vars, svcVars>>

\* What a list of listeners holds for each port, in the order of the list.
NoListeners == [p \in Ports |-> <<>>]

\* The bytes of the file: a list of listeners, nothing yet (os.WriteFile has
\* truncated it), or a mixture of two writes that does not parse.
File(state, confs) == [state |-> state, confs |-> confs]

ConfOf(s) == IF s = NoServer THEN <<>> ELSE <<s.conf>>

\* GetAllHTTPConfigs: the stopped servers, then the started ones.
GetAllHTTPConfigs == [p \in Ports |-> ConfOf(stopped[p]) \o ConfOf(started[p])]

\* op, port and conf are the request, was is EditProxy's wasStarted, data the
\* listeners that PersistConfig has collected or is about to write.
Frame(op, p, conf) ==
    [op |-> op, port |-> p, conf |-> conf, was |-> FALSE, data |-> NoListeners]
NoFrame == Frame("none", CHOOSE p \in Ports : TRUE, CHOOSE c \in Requests : TRUE)

\* The steps of EditProxy, and those of PersistConfig.
Labels == {"idle", "isStarted", "stop", "delete", "add", "start", "swap",
           "collect", "assign", "copy", "open", "write"}

Port(a) == frame[a].port
Conf(a) == frame[a].conf

At(a, l) == running /\ pc[a] = l
Goto(a, l) == pc' = [pc EXCEPT ![a] = l]
Enter(a, l, f) == Goto(a, l) /\ frame' = [frame EXCEPT ![a] = f]
Return(a) == Enter(a, "idle", NoFrame)

-----------------------------------------------------------------------------
SvcInit ==
    /\ Init
    /\ running = TRUE
    /\ pc = [a \in Admins |-> "idle"]
    /\ frame = [a \in Admins |-> NoFrame]
    /\ shared = NoListeners
    /\ file = File("ok", NoListeners)
    /\ creates = [p \in Ports |-> 0]
    /\ dirty = FALSE
    /\ deleted = {}

\* handleStartProxy and handleStopProxy: one call into Torii, nothing is saved.
HandleStart(a, p) ==
    /\ At(a, "idle")
    /\ StartOk(p) \/ StartFailed(p)
    /\ UNCHANGED svcVars

HandleStop(a, p) ==
    /\ At(a, "idle")
    /\ StopOk(p) \/ StopTimedOut(p)
    /\ UNCHANGED svcVars

\* handleDeleteProxy up to PersistConfig.
HandleDelete(a, p) ==
    /\ At(a, "idle")
    /\ \/ DeleteOk(p) /\ Enter(a, "collect", Frame("delete", p, NoFrame.conf))
       \/ DeleteFailed(p) /\ UNCHANGED <<pc, frame>>
    /\ UNCHANGED <<running, shared, file, creates, dirty, deleted>>

\* handleCreateHttpProxyServer up to PersistConfig.
HandleCreate(a, p, conf) ==
    /\ At(a, "idle")
    /\ creates[p] < MaxCreates
    /\ AddHttpServer(p, conf)
    /\ creates' = [creates EXCEPT ![p] = @ + 1]
    /\ deleted' = deleted \ {p}
    /\ Enter(a, "collect", Frame("create", p, conf))
    /\ UNCHANGED <<running, shared, file, dirty>>

\* DoesConfigRequireServerRestart reads currentConfig.TLS of an HTTPS server
\* without a nil check; a request that panics there ends with nothing done.
RestartCheckPanics(s, conf) ==
    /\ s.built.tls # "none" /\ s.conf.tls = "none" /\ conf.tls # "none"
    /\ s.conf.net = conf.net /\ s.conf.timeout = conf.timeout

\* handleEditProxy / EditProxy: the decision between hot-swap and rebuild.
EditCheck(a, p, conf) ==
    /\ At(a, "idle")
    /\ Lookup(p) # NoServer
    /\ ~RestartCheckPanics(Lookup(p), conf)
    /\ Enter(a, IF RequiresRestart(Lookup(p), conf) THEN "isStarted" ELSE "swap",
                Frame("edit", p, conf))
    /\ UNCHANGED <<vars, running, shared, file, creates, dirty, deleted>>

EditIsStarted(a) ==
    LET was == started[Port(a)] # NoServer
    IN  /\ At(a, "isStarted")
        /\ Enter(a, IF was THEN "stop" ELSE "delete", [frame[a] EXCEPT !.was = was])
        /\ UNCHANGED <<vars, running, shared, file, creates, dirty, deleted>>

\* On failure the steps below return the error to the client: nothing is rolled
\* back and nothing is saved.
EditFails(a) == Return(a) /\ dirty' = TRUE
EditContinues(a, l) == Goto(a, l) /\ UNCHANGED <<frame, dirty>>

EditStop(a) ==
    /\ At(a, "stop")
    /\ \/ StopOk(Port(a)) /\ EditContinues(a, "delete")
       \/ (StopTimedOut(Port(a)) \/ StopRefused(Port(a))) /\ EditFails(a)
    /\ UNCHANGED <<running, shared, file, creates, deleted>>

\* Mutant: a deletion that failed does not end the edit.
DeleteErrorIgnored(a) ==
    /\ At(a, "delete")
    /\ DeleteOk(Port(a)) \/ DeleteFailed(Port(a))
    /\ EditContinues(a, "add")
    /\ UNCHANGED <<running, shared, file, creates, deleted>>

EditDelete(a) ==
    /\ At(a, "delete")
    /\ \/ DeleteOk(Port(a)) /\ EditContinues(a, "add")
       \/ DeleteFailed(Port(a)) /\ EditFails(a)
    /\ UNCHANGED <<running, shared, file, creates, deleted>>

EditAdd(a) ==
    /\ At(a, "add")
    /\ \/ /\ AddHttpServer(Port(a), Conf(a))
          /\ EditContinues(a, IF frame[a].was THEN "start" ELSE "collect")
          /\ deleted' = deleted \ {Port(a)}
       \/ AddFailed /\ EditFails(a) /\ UNCHANGED deleted
    /\ UNCHANGED <<running, shared, file, creates>>

EditStart(a) ==
    /\ At(a, "start")
    /\ \/ StartOk(Port(a)) /\ EditContinues(a, "collect")
       \/ (StartFailed(Port(a)) \/ StartRefused(Port(a))) /\ EditFails(a)
    /\ UNCHANGED <<running, shared, file, creates, deleted>>

EditSwap(a) ==
    /\ At(a, "swap")
    /\ \/ /\ HotSwapOk(Port(a), Conf(a)) \/ HotSwapSkipped(Port(a), Conf(a))
          /\ EditContinues(a, "collect")
       \/ HotSwapFailed(Port(a), Conf(a)) /\ EditFails(a)
    /\ UNCHANGED <<running, shared, file, creates, deleted>>

-----------------------------------------------------------------------------
\* PersistConfig: GetAllHTTPConfigs under Torii's lock ...
PersistCollect(a) ==
    /\ At(a, "collect")
    /\ Enter(a, "assign", [frame[a] EXCEPT !.data = GetAllHTTPConfigs])
    /\ UNCHANGED <<vars, running, shared, file, creates, dirty, deleted>>

\* Mutant: the collected listeners never reach the configuration that is saved.
AssignForgotten(a) ==
    /\ At(a, "assign")
    /\ Goto(a, "copy")
    /\ UNCHANGED <<vars, running, frame, shared, file, creates, dirty, deleted>>

\* ... stored in the field that all handlers share ...
PersistAssign(a) ==
    /\ At(a, "assign")
    /\ shared' = frame[a].data
    /\ Goto(a, "copy")
    /\ UNCHANGED <<vars, running, frame, file, creates, dirty, deleted>>

\* ... read back when SaveConfiguration gets the struct by value and marshals it.
PersistCopy(a) ==
    /\ At(a, "copy")
    /\ Enter(a, "open", [frame[a] EXCEPT !.data = shared])
    /\ UNCHANGED <<vars, running, shared, file, creates, dirty, deleted>>

\* os.WriteFile opens the file and truncates it, or fails to.
PersistOpen(a) ==
    /\ At(a, "open")
    /\ \/ /\ file' = File("blank", NoListeners)
          /\ Goto(a, "write")
          /\ UNCHANGED <<frame, dirty>>
       \/ Return(a) /\ dirty' = TRUE /\ UNCHANGED file
    /\ UNCHANGED <<vars, running, shared, creates, deleted>>

\* The write starts at offset 0.  What another handler wrote since our truncation
\* is overwritten, its tail left in place when it was longer.
PersistWrite(a) ==
    LET done == File("ok", frame[a].data)
    IN  /\ At(a, "write")
        /\ \/ /\ \/ file' = done
                 \/ file.state # "blank" /\ file # done /\ file' = File("torn", NoListeners)
              /\ dirty' = FALSE
              /\ deleted' = IF frame[a].op = "delete" /\ GetAllHTTPConfigs[Port(a)] = <<>>
                            THEN deleted \union {Port(a)} ELSE deleted
           \/ /\ file' \in {file, File("torn", NoListeners)}   \* the disk is full
              /\ dirty' = TRUE
              /\ UNCHANGED deleted
        /\ Return(a)
        /\ UNCHANGED <<vars, running, shared, creates>>

-----------------------------------------------------------------------------
\* The process ends, by a crash or after a shutdown; neither saves anything.
ProcessEnds ==
    /\ running
    /\ running' = FALSE
    /\ stopped' = [p \in Ports |-> NoServer]
    /\ started' = [p \in Ports |-> NoServer]
    /\ listener' = [p \in Ports |-> "closed"]
    /\ ctx' = [c \in Chain |-> "unbuilt"]
    /\ nextChain' = 1
    /\ registered' = [p \in Ports |-> 0]
    /\ exposed' = {}
    /\ pc' = [a \in Admins |-> "idle"]
    /\ frame' = [a \in Admins |-> NoFrame]
    /\ shared' = NoListeners
    /\ creates' = [p \in Ports |-> 0]
    /\ dirty' = (dirty \/ \E a \in Admins : pc[a] # "idle")
    /\ UNCHANGED <<file, deleted>>

\* The chain numbers of a new process, one for each port.
BootChain == CHOOSE f \in [Ports -> 1 .. Cardinality(Ports)] :
                \A p, q \in Ports : f[p] = f[q] => p = q

\* Of several listeners on a port AddHttpServer keeps the last.
Survivor(confs) == applyDefaultTimeouts(confs[Len(confs)])

\* LoadConfiguration, NewTorii and StartAll.  A truncated file parses as an empty
\* one; a file that does not parse ends the process again.
Boot(up) ==
    LET inFile == {p \in Ports : file.confs[p] # <<>>}
        new(p) == [built |-> SocketOf(Survivor(file.confs[p])), conf |-> Survivor(file.confs[p]),
                   chain |-> BootChain[p], isStarted |-> p \in up, err |-> p \notin up]
    IN  /\ ~running
        /\ file.state # "torn"
        /\ up \subseteq inFile
        /\ running' = TRUE
        /\ stopped' = [p \in Ports |-> IF p \in inFile \ up THEN new(p) ELSE NoServer]
        /\ started' = [p \in Ports |-> IF p \in up THEN new(p) ELSE NoServer]
        /\ listener' = [p \in Ports |-> IF p \in up THEN "serving" ELSE "closed"]
        /\ ctx' = [c \in Chain |-> IF \E p \in inFile : c = BootChain[p] THEN "live"
                                   ELSE "unbuilt"]
        /\ nextChain' = Cardinality(Ports) + 1
        /\ registered' = [p \in Ports |-> IF p \in inFile THEN BootChain[p] ELSE 0]
        /\ exposed' = {BootChain[p] : p \in up}
        /\ shared' = file.confs
        /\ creates' = [p \in Ports |-> IF p \in inFile THEN 1 ELSE 0]
        /\ UNCHANGED <<pc, frame, file, dirty, deleted>>

Environment == \E p \in Ports : (ServeFails(p) \/ OrphanCollected(p)) /\ running /\ UNCHANGED svcVars

Handler(a) ==
    \/ \E p \in Ports : \/ HandleStart(a, p) \/ HandleStop(a, p) \/ HandleDelete(a, p)
                        \/ \E conf \in Requests : HandleCreate(a, p, conf) \/ EditCheck(a, p, conf)
    \/ EditIsStarted(a) \/ EditStop(a) \/ EditDelete(a) \/ EditAdd(a) \/ EditStart(a) \/ EditSwap(a)
    \/ PersistCollect(a) \/ PersistAssign(a) \/ PersistCopy(a) \/ PersistOpen(a) \/ PersistWrite(a)

SvcNext ==
    \/ \E a \in Admins : Handler(a)
    \/ Environment
    \/ ProcessEnds
    \/ \E up \in SUBSET Ports : Boot(up)

SvcSpec == SvcInit /\ [][SvcNext]_allVars

-----------------------------------------------------------------------------
Quiet == \A a \in Admins : pc[a] = "idle"

\* The types of the handlers' state and of the configuration file.
SvcTypeOK ==
    /\ TypeOK
    /\ running \in BOOLEAN
    /\ pc \in [Admins -> Labels]
    /\ \A a \in Admins : Port(a) \in Ports /\ Conf(a) \in Requests /\ frame[a].was \in BOOLEAN
    /\ file.state \in {"ok", "blank", "torn"}
    /\ creates \in [Ports -> 0 .. MaxCreates]
    /\ dirty \in BOOLEAN
    /\ deleted \subseteq Ports

\* What a restart would bring up on a port.
AfterRestart(confs) == IF confs = <<>> THEN <<>> ELSE <<Survivor(confs)>>

\* When no request is in progress and the last change was answered with success,
\* a restart brings up, on every port, the listener the process has in memory: the
\* deletions, creations and edits the API has acknowledged are on disk.
AcknowledgedIsSaved ==
    Quiet /\ running /\ ~dirty =>
        /\ file.state = "ok"
        /\ \A p \in Ports : AfterRestart(file.confs[p]) = AfterRestart(GetAllHTTPConfigs[p])

\* currentConfig (what the dashboard shows, what is saved and what the next edit is
\* compared with) describes the socket and the timeouts the server really runs with.
ConfigDescribesServer ==
    \A p \in Ports : /\ started[p] # NoServer => SocketOf(started[p].conf) = started[p].built
                     /\ stopped[p] # NoServer => SocketOf(stopped[p].conf) = stopped[p].built

\* Requests that rebuild a proxy on the port and have deleted it already.
PendingAdds(p) == {a \in Admins : pc[a] = "add" /\ Port(a) = p}
Servers(p) == (IF started[p] # NoServer THEN 1 ELSE 0) + (IF stopped[p] # NoServer THEN 1 ELSE 0)

\* Edits in parallel never multiply a proxy: counting the rebuilds in progress, a
\* port has at most as many servers as were created there, so EditProxy alone never
\* brings a port into both of Torii's maps.
EditsDoNotMultiply ==
    \A p \in Ports : Servers(p) + Cardinality(PendingAdds(p)) <= creates[p]

-----------------------------------------------------------------------------
(* What the repository says of the handlers and the code does not keep.    *)

\* A proxy whose deletion was answered with success does not come back with a restart.
DeletedStaysDeleted ==
    Quiet /\ file.state = "ok" => \A p \in deleted : file.confs[p] = <<>>

\* The handlers keep their state well formed, and each proxy has one server at
\* most, however two edits of it interleave (EditProxy).
OneServerEach == SvcTypeOK /\ EditsDoNotMultiply
=============================================================================
