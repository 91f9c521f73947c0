------------------------------ MODULE Handlers ------------------------------
(***************************************************************************)
(* ManagedService in two modes.  In one the requests come one at a time,   *)
(* as from a single operator, with every kind of change and failure; in    *)
(* the other they overlap.                                                 *)
(***************************************************************************)
EXTENDS ManagedService

CONSTANTS
    AloneRequests,   \* the listeners of requests that come one at a time
    OverlapRequests  \* the listeners of requests that overlap

VARIABLE mode

modeVars == <<allVars, mode>>

ModeInit == SvcInit /\ mode \in {"alone", "overlap"}

Asks(confs) == \A a \in Admins : frame'[a].op \in {"none", "delete"} \/ frame'[a].conf \in confs

\* No request starts while another one has steps left; those that take a single
\* step (handleStartProxy, handleStopProxy) may come at any time.
Alone ==
    /\ mode' = "alone"
    /\ \A a, b \in Admins : pc'[a] # "idle" /\ pc'[b] # "idle" => a = b
    /\ Asks(AloneRequests)

\* The bounds are smaller here.
Overlap ==
    /\ mode' = "overlap"
    /\ nextChain' <= MaxChains
    /\ \A p \in Ports : creates'[p] < MaxCreates
    /\ Asks(OverlapRequests)

ModeNext == SvcNext /\ UNCHANGED mode /\ (Alone \/ Overlap)

ModeSpec == ModeInit /\ [][ModeNext]_modeVars

-----------------------------------------------------------------------------
\* Requests that come one at a time: what was acknowledged is in the file
\* (AcknowledgedIsSaved).
AloneIsSaved == mode = "alone" => AcknowledgedIsSaved

\* Requests that come one at a time: the configuration that is shown and saved
\* describes the server (ConfigDescribesServer).
AloneDescribes == mode = "alone" => ConfigDescribesServer
=============================================================================
