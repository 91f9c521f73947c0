----------------------------- MODULE MCHandlers -----------------------------
(* Handlers for TLC: every kind of change for requests one at a time,       *)
(* rebuilds only for two requests that overlap.                             *)
EXTENDS MCManagedService, Handlers

BothRequests == SingleRequests \union RebuildRequests
=============================================================================
