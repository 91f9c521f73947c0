---------------------------- MODULE MCMiddlewares ----------------------------
(* The parts of a chain that keep state of their own, for TLC, in one run:    *)
(* CircuitBreaker, EvictCache and CacheHub.  They share no state here, so a   *)
(* behaviour exercises one of them, chosen at the start.                      *)
EXTENDS CircuitBreaker, EvictCache, CacheHub

VARIABLE focus

mwVars == <<vars, cacheVars, hubVars, focus>>

Parts == {"breaker", "cache", "hub"}

MwInit == Init /\ NewCache /\ HubInit /\ focus \in Parts

InBreaker(A) == focus = "breaker" /\ A /\ UNCHANGED <<cacheVars, hubVars, focus>>
InCache(A) == focus = "cache" /\ A /\ UNCHANGED <<vars, hubVars, focus>>
InHub(A) == focus = "hub" /\ A /\ UNCHANGED <<vars, cacheVars, focus>>

\* The fairness of the parts, as FairSpec, CacheFairSpec and HubFairSpec state it.
MwSpec ==
    /\ MwInit
    /\ [][InBreaker(Next) \/ InCache(CacheNext) \/ InHub(HubNext)]_mwVars
    /\ WF_mwVars(InBreaker(Tick)) /\ \A r \in Requests : WF_mwVars(InBreaker(Serve(r)))
    /\ WF_mwVars(InCache(sweep)) /\ WF_mwVars(InCache(CacheTick))
    /\ \A a \in Actors : SF_mwVars(InHub(Step(a)))
=============================================================================
