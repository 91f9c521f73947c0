-------------------------- MODULE MCManagedService --------------------------
(* ManagedService for TLC.                                                  *)
EXTENDS ManagedService, TLC

CONSTANTS n1, n2, r1, r2, bad

MCNets == {n1, n2}
MCRoutes == {r1, r2, bad}
MCBadRoutes == {bad}

Listener(n, t, x, r) == [net |-> n, timeout |-> t, tls |-> x, routes |-> r]

\* One request at a time: every kind of change, and routes that do not build, so
\* that each step of EditProxy fails in some behaviour.
SingleRequests == {Listener(n1, 0, "none", r1), Listener(n1, 30, "none", r2),
                   Listener(n2, 30, "files", r1), Listener(n2, 30, "none", bad)}

\* Two listeners that differ in the socket: every edit rebuilds the proxy.
RebuildRequests == {Listener(n1, 30, "none", r1), Listener(n2, 30, "none", r1)}

OneRequest == {Listener(n1, 30, "none", r1)}

AdminSymmetry == Permutations(Admins)
=============================================================================
