------------------------------ MODULE MCTorii ------------------------------
(* Torii for TLC: plain HTTP, HTTPS with certificate files and HTTPS with   *)
(* ACME listeners, two route tables that build and one that does not.       *)
EXTENDS Torii, TLC

CONSTANTS n1, n2, r1, r2, bad

MCNets == {n1, n2}
MCRoutes == {r1, r2, bad}
MCBadRoutes == {bad}

Conf(n, t, x, r) == [net |-> n, timeout |-> t, tls |-> x, routes |-> r]

\* A listener without timeouts, the same after defaulting with other routes, an
\* HTTPS listener, and routes from which nothing can be built.
MCRequests == {Conf(n1, 0, "none", r1), Conf(n1, 30, "none", r2),
               Conf(n2, 30, "files", r1), Conf(n1, 30, "none", bad)}

PortSymmetry == Permutations(Ports)
=============================================================================
