------------------------------ MODULE MCMetrics ------------------------------
(* Metrics for TLC.                                                           *)
EXTENDS Metrics

MCNames == {<<>>, <<"p">>, <<"p", "h">>}
=============================================================================
