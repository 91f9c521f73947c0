------------------------------ MODULE Exposure ------------------------------
(* What the registry of servers promises to those who send requests: which    *)
(* handler chain answers on which port.  Torii implements it (Torii!Public).  *)
(*                                                                            *)
(* One port changes at a time.  A chain answers on one port at most.  A port  *)
(* that answers goes over from one chain to the next in a single step, with   *)
(* nothing in between, and the next one has never been in use before.         *)
EXTENDS Integers

CONSTANTS Ports, Chains

VARIABLES
    serving,  \* port |-> the chain that answers there, 0 when nothing answers
    used      \* the chains that have been given to a started server

exposure == <<serving, used>>

Init == serving = [p \in Ports |-> 0] /\ used = {}

\* A port begins to answer, with a chain that is not in use on another one.
Open(p, c) ==
    /\ serving[p] = 0 /\ \A q \in Ports : serving[q] # c
    /\ serving' = [serving EXCEPT ![p] = c] /\ used' = used \union {c}

Swap(p, c) ==
    /\ serving[p] # 0 /\ c \notin used
    /\ serving' = [serving EXCEPT ![p] = c] /\ used' = used \union {c}

Close(p) == serving[p] # 0 /\ serving' = [serving EXCEPT ![p] = 0] /\ UNCHANGED used

\* A server is started, or gets a new chain, on a port that does not answer.
Waste(c) == c \notin used /\ used' = used \union {c} /\ UNCHANGED serving

Next ==
    \/ \E p \in Ports : Close(p) \/ \E c \in Chains : Open(p, c) \/ Swap(p, c)
    \/ \E c \in Chains : Waste(c)

Spec == Init /\ [][Next]_exposure
=============================================================================
