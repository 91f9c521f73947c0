----------------------------- MODULE MCAddresses -----------------------------
(* The IP filter with ranges as wide as a whole family (0.0.0.0/0), for TLC.  *)
EXTENDS Addresses

Bits(f, bs) == [family |-> f, bits |-> bs]
MCClients == [family : {"v4"}, bits : [1 .. 2 -> {0, 1}]] \union {Bits("v6", <<0, 1>>), Bits("v6", <<1, 0>>)}
MCRanges == {Bits("v4", <<>>), Bits("v4", <<0>>), Bits("v4", <<0, 1>>), Bits("v6", <<1>>), Junk}
MCLists == {<<>>} \union {<<r>> : r \in MCRanges} \union {<<r, q>> : r \in MCRanges, q \in MCRanges}
MCNoTexts == {<<>>}
MCNoPages == {}

FilterSpec == FilterInit /\ TrustInit /\ [][FilterNext /\ UNCHANGED trustVars]_addressVars
=============================================================================
