------------------------------- MODULE MCAcme -------------------------------
EXTENDS Acme

Plain(labels) == [labels |-> labels, caps |-> FALSE]
Capital(labels) == [labels |-> labels, caps |-> TRUE]
a == <<"a", "x", "c">>
b == <<"b", "x", "c">>
x == <<"x", "c">>
wx == <<"*", "x", "c">>

\* A name written twice, with another below the same parent; the name with a wildcard
\* above it and their parent.
MCLists == {<<>>, <<Plain(a), Capital(a), Plain(b)>>, <<Plain(a), Plain(wx), Plain(x)>>}
MCYaml == [enabled |-> TRUE, ca |-> "custom", domains |-> <<>>]
MCSaves == {[enabled |-> TRUE, ca |-> "default", domains |-> <<>>],
            [enabled |-> FALSE, ca |-> "custom", domains |-> <<Plain(a), Plain(wx), Plain(x)>>]}
=============================================================================
