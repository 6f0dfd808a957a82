---------------------------- MODULE MCUtilities -----------------------------
(* Instance of Utilities for TLC: the bitwise operators, and version strings *)
(* with every shape of identifier at the places where it matters.            *)
EXTENDS Utilities, Bitwise

MachineAnd(x, y) == x & y
MachineXor(x, y) == x ^^ y

Of(shape, rank) == [shape |-> shape, rank |-> rank]
n0 == Of("number", 0)
n1 == Of("number", 1)
overflow == Of("overflow", 0)
mixed == Of("mixed", 0)
w0 == Of("word", 0)
w1 == Of("word", 1)
missing == Of("missing", 0)
Text(numbers, pre, build, rest) ==
    [numbers |-> numbers, pre |-> pre, build |-> build, rest |-> rest]
VersionTexts ==
    {Text(n, <<>>, <<>>, FALSE) : n \in
        {<<n0>>, <<n1>>, <<n0, n0>>, <<n0, Of("padded", 1)>>, <<n1, missing>>,
         <<n1, overflow>>, <<mixed, n1>>, <<missing>>}}
    \cup {Text(n, <<tag>>, <<>>, r) :
             n \in {<<n0>>, <<n0, n0>>, <<n1, missing>>},
             tag \in {<<n0>>, <<n1>>, <<overflow>>, <<w0>>, <<w1>>, <<n0, w0>>,
                    <<w0, n0>>, <<w0, Of("padded", 1)>>, <<w0, mixed>>,
                    <<w0, missing>>, <<missing>>},
             r \in BOOLEAN}
    \cup {Text(<<n0>>, tag, <<b>>, FALSE) :
             tag \in {<<>>, <<<<w0>>>>, <<<<w0, mixed>>>>},
             b \in {<<mixed>>, <<missing>>, <<w0, overflow>>, <<w0, missing>>}}
=============================================================================
