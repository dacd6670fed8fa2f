------------------------------ MODULE MCPortAlloc ------------------------------
(* Instances of PortAlloc for TLC.                                          *)
EXTENDS PortAlloc

CONSTANTS p, q

A(port) == HostService("a", port, <<0, 3>>)
B == HostService("b", 0, <<0, 3>>)
D == AutoDep("d", <<4>>)

C(port) == PinnedDep("c", <<port>>, <<3>>)
E == LegacyDep("e", <<[host |-> 0, cont |-> 4, plain |-> TRUE]>>)
O(host) == LegacyDep("o", <<[host |-> host, cont |-> 3, plain |-> FALSE]>>)
L == PinnedDep("l", <<3, 4>>, <<3, 4>>)
W(port) == DockerService("w", port)

MCPlans ==
    LET Two(x, y) == [z \in Project |-> IF z = p THEN x ELSE y]
    IN {Two(<<A(0), B>>, <<>>), Two(<<A(4), B>>, <<>>),
        Two(<<A(0), D>>, <<D>>), Two(<<A(4), D>>, <<D>>),
        Two(<<A(0)>>, <<B>>), Two(<<C(4), E>>, <<>>), Two(<<C(5), E>>, <<>>),
        Two(<<O(3), SiblingDep("s"), W(3)>>, <<>>), Two(<<O(5)>>, <<>>),
        Two(<<AutoDep("n", <<>>), B>>, <<>>),
        Two(<<A(4)>>, <<D>>), Two(<<C(4)>>, <<D, W(4)>>),
        Two(<<A(0), C(4)>>, <<>>), Two(<<A(0), C(3)>>, <<>>),
        Two(<<L>>, <<PinnedDep("c", <<3>>, <<>>)>>),
        Two(<<B>>, <<AutoDep("m", <<3, 4>>), HostService("z", 0, <<0>>)>>)}
================================================================================
