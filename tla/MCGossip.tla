------------------------------- MODULE MCGossip -------------------------------
(* Small networks for TLC. *)
EXTENDS GossipSync

CONSTANTS a, b, c, t1, t2, d1, d2

OneDial == {<<a, b>>}
Line == {<<a, b>>, <<b, c>>}
BothDials == {<<a, b>>, <<b, a>>}
SignedAtOnce == [m \in Msgs |-> 1]
SignedInTurn == [m \in Msgs |-> IF m = t2 THEN 2 ELSE 1]
SignedApart == [m \in Msgs |-> IF m = t2 THEN 2 ELSE 0]
OriginsAll == [m \in Msgs |-> Hubs]
OriginsA == [m \in Msgs |-> {a}]
OriginsSplit == [m \in Msgs |-> IF m = t1 THEN {a} ELSE {b}]
============================================================================
