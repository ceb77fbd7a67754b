---------------------------- MODULE MCGatewayChat ----------------------------
(* Small instances of GatewayChat for TLC: one chat and two threads of it. *)
EXTENDS GatewayChat
CONSTANTS t1, t2, c1, s1, s2, s3
K(th) == [chat |-> "chat", thread |-> th]
ChatKeys == {K(NoThread), K("a"), K("b")}
From(x, y, z) == [h \in Handlers |-> CASE h = t1 -> x [] h = t2 -> y [] OTHER -> z]
\* All outside threads; messages in two threads and a command outside.
ChatOrigins == {From(K(NoThread), K(NoThread), K(NoThread)), From(K("a"), K("b"), K(NoThread))}
=============================================================================
