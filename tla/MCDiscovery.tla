----------------------------- MODULE MCDiscovery -----------------------------
(* Discovery with proxies p1 and p2, which subscribe to player nodes         *)
(* (proxy/logic/logic_module.cc:49), and player nodes q1 and q2, which       *)
(* subscribe to each other (player/logic/logic_module.cc:11).                *)
EXTENDS Discovery

CONSTANTS tMaster, tProxy, tPlayer, p1, p2, q1, q2

NodeTypes == [n \in Node |-> IF n \in {p1, p2} THEN tProxy ELSE tPlayer]
NodeSubs  == [n \in Node |-> {tPlayer}]

=============================================================================
