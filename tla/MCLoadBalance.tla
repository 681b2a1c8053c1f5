---------------------------- MODULE MCLoadBalance ----------------------------
(* LoadBalance with two proxies: the master names one of them when it is       *)
(* asked for a place to log in, the other or none as reports arrive.           *)
EXTENDS LoadBalance

CONSTANT proxy

NodeTypes == [n \in Node |-> proxy]

=============================================================================
