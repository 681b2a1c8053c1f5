--------------------------- MODULE MCProxySession ---------------------------
(* ProxySession with account a known to the web node and x unknown; what     *)
(* concerns socket f2 may be lost between the nodes.                         *)
EXTENDS ProxySession

CONSTANTS a, x, ua, ux

Players == [acc \in Account |-> IF acc = a THEN ua ELSE ux]

=============================================================================
