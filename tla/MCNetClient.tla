----------------------------- MODULE MCNetClient -----------------------------
(* NetClient with two peers; TypeOf is a definition because a .cfg cannot    *)
(* write a function.                                                         *)
EXTENDS NetClient

CONSTANTS tA, tB

OneType  == [n \in Node |-> tA]

=============================================================================
