------------------------------- MODULE MCWorld -------------------------------
(* World with two players and one other object, in a scene that can be      *)
(* dropped and created again and one that gives out groups.                 *)
EXTENDS World, TLC

CONSTANTS p, q, n

Groups == [s \in Scene |-> 2 - s]
Lives == [s \in Scene |-> s]

Clients == Permutations(Player)

=============================================================================
