------------------------------- MODULE MCData --------------------------------
(* Data with two rows of two columns and a script that nests one change.    *)
EXTENDS Data

Pair == {0, 1}

=============================================================================
