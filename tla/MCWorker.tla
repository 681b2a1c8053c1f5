------------------------------ MODULE MCWorker ------------------------------
(* Worker on two threads. *)
EXTENDS Worker

\* The second message has no handler.
MCHandled == 1..MaxMsg \ {2}
=============================================================================
