------------------------------ MODULE Directory ------------------------------
(***************************************************************************)
(* What the master and its nodes promise together: a running node gets to  *)
(* know nodes that did start, of the types it subscribes to, other than    *)
(* itself, and forgets none of them before it stops.  News meant for one   *)
(* subscriber may go astray to other running nodes, which then may learn   *)
(* of it too.  The abstract side of Discovery: no master, no sockets, no   *)
(* messages.                                                               *)
(***************************************************************************)
CONSTANTS
  Node,    \* ids of the nodes
  Type,    \* node types
  TypeOf,  \* the type each node announces
  Subs     \* the types each node subscribes to

VARIABLES
  up,       \* is the node's process running?
  started,  \* nodes that have started at least once
  knows,    \* nodes each process was told of
  stray     \* nodes it may be told of by news meant for another

vars == <<up, started, knows, stray>>

Wanted(n) == {m \in Node \ {n} : TypeOf[m] \in Subs[n]}

Init ==
  /\ up = [n \in Node |-> FALSE]
  /\ started = {}
  /\ knows = [n \in Node |-> {}]
  /\ stray = [n \in Node |-> {}]

Start(n) ==
  /\ ~up[n]
  /\ up' = [up EXCEPT ![n] = TRUE]
  /\ started' = started \cup {n}
  /\ UNCHANGED <<knows, stray>>

Stop(n) ==
  /\ up[n]
  /\ up' = [up EXCEPT ![n] = FALSE]
  /\ knows' = [knows EXCEPT ![n] = {}]
  /\ stray' = [stray EXCEPT ![n] = {}]
  /\ UNCHANGED started

Learn(n, m) ==
  /\ up[n]
  /\ m \in (Wanted(n) \cap started) \cup stray[n]
  /\ knows' = [knows EXCEPT ![n] = @ \cup {m}]
  /\ UNCHANGED <<up, started, stray>>

(* News of m, which a started node wants, goes to the nodes of S instead.  *)
Astray(m, S) ==
  /\ m \in started
  /\ \A n \in S : up[n] /\ \E s \in started \ {n} : m \in Wanted(s)
  /\ stray' = [n \in Node |-> IF n \in S THEN stray[n] \cup {m} ELSE stray[n]]
  /\ UNCHANGED <<up, started, knows>>

Next ==
  \/ \E n \in Node : Start(n) \/ Stop(n) \/ \E m \in Node : Learn(n, m)
  \/ \E m \in Node, S \in SUBSET Node : Astray(m, S)

Spec == Init /\ [][Next]_vars

=============================================================================
