-------------------------------- MODULE Table --------------------------------
(***************************************************************************)
(* What a Record promises: a table with a fixed number of rows, each there *)
(* or not.  A row is put whole, changed one cell at a time while it is     *)
(* there, dropped whole, and exchanged with any other row if it is there.  *)
(* Nothing else ever happens to it, whatever the hooks do meanwhile.       *)
(***************************************************************************)
CONSTANTS
  Row,             \* row numbers
  Col,             \* column numbers
  Value,           \* what a cell holds
  NoRow            \* stands for a row that is not there, no function on Col

VARIABLE table

Init == table = [r \in Row |-> NoRow]

Put(r, t) == table' = [table EXCEPT ![r] = t]

Change(r, c, v) ==
  /\ table[r] # NoRow
  /\ table' = [table EXCEPT ![r] = [@ EXCEPT ![c] = v]]

Drop(r) ==
  /\ table[r] # NoRow
  /\ table' = [table EXCEPT ![r] = NoRow]

Exchange(r1, r2) ==
  /\ table[r1] # NoRow
  /\ table' = [table EXCEPT ![r1] = table[r2], ![r2] = table[r1]]

Next ==
  \/ \E r \in Row :
       \/ \E t \in [Col -> Value] : Put(r, t)
       \/ \E c \in Col, v \in Value : Change(r, c, v)
       \/ Drop(r)
  \/ \E r1, r2 \in Row : Exchange(r1, r2)

Spec == Init /\ [][Next]_table

=============================================================================
