SPECIFICATION Spec
CONSTANTS
  p = p
  q = q
  n = n
  Obj = {p, q, n}
  Player = {p, q}
  Scene = {1, 2}
  MaxGroup <- Groups
  MaxLife <- Lives
  MaxTasks = 1
  MaxPending = 2
INVARIANTS PlacesRight ViewsExact
SYMMETRY Clients
PROPERTIES DeleteListServed
CHECK_DEADLOCK FALSE
