\* Open connections against the documented maximum.
CONSTANTS
  ann = ann  bob = bob
  a1 = a1  a2 = a2  p1 = p1  p2 = p2
  Users = {ann}
  Clients = {a1, a2}
  Owner <- AllAnns
  Publishers = {p1}
  MaxConnectionsPerUser = 1
  SendCap = 1
  MaxEvents = 2
SPECIFICATION Spec
INVARIANT OpenConnectionsAreCapped
