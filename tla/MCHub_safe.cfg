\* Two connections compete for the only slot of their user, and two calls publish.
CONSTANTS
  ann = ann  bob = bob
  a1 = a1  a2 = a2  p1 = p1  p2 = p2
  Users = {ann, bob}
  Clients = {a1, a2}
  Owner <- AllAnns
  Publishers = {p1, p2}
  MaxConnectionsPerUser = 1
  SendCap = 1
  MaxEvents = 2
SPECIFICATION Spec
SYMMETRY Alike
INVARIANTS TypeOK SlotsAreAccounted NoDeafClient NoSilentLoss OwnEventsInOrder
