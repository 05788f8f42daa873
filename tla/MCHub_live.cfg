\* Publishers evict a client that does not read, while it leaves or comes back.
CONSTANTS
  ann = ann  bob = bob
  a1 = a1  a2 = a2  p1 = p1  p2 = p2
  Users = {ann}
  Clients = {a1}
  Owner <- OnlyA1
  Publishers = {p1, p2}
  MaxConnectionsPerUser = 1
  SendCap = 1
  MaxEvents = 2
SPECIFICATION FairSpec
PROPERTIES SlotsComeBack QuittersAreClosed PublishingReturns
