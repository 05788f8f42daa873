\* One goroutine per user; counts change while proposals are validated.
CONSTANTS
  ann = ann  bob = bob
  c1 = c1  c2 = c2  c3 = c3
  Users = {ann, bob}
  Stickers = {s1}
  Calls = {c1, c2}
  Caller <- OneEach
  Counts = {1, 2}
  MaxCalls = 3
SPECIFICATION Spec
INVARIANT OffersWereSpare
PROPERTY ImplementsLedger
