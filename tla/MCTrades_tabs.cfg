\* Two users, the second with two calls in flight; everybody has spare copies.
CONSTANTS
  ann = ann  bob = bob
  c1 = c1  c2 = c2  c3 = c3
  Users = {ann, bob}
  Stickers = {s1}
  Calls = {c1, c2, c3}
  Caller <- TwoTabs
  Counts = {2}
  MaxCalls = 3
SPECIFICATION FairSpec
ACTION_CONSTRAINT NobodyReads
INVARIANTS TypeOK StatusIsLatestAnswer RequestsAreNotified EventsAreCommitted PayloadsAreRecent
PROPERTY CallsFinish
