\* Two users of one browser tab, two requests per load, two loads in flight, three token pairs.
CONSTANTS
  Users = {ann, bob}
  NoUser = NoUser
  Parts = {list, stats}
  Stats = stats
  Slots = {s1, s2}
  MaxLogouts = 2
  MaxPairs = 3
  MaxChanges = 1
SPECIFICATION Spec
CONSTRAINT Orderly
VIEW Relevant
SYMMETRY Alike
INVARIANTS TypeOK WhatIsShownFits SignedOutForAReason LoadsAreNotLost SocketOrTimer
CHECK_DEADLOCK FALSE
