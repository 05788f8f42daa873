\* Ann updates and looks for matches from two tabs.
CONSTANTS
  ann = ann  bob = bob
  c1 = c1  c2 = c2
  s1 = s1  s2 = s2
  ARG = ARG  BRA = BRA
  Users = {ann, bob}
  Stickers = {s1, s2}
  Team <- TwoTeams
  Special = {s2}
  Public = {ann, bob}
  Calls = {c1, c2}
  Caller <- TwoTabs
  Inputs <- Sent
  MaxUpdates = 2
  Stocks <- SomeStock
SPECIFICATION Spec
SYMMETRY Tabs
INVARIANTS TypeOK StatsAndListsAgree EventsTellTheTruth LastStatsAreCurrent MatchesHold
