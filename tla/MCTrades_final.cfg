\* The responder answers from two tabs.
CONSTANTS
  ann = ann  bob = bob
  c1 = c1  c2 = c2  c3 = c3
  Users = {ann, bob}
  Stickers = {s1}
  Calls = {c1, c2, c3}
  Caller <- TwoTabs
  Counts = {2}
  MaxCalls = 3
SPECIFICATION Spec
PROPERTY AnswerIsFinal
