\* Two calls that nest and two that do not share two connections.
CONSTANTS
  Calls = {list1, list2, call1, call2}
  Nesting = {list1, list2}
  MaxOpen = 2
  MaxQueries = 2
SPECIFICATION FairSpec
INVARIANTS OnlyNestingStalls
PROPERTIES CallsReturn ShutdownEnds
CHECK_DEADLOCK FALSE
