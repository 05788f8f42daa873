\* Three replicas (hpa.backend.maxReplicas), one of them with an older image.
CONSTANTS
  Replicas = {r1, r2, r3}
  Old = r1
  Newest = 3
  Files <- RollOut
  MaxFailures = 3
SPECIFICATION FairSpec
INVARIANTS AppliedOnce AppliedInOrder ServesMigrated
PROPERTY AllComeUp
CHECK_DEADLOCK FALSE
