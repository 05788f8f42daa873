\* Two keys, a limit of two in a minute of four ticks.
CONSTANTS
  Keys = {k1, k2}
  Burst = 2
  Interval = 2
  EvictAfter = 5
  MaxTime = 14
SPECIFICATION Spec
INVARIANTS LessThanTwiceTheLimit UnderTheLimitIsServed
PROPERTY ImplementsRateLimit
