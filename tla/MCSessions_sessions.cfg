\* One user, two calls at a time, three clock readings.
CONSTANTS
  Users = {ann}
  Calls = {c1, c2}
  Ticks = {t1, t2, t3}
SPECIFICATION Spec
SYMMETRY Alike
INVARIANTS OneTokenPerSession LogoutIsFinal SessionsEndForAReason RepliesAreUnique
