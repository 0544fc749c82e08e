CONSTANTS
  MAX_TASKS = 4
  Waiters = {1, 2, 3}
  SleepTicks = {}
SPECIFICATION Spec
INVARIANTS ZombiesHaveParents
