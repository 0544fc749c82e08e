CONSTANTS
  MAX_TASKS = 5
  Waiters = {1}
  SleepTicks = {}
SPECIFICATION Spec
INVARIANTS OneRunner ListsEnd FamilyListsExact ZombiesInherited
PROPERTIES DeadStayDead
