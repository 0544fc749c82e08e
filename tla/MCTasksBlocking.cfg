CONSTANTS
  MAX_TASKS = 4
  Waiters = {1, 2}
  SleepTicks = {1}
SPECIFICATION FairSpec
INVARIANTS TypeOK OneRunner ReapersFreeZombies ListsEnd
PROPERTIES DeadStayDead WakesForAReason NoStarvation WaitersWake SleepersWake
