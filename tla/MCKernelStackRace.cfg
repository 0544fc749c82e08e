SPECIFICATION PreemptibleSpec
CONSTANTS
  Task = {t1, t2, t3}
  Stack = {s1, s2, s3, s4, s5}
  Idle = Idle
  InitTask = t1
  Boot = Boot
  Null = Null
SYMMETRY Symmetric
INVARIANTS ContextsOnLiveStacks
