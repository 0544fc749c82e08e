SPECIFICATION Spec
CONSTANTS
  Task = {t1, t2, t3}
  Stack = {s1, s2, s3, s4, s5, s6, s7}
  Idle = Idle
  InitTask = t1
  Boot = Boot
  Null = Null
SYMMETRY Symmetric
INVARIANTS TypeOK ContextsOnLiveStacks StacksExclusive NoStackLeak
