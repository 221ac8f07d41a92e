CONSTANTS
  CPU = {c0, c1}
  BSP = c0
  NENV = 3
  NBOOT = 1
  MaxGen = 1
  Loose = {}
  Nil = Nil
SPECIFICATION FairSpec
INVARIANTS KernelMutex OneCpuPerEnv CurenvLive FreeListExact MarksTrue MonitorQuiescent
PROPERTIES ZombieFreedAtTrap KilledByParentOrSelf NoStarvation ZombieFreed
