CONSTANTS
  idle = idle
  p1 = p1
  p2 = p2
  p3 = p3
  s1 = s1
  section = section
  Nil = Nil
  Processes = {idle, p1, p2, p3}
  IdleProcess = idle
  MaxPriority = 3
  Semaphores = {s1}
  CriticalSections = {section}
  PreemptionYields = TRUE
  SuspendsWaiters = TRUE
  MakesZombies = {1, 2, 3}
  ChangesPriorities = {}
  MaxExcessSignals = 1
  MaxJumpBuf = 2
SPECIFICATION CallbacksSpec
SYMMETRY Symmetry
INVARIANTS CallbacksTypeOK HintCoversRunQueues NothingHoarded NeverHalts CallersStaySuspended
PROPERTIES ListsSurvive CallbacksLoseNobody
CHECK_DEADLOCK FALSE
