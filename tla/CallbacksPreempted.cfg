CONSTANTS
  idle = idle
  p1 = p1
  p2 = p2
  p3 = p3
  s1 = s1
  section = section
  Nil = Nil
  Processes = {idle, p1, p2, p3}
  IdleProcess = idle
  MaxPriority = 3
  Semaphores = {s1}
  CriticalSections = {section}
  PreemptionYields = TRUE
  SuspendsWaiters = FALSE
  MakesZombies = {}
  ChangesPriorities = {}
  MaxExcessSignals = 1
  MaxJumpBuf = 2
SPECIFICATION CallbacksSpec
SYMMETRY Symmetry
INVARIANT CallersAreSuspended
