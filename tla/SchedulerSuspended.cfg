CONSTANTS
  idle = idle
  p1 = p1
  p2 = p2
  p3 = p3
  s1 = s1
  s2 = s2
  section = section
  Nil = Nil
  Processes = {idle, p1, p2}
  IdleProcess = idle
  MaxPriority = 2
  Semaphores = {s1}
  CriticalSections = {section}
  PreemptionYields = TRUE
  SuspendsWaiters = TRUE
  MakesZombies = {}
  ChangesPriorities = {}
  MaxExcessSignals = 1
SPECIFICATION Spec
INVARIANT EnteredOwns
