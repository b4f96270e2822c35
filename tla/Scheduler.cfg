CONSTANTS
  idle = idle
  p1 = p1
  p2 = p2
  p3 = p3
  s1 = s1
  s2 = s2
  section = section
  Nil = Nil
  Processes = {idle, p1, p2, p3}
  IdleProcess = idle
  MaxPriority = 3
  Semaphores = {s1}
  CriticalSections = {section}
  PreemptionYields = FALSE
  SuspendsWaiters = FALSE
  MakesZombies = {2}
  ChangesPriorities = {"waiting"}
  MaxExcessSignals = 2
SPECIFICATION FairSpec
INVARIANTS OneListEach EnteredOwns NobodyFallsOff HighestRuns
PROPERTIES SynchronisationKept EqualsTakeTurns
CHECK_DEADLOCK FALSE
