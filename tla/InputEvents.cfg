CONSTANTS
  Events = {"press", "release"}
  IEB_SIZE = 4
  MaxSignals = 4
SPECIFICATION FairSpec
INVARIANTS TypeOK NoEventForgotten
PROPERTIES RingIsQueue EventsMoveOn
