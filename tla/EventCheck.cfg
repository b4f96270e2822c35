CONSTANTS
  StackPages = {"page 1", "page 2"}
  Max = "max"
  Methods = {"m1", "m2"}
  NoMethod = "none"
  MaxTime = 2
  MaxBackSteps = 1
  PollUsecs = 1
  Habits = {{"pages", "interrupt"}, {"timer", "interrupt"}, {"probe"}}
SPECIFICATION Spec
INVARIANTS TypeOK LimitIsCurrent HitsAreTrue
PROPERTIES InterruptsAreAnswered TimersSound
