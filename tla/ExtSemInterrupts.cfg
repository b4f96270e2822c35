CONSTANTS
  r1 = r1
  r2 = r2
  Requestors = {r1, r2}
  InterruptRequestors = {r1, r2}
  MaxTableSize = 3
  ExtTableSize = 2
  CounterModulus = 3
  MaxCalls = 2
  MaxOpen = 2
SPECIFICATION FairSpec
INVARIANTS TypeOK NoLostInterrupt NoSignalLost AllRequestsAreAnswered
PROPERTIES PromiseSafe PromiseKept
