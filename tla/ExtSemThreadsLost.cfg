CONSTANTS
  r1 = r1
  r2 = r2
  Requestors = {r1, r2}
  InterruptRequestors = {}
  MaxTableSize = 2
  ExtTableSize = 2
  CounterModulus = 4
  MaxCalls = 1
  MaxOpen = 2
SPECIFICATION Spec
INVARIANT AllRequestsAreAnswered
