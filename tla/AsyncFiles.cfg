SPECIFICATION Spec
CONSTANTS
  Nil = Nil
  Clients = {"f1"}
  Files = {"f1"}
  Handlers = {"readHandler", "writeHandler"}
  MaxDescriptor = 2
  ExceptionalKinds = {}
  MaxPosition = 1
  MaxSize = 1
INVARIANT
  FailedTransfersSignal
