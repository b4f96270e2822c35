SPECIFICATION Spec
CONSTANTS
  a = a
  b = b
  Nil = Nil
  Clients = {a, b}
  Sockets = {a, b}
  Handlers = {"acceptHandler", "connectHandler", "dataHandler"}
  MaxDescriptor = 3
  ExceptionalKinds = {"listening", "connecting", "connected"}
SYMMETRY Symmetry
CHECK_DEADLOCK FALSE
INVARIANTS
  DescriptorsHeldOnce
  ClientsOwnTheirDescriptors
  SelectNeverFails
  SignalsAreOwed
PROPERTIES
  NoSilentChange
