SPECIFICATION Spec
CONSTANTS
  a = a
  b = b
  Nil = Nil
  Clients = {a, b}
  Sockets = {a, b}
  Handlers = {"acceptHandler", "connectHandler", "dataHandler"}
  MaxDescriptor = 3
  ExceptionalKinds = {"connected"}
SYMMETRY Symmetry
INVARIANTS
  ConnectHandlerGone
