SPECIFICATION ClientsSpec
CONSTANTS
  Nil = Nil
  Clients = {"socket", "file"}
  Sockets = {"socket"}
  Files = {"file"}
  Handlers = {"acceptHandler", "connectHandler", "dataHandler", "readHandler", "writeHandler"}
  MaxDescriptor = 2
  ExceptionalKinds = {"connected"}
  MaxPosition = 1
  MaxSize = 1
INVARIANTS
  ClientsTypeOK
  EventsReachTheirClients
  NothingIsShared
  FilesTransfersAreAnswered
  FilesPositionsAreKnown
PROPERTIES
  ConnectEnds
  FileReadsEnd
