SPECIFICATION Spec
CONSTANTS
  Calls <- EachKind
  MaxAddrs = 2
INVARIANTS
  TypeOK
  OnlyConnectedUsed
  SocketsClosed
  MemoryFreed
  ResultIsTrue
PROPERTY
  Ends
