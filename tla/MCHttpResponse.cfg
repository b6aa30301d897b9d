SPECIFICATION Spec
CONSTANTS
  Messages <- MCMessages
  MaxSeg = 22
INVARIANTS
  TypeOK
  CompleteIsExact
  NoIdleWait
PROPERTY
  Promise
