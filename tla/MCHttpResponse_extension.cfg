SPECIFICATION Spec
CONSTANTS
  Messages <- WithExtension
  MaxSeg = 22
INVARIANT CompleteIsExact
