SPECIFICATION Spec
CONSTANTS
  r1 = r1
  r2 = r2
  Renderers <- MCRenderers
  Commands <- MCCommands
  None = None
  Dry = Dry
  ResSize = 2
  MaxLen = 3
  MaxChunks = 2
INVARIANTS
  TypeOK
  StrayOnlyAfterFailedReconnect
  UnambiguousTarget
  AnsweredLoadIsPlayed
  CrashMeansNoAnswer
  ConnectionsClosed
PROPERTIES
  NoWriteAfterClose
  Termination
