SPECIFICATION Spec
CONSTANTS
  p1 = p1
  p2 = p2
  p3 = p3
  Procs <- ThreeProcs
  Keys <- Skipping
  Nobody = Nobody
  SkipTimes <- OneSkip
  Laxity = 1
  Duration = 1
  StartAt <- AtStart
  ChapterFiles <- NoChapters
  LeftPresses <- NoPresses
SYMMETRY AnyOrder
INVARIANTS
  PredecessorEnded
  LeftPressesExplained
  SomeoneSurvives
