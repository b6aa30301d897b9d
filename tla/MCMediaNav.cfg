SPECIFICATION Spec
CONSTANTS
  p1 = p1
  p2 = p2
  p3 = p3
  Procs <- TwoProcs
  Keys <- AllKeys
  Nobody = Nobody
  SkipTimes <- MCSkipTimes
  Laxity = 1
  Duration = 4
  StartAt <- StartOrLate
  ChapterFiles <- MCChapterFiles
  LeftPresses <- OrTwo
INVARIANTS
  TypeOK
  LargestThrow
  ChapterProgress
PROPERTY
  AllEnd
