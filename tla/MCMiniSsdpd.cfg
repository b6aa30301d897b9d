SPECIFICATION Spec
CONSTANTS
  Answers <- MCAnswers
  BufSize = 300
  Leftover <- MCLeftover
  Word = 16777216
  MaxRun = 2
INVARIANTS
  TypeOK
  ListIsAnswer
