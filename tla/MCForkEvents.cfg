SPECIFICATION FairSpec
CONSTANTS
  onair = onair
  ended = ended
  Kinds <- MCKinds
  LogSize = 2
  MaxSeq = 3
  MaxInst = 2
  MaxTasks = 2
  Windows = {}
INVARIANTS HandedOnceInOrder OnlyForgottenSkipped
PROPERTIES ResetIsARestart CatchesUp
