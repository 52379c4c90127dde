SPECIFICATION Spec
CONSTANTS
  MaxAtOnce = 2
  MaxAssets = 4
  AtFirst = 3
  PageSize = 2
  MaxPages = 3
  Limits = {1}
  MaxCalls = 2
  MaxLosses = 1
  MaxChanges = 1
  Windows = {}
INVARIANT AnswersAreTrue
PROPERTY OperatorInformed
