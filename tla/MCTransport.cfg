SPECIFICATION Spec
CONSTANTS
  r1 = r1
  r2 = r2
  r3 = r3
  NoRow = NoRow
  Over = Over
  Rows = {r1, r2, r3}
  Rundown <- MCRundown
  Edits = {}
  Failing = {}
  Overlong = {}
  Commands = {"take", "play", "stop"}
  MaxCommands = 2
  MAX_CONSECUTIVE_SKIPS = 2
  DISPATCH_RETRY_ATTEMPTS = 2
  Windows = {"crossing", "unseen"}
INVARIANTS LastRequestStands AllAgreeOnAir
 
