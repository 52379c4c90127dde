SPECIFICATION FairSpec
CONSTANTS
  r1 = r1
  r2 = r2
  r3 = r3
  NoRow = NoRow
  Over = Over
  Rows = {r1, r2, r3}
  Rundown <- MCRundown
  Edits = {}
  Failing = {r2, r3}
  Overlong = {r2, r3}
  Commands = {"take", "play", "stop"}
  MaxCommands = 1
  MAX_CONSECUTIVE_SKIPS = 2
  DISPATCH_RETRY_ATTEMPTS = 2
  Windows = {}
PROPERTY NoClipFreezes
