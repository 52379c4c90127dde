SPECIFICATION FairSpec
CONSTANTS
  a = a
  b = b
  f = f
  g = g
  NoUuid = NoUuid
  NoFile = NoFile
  NoValue = NoValue
  UMAX = 100
  Uuids <- MCUuids
  Files <- MCFiles
  Requests <- MCRequests
  Positions <- MCPositions
  ADVANCE_THRESHOLD = 0
  POSITION_RESET_WINDOW = 2
  POSITION_RESET_MAX_WAIT = 3
  POSITION_RESET_MAX_IGNORED = 2
  PREMATURE_SWITCH_MARGIN = 1
  PLAYBACK_WATCHDOG = 3
  EOF_GAP = 2
  EOF_NEAR = 2
  STALL_TICKS = 1
  STALL_NEAR = 3
  FRAME_ZERO_TICKS = 2
  LONG_CLIP = 3
  EARLY_TOLERANCE = 1
  SAMPLE_STEP = 1
  MOVE_EPSILON = 0
  MaxNow = 6
  CallsBy = 2
  MaxCalls = 2
INVARIANTS
  TypeOK
  AdvanceOncePerRegistration
  ConfirmationsOrderedAndUnique
  AdvanceOnlyWhenConfirmed
  GateSitsBeforeTheEnd
PROPERTIES
  FreezeEndsInAdvance
  NeverEarly
