SPECIFICATION FairSpec
CONSTANTS
    Rows = {"r1"}
    MaxPos = 1
    Threshold = 1
    JournalLen = 3
    MaxReloads = 1
    MaxLaunches = 4
    MaxTakes = 2
    Open = {}
INVARIANT AutoRelaunchBounded
PROPERTIES ResumePointKept HungUiHandled
CHECK_DEADLOCK FALSE
