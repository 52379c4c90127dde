SPECIFICATION MCSpec
CONSTANTS
  s1 = s1
  t1 = t1
  t2 = t2
  t3 = t3
  Sources = {s1}
  OtherVolume = {}
  Takes = {t1, t2, t3}
  Nobody = Nobody
  MaxVersion = 3
  Scans = 2
  Windows = {}
  Files = {"p", "q"}
  Contents = {"A", "B"}
  Trims = {1}
  SidecarTrims = {2}
  Stored <- MCStored
  Jobs = {1, 2}
  MaxJobs = 3
  MaxCopies = 1
  MaxSidecars = 1
  MaxFaults = 1
  Clips = {"c1", "c2"}
  Requests = {"q1", "q2"}
  CACHE_ENTRIES = 1
  DISK_CACHE_ENTRIES = 1
  MaxExports = 2
  MaxCloses = 0
  Folders <- MCFolders
  Registry = "registry"
  Roots <- MCRoots
  Spelling <- MCSpelling
  TranscoderRoots <- MCTranscoderRoots
  Names <- MCNames
  NonAscii = {"tilde"}
  Extra <- MCExtra
  Drives = {"d", "e", "m", "t"}
  Holdings <- MCHoldings
  LocalPaths <- MCLocalPaths
  MaxChanges = 1
  Durations = {0, 5}
  TrimIns <- MCTrimIns
  TrimOuts = {0, 3, 5, 6}
  Rates = {0, 25}
  Blocking = {0, 1}
  Ports = {1, 2, 3}
  Calls = {1, 2, 3, 4}
  Taken = {3}
INVARIANTS
  GivenAliasIsTheClip CacheTellsOfTheFile  ReadyAssetPlays OneFeed
PROPERTIES NoLostUpdate ConfigOutlivesCommands
CHECK_DEADLOCK FALSE
