\* Either mode under fairness: two cameras and one slot, and a static list that
\* is longer than the broadcast channel. In static mode the bridge stops for good
\* once the list is done: deadlock is not checked.
SPECIFICATION FairSpec
CONSTANTS
  c1 = c1  c2 = c2  c3 = c3  shared = shared
  Cameras     <- TwoCameras
  Traits      <- TwoTraits
  Modes       <- BothModes
  ChanCap     = 1
  StaticHosts = 3
  Build       <- TinyBuild
  RegistryCap = 2
  Names       <- MCNames
  StreamName  <- MCStreamName
  NoSlot      <- MCNoSlot
  None        = None
INVARIANTS
  PanicsOnlyIfOverrun
PROPERTIES
  Converges
CHECK_DEADLOCK FALSE
