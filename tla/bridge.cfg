\* Auto discovery: three cameras for two slots, their traits changing, and a
\* broadcast channel short enough to overwrite events.
SPECIFICATION Spec
CONSTANTS
  c1 = c1  c2 = c2  c3 = c3  shared = shared
  Cameras     <- ThreeCameras
  Traits      <- TwoTraits
  Modes       <- AutoMode
  ChanCap     = 1
  StaticHosts = 0
  Build       <- MCBuild
  RegistryCap = 2
  Names       <- ThreeCameras
  StreamName  <- OwnName
  NoSlot      <- MCNoSlot
  None        = None
SYMMETRY Symmetric
INVARIANTS
  TypeOK
  OneEndpointPerCamera
  EndpointsFollowRegistry
  ReachableHasStream
  RegistryFollowsFeed
  PumpsAreOwned
PROPERTIES
  ImplementsSlotLife
