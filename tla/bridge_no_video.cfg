\* Finding: the comment at hooks.rs:192-193.
SPECIFICATION Spec
CONSTANTS
  c1 = c1  c2 = c2  c3 = c3  shared = shared
  Cameras     <- TwoCameras
  Traits      <- TwoTraits
  Modes       <- AutoMode
  ChanCap     = 2
  StaticHosts = 0
  Build       <- MCBuild
  RegistryCap = 2
  Names       <- MCNames
  StreamName  <- MCStreamName
  NoSlot      <- MCNoSlot
  None        = None
INVARIANTS
  AlwaysPreallocated
