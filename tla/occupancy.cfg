\* Two controllers poll an endpoint whose version wraps on the way, while its
\* camera comes and goes.
SPECIFICATION Spec
CONSTANTS
  c1 = c1  c2 = c2  k1 = k1  k2 = k2  a1 = a1  a2 = a2
  Cameras     <- TwoCameras
  Names       <- TwoCameras
  StreamName  <- OwnName
  Addresses   <- TwoAddresses
  Controllers <- TwoControllers
  HasOccupancy = TRUE
  Nobody = Nobody
  NoCache = NoCache
  Unread = Unread
  None = None
  VersionModulus = 3
  MaxBumps = 2
SYMMETRY Symmetric
INVARIANTS
  TypeOK
  CurrentVersionCurrentValue
  MotionFromTheOwnersAddress
  NeverTheWrongCamera
