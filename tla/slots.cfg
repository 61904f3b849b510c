\* Crashes, torn and failed saves, restarts, and a storage directory used in
\* turn by builds with other pool sizes.
SPECIFICATION Spec
CONSTANTS
  c1 = c1  c2 = c2  c3 = c3
  Cameras  <- ThreeCameras
  Builds   <- TwoBuilds
  NoSlot   <- MCNoSlot
  NoCamera = NoCamera
SYMMETRY Symmetric
INVARIANTS
  TypeOK
  OneCameraPerSlot
  SlotInRange
  DiskNeverContradicts
  PoolsStayFull
  EndpointStableWhileIntact
PROPERTIES
  ImplementsBinding
