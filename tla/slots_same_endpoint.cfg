\* Finding: the comment at slot_persistence.rs:8-9.
SPECIFICATION Spec
CONSTANTS
  c1 = c1  c2 = c2  c3 = c3
  Cameras  <- ThreeCameras
  Builds   <- TwoBuilds
  NoSlot   <- MCNoSlot
  NoCamera = NoCamera
INVARIANTS
  AlwaysSameEndpoint
