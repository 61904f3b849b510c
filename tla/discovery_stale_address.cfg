\* Finding: the comments at registry.rs:1 and registry.rs:45.
SPECIFICATION Spec
CONSTANTS
  c1 = c1  c2 = c2  h1 = h1  h2 = h2
  Cameras    <- OneCamera
  Traits     <- TraitRec
  Abilities  <- MCAbilities
  Addresses  <- MCAddresses
  StaticList <- StaticPair
  MissThreshold = 3
  ChanCap    = 2
  Nowhere    = Nowhere
INVARIANTS
  AnnouncedAddressIsCurrent
