\* Cameras that move between three addresses while they are scanned: the scan
\* implements DiscoveryFeed, and a camera gone for good is lost.
SPECIFICATION FairSpec
CONSTANTS
  c1 = c1  c2 = c2  h1 = h1  h2 = h2
  Cameras    <- TwoCameras
  Traits     <- TraitRec
  Abilities  <- MCAbilities
  Addresses  <- MCAddresses
  StaticList <- StaticPair
  MissThreshold = 3
  ChanCap    = 1
  Nowhere    = Nowhere
INVARIANTS
  TypeOK
  KeptIffRecentlySeen
PROPERTIES
  ImplementsFeed
  AbsentIsLost
