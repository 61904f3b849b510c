\* Two session ids shared by three offers; three cameras, one of which gets the
\* slot, two of one stream name; a table of two streams.
SPECIFICATION Spec
CONSTANTS
  c1 = c1  c2 = c2  c3 = c3  s1 = s1  s2 = s2  n1 = n1  n2 = n2
  Cameras    <- ThreeCameras
  Names      <- TwoNames
  StreamName <- SharedName
  Sessions   <- TwoSessions
  MaxOffers  = 3
  MaxVideo   = 2
  HasOccupancy = FALSE
  None       = None
INVARIANTS
  TypeOK
  NoOrphanAnswer
  OffersAskForTheOwner
  SeededByTheOwner
PROPERTIES
  OnlyFreshAnswers
  OnlyGo2rtcDelays
