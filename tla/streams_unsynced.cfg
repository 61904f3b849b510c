\* Finding: the comment at stream_manager.rs:1.
SPECIFICATION FairSpec
CONSTANTS
  c1 = c1  c2 = c2  c3 = c3  u1 = u1  v1 = v1  u2 = u2  u3 = u3  n1 = n1  n2 = n2
  Cameras    <- OneCamera
  Urls       <- MCUrls
  NoUrl      = NoUrl
  UrisOf     <- MCUrisOf
  Gone       = Gone
  NoCamera   = NoCamera
  Names      <- MCNames
  StreamName <- MCStreamName
  RegistryCap = 2
  ProbeLimit = 1
PROPERTIES
  EventuallySynced
