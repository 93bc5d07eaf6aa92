\* Two missions, two sensors: any order of creation, arming, polling, expiry,
\* submission and retry, with a clock that may step back.  Two agents of one sensor
\* race with one another and with other clients.
CONSTANTS
  s1 = s1
  a1 = a1
  a2 = a2
  Sensor = {s1, s2}
  Mission = {1, 2}
  Artifact = {whole, torn}
  CompleteArtifact = {whole}
  None = None
  LeaseDuration = 1
  MaxClock = 2
  MaxGeneration = 3
  Agent = {a1, a2}
  SensorOf <- TwoAgentsOneSensor
  NoTuple = NoTuple
  LENGTH_PENALTY = 1
  Window = 1
  TracePairs <- Pairs
SPECIFICATION FleetSpec
SYMMETRY Symmetry
CONSTRAINT AgentsHaveOneSensor
ACTION_CONSTRAINT OthersStandBack
INVARIANTS
  StatusAgrees
  EvidenceAgrees
  GenerationsAreUnique
  SensorViewAgrees
  CorrelationsAreBest
  UploadOutcomeIsTrue
  HeldAssignmentStaysAcceptable
PROPERTIES
  LeaseSupersededOnlyAtExpiry
  EvidenceIsFinal
  GenerationsGoForward
  ImplementsLifecycle
CHECK_DEADLOCK FALSE
