\* Plans of up to three probes; four requests for two public addresses.
CONSTANTS
  gateway = gateway
  router = router
  target = target
  net = net
  None = None
  Address = {gateway, router, target}
  Target = target
  Public = {router, target}
  MAX_HOPS = 3
  MAX_PROBES_PER_HOP = 2
  MAX_PACKETS = 3
  Path <- PathToTarget
  Icmp = {"time_exceeded", "port_unreachable"}
  MaxLookups = 4
  Prefix = {net}
  Asn = {1, 2}
  NetworkInfo <- Answers
  RpkiStatus = {valid}
SPECIFICATION EnrichmentSpec
INVARIANTS
  ReplaysExactlyWhatWasWritten
  StopReasonIsTrue
  EnrichmentAccountsForGaps
PROPERTIES
  CommandsEnd
CHECK_DEADLOCK FALSE
