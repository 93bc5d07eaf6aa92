\* One capture whose first segment takes three events where a replay takes two.
CONSTANTS
  CONTRACT_VERSION = v1
  Schema = {v1}
  Capture = {1}
  Skb = {a}
  Function = {f}
  MAX_REPLAY_EVENTS = 2
  MAX_REPLAY_ROUTES = 1
  MAX_ROUTE_HOPS = 1
  None = None
  max_bytes = 6
  FOOTER_RESERVE_BYTES = 2
  max_backups = 2
  HeaderBytes = {1}
  EventBytes = {1}
  FooterBytes = {1}
  MaxCaptures = 1
  MaxSeq = 4
SPECIFICATION Spec
INVARIANTS
  EveryRetainedSegmentReplays
CHECK_DEADLOCK FALSE
