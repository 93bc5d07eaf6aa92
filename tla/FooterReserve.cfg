\* One capture whose second footer may be larger than the reserve.
CONSTANTS
  CONTRACT_VERSION = v1
  Schema = {v1}
  Capture = {1}
  Skb = {a}
  Function = {f}
  MAX_REPLAY_EVENTS = 4
  MAX_REPLAY_ROUTES = 1
  MAX_ROUTE_HOPS = 1
  None = None
  max_bytes = 6
  FOOTER_RESERVE_BYTES = 2
  max_backups = 2
  HeaderBytes = {1}
  EventBytes = {1}
  FooterBytes = {1, 3}
  MaxCaptures = 1
  MaxSeq = 4
SPECIFICATION Spec
INVARIANT FooterIsMandatory
CHECK_DEADLOCK FALSE
