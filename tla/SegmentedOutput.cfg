\* Two captures on one path, two backups: segments of up to three events, one more
\* than a replay takes, events and headers that never fit, footers within and beyond
\* the reserve.
CONSTANTS
  CONTRACT_VERSION = v1
  Schema = {v1}
  Capture = {1, 2}
  Skb = {a}
  Function = {f}
  MAX_REPLAY_EVENTS = 2
  MAX_REPLAY_ROUTES = 1
  MAX_ROUTE_HOPS = 1
  None = None
  max_bytes = 6
  FOOTER_RESERVE_BYTES = 2
  max_backups = 2
  HeaderBytes = {1, 3, 5}
  EventBytes = {1, 2, 4}
  FooterBytes = {1, 3}
  MaxCaptures = 2
  MaxSeq = 4
SPECIFICATION Spec
INVARIANTS
  FilesAreWhatTheyClaim
  SegmentsTile
  RoomForFooter
CHECK_DEADLOCK FALSE
