\* Files of up to four events: broken ones of one packet, whole ones of two
\* or three packets, whose routes are evicted, completed and truncated.
CONSTANTS
  v1 = v1
  v2 = v2
  c1 = c1
  c2 = c2
  p1 = p1
  p2 = p2
  p3 = p3
  fn1 = fn1
  fn2 = fn2
  CONTRACT_VERSION = v1
  Schema = {v1, v2}
  Capture = {c1, c2}
  Skb = {p1, p2, p3}
  Function = {fn1, fn2}
  MAX_REPLAY_EVENTS = 4
  MAX_REPLAY_ROUTES = 2
  MAX_ROUTE_HOPS = 2
  None = None
  Family <- Files
SPECIFICATION Spec
INVARIANTS
  AcceptsExactlyTraces
  RoutesTellWhatHappened
  EvictionsAccountForGaps
CHECK_DEADLOCK FALSE
