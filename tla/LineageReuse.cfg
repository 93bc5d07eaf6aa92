\* One context, one sk_buff address and one buffer, no XDP program: a second packet
\* is sent from the buffer of the first.
CONSTANTS
  Skb = {s1}
  Head = {h1}
  Context = {c1}
  Key <- BothIdle
  Driver = {}
  Anchor = {}
  MaxPackets = 2
  MaxIdentities = 2
  MaxEvicted = 0
  None = None
SPECIFICATION Spec
INVARIANTS
  ObservationBelongsToTrackedPacket
CHECK_DEADLOCK FALSE
