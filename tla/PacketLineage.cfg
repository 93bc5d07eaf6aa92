\* Two contexts with one pid_tgid that run hooks, calls and XDP programs, two sk_buff
\* addresses on two buffers, two stacks, one identity evicted; either direction of
\* a stack's association is evicted at any time.
CONSTANTS
  Skb = {s1, s2}
  Head = {h1, h2}
  Context = {c1, c2}
  Key <- BothIdle
  Driver = {c1, c2}
  Anchor = {a1, a2}
  MaxPackets = 2
  MaxIdentities = 2
  MaxEvicted = 1
  None = None
SPECIFICATION Spec
INVARIANTS
  IdentityNamesOnePacket
  PacketHasOneIdentity
  AnchorsLeadToLiveSkbs
  XdpExitPairsWithEntry
CONSTRAINTS
  StacksHaveOneContext
  FramesMeetOneContext
SYMMETRY Symmetry
CHECK_DEADLOCK FALSE
