\* A capture of two packets on two CPUs, in one file or up to three segments:
\* the ring, the packet table and the event limit all overflow, and losses land
\* between any two reads of a footer.
CONSTANTS
  Cpu = {c1, c2}
  Skb = {p, q}
  Site = {s1}
  RingSlots = 1
  SkbLossEntries = 1
  MaxProbeSites = 1
  MaxHits = 4
  NoKey = NoKey
  MaxEvents = 3
  MaxRotations = 2
SPECIFICATION SessionSpec
SYMMETRY Symmetry
INVARIANTS
  BreakdownWithinTotal
  SettledLossIsNeverCleared
  EveryHitIsAccountedFor
  SegmentsSumToCapture
CHECK_DEADLOCK FALSE
