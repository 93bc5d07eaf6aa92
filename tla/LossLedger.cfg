\* Two CPUs lose observations of two packets at two probes; the per-packet
\* table and the per-probe map each have room for one entry.  No symmetry, which
\* is unsound for liveness.
CONSTANTS
  Cpu = {c1, c2}
  Skb = {p, q}
  Site = {s1, s2}
  RingSlots = 1
  SkbLossEntries = 1
  MaxProbeSites = 1
  MaxHits = 4
  NoKey = NoKey
SPECIFICATION FairSpec
INVARIANTS
  LossIsConserved
  ExhaustiveWhileUnattributedIsZero
PROPERTIES
  LossSurfaces
CHECK_DEADLOCK FALSE
