\* Four keys in a map of two, long enough for stale nodes to be compacted away
\* and for keys to be evicted before and after.
CONSTANTS
  Key = {k1, k2, k3, k4}
  Value = {v}
  Capacity = 2
  MaxInserts = 10
SPECIFICATION Spec
SYMMETRY Symmetry
INVARIANTS
  BoundsHold
  QueueCoversKeys
PROPERTIES
  ImplementsRecency
CHECK_DEADLOCK FALSE
