\* Every filter expression of up to five tokens and longer ones at the bounds, in
\* twelve kernel memories; every way of asking for four kernel functions; every
\* backend and tracing option, on a host that may refuse any step and whose BPF
\* programs come and go twice.
CONSTANTS
  None = None
  Absent = Absent
  Btf <- Types
  ByteBits = 2
  MAX_METADATA_ACCESS_STEPS = 4
  MAX_ANONYMOUS_DEPTH = 2
  Clause <- Clauses
  MAX_SKB_FILTER_CONDITIONS = 4
  MAX_SKB_FILTER_NESTING = 1
  KernelFunction <- KernelFunctions
  SplitBtf = {"mod"}
  Available = {"rcv", "xmit", "map_lookup_elem"}
  MAX_KPROBE_ARGUMENT = 5
  Image <- Images
  Object <- Objects
  Packet <- Packets
  Request <- Requests
  Compiled <- compile_filters
  Refused <- filters_refused
  BpfProgram <- Programs
  MapRole <- Roles
  MaxChanges = 2
SPECIFICATION SetupSpec
INVARIANTS
  FiltersMeanWhatIsAsked
  EveryNameIsAccountedFor
  HeaderTellsWhatIsAttached
  XdpEntriesHaveExits
  FailureLeavesNothing
CHECK_DEADLOCK FALSE
