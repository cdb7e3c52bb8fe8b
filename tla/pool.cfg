SPECIFICATION CrowdSpec
CONSTANTS
  Threads = {t1, t2}
  Unregistered = {u1}
  Inits = {i1}
  NumSlots = {1, 4}
  Stale = {s1}
  SLOT_CHUNK = 1
  MAX_SLOT_CHUNKS = 3
  DEFAULT_SLOTS = 1
  SLOTS_PER_THREAD = 1
  MaxSeq = 4
  None = None
SYMMETRY Symmetry
INVARIANTS
  PoolTypeOK
  OneHolder
  WalkKeepsSlot
  ClaimFailsOnlyInCrowd
CHECK_DEADLOCK FALSE
