SPECIFICATION Spec
CONSTANTS
  Threads = {t1}
  Unregistered = {u1}
  Inits = {i1}
  NumSlots = {1}
  Stale = {s1}
  SLOT_CHUNK = 1
  MAX_SLOT_CHUNKS = 2
  DEFAULT_SLOTS = 1
  SLOTS_PER_THREAD = 1
  MaxSeq = 3
  None = None
  Addr = {a1, a2, a3}
  NULL = NULL
  MaxPublish = 3
SYMMETRY Symmetry
INVARIANTS
  TypeOK
  NoUseAfterFree
  WalkReadsItsSnapshot
  CurrentAlive
  BoxesAccounted
  FreeSlotsAreClean
PROPERTIES
  RefinesAtomicSnapshot
CHECK_DEADLOCK FALSE
