SPECIFICATION FairReadersSpec
CONSTANTS
  Threads = {t1, t2}
  Unregistered = {}
  Inits = {}
  NumSlots = {}
  Stale = {}
  SLOT_CHUNK = 1
  MAX_SLOT_CHUNKS = 2
  DEFAULT_SLOTS = 0
  SLOTS_PER_THREAD = 1
  MaxSeq = 2
  None = None
  Addr = {a1, a2}
  NULL = NULL
  MaxPublish = 3
INVARIANTS
  RegisteredNeverTurnedAway
PROPERTIES
  InitReturns
  FiniFreesSlot
  WriterReturns
CHECK_DEADLOCK FALSE
