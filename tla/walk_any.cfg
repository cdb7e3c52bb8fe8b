SPECIFICATION Spec
CONSTANTS
  Word = 256
  Bits = 8
  U16 = 4
  Err = Err
  Page = 32
  FALLBACK_SPAN = 64
  SIGCONTEXT = 0
  SIG_FP = 8
  SIG_LR = 16
  SIG_SP = 24
  SIG_PC = 0
  TRAMPOLINE = 13
  max_code_addr = 13
  Info <- MCInfo
  World <- MCWorld
INVARIANTS
  WalkTypeOK
  RulesAgreeWithRows
PROPERTIES
  LastFrameStays
  SpMovesUp
  WalkEnds
CHECK_DEADLOCK FALSE
