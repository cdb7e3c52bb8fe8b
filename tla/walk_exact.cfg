SPECIFICATION Spec
CONSTANTS
  Word = 512
  Bits = 9
  U16 = 32
  Err = Err
  Page = 32
  FALLBACK_SPAN = 128
  SIGCONTEXT = 0
  SIG_FP = 0
  SIG_LR = 8
  SIG_SP = 16
  SIG_PC = 24
  TRAMPOLINE = 25
  max_code_addr = 80
  Info <- MCInfo
  Program <- MCProgram
  Junk = 251
  Hash = 128
INVARIANTS
  ReportsCallStack
CHECK_DEADLOCK FALSE
