SPECIFICATION Spec
CONSTANTS
  l0 = l0
  l1 = l1
  l2 = l2
  fp = fp
  r1 = r1
  r2 = r2
  Slots = {s1, s2}
  Addrs = {0, 1, 2}
  CACHE_ENTRY_COUNT = 2
  Lists = {l0, l1, l2}
  Empty = l0
  Rules = {fp, r1, r2}
  Fallback = fp
  Generic = Generic
  RuleFor <- RulesOfLists
  MaxGeneration = 3
  None = None
INVARIANTS
  NoStaleRule
  GenerationNamesList
