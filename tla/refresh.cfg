SPECIFICATION MCSpec
CONSTANTS
  Keys = {k1, k2, j1, j2}
  JitKeys = {j1, j2}
  StaticKeys = {k1, k2}
  EhFrames = {e1, e2, e3}
  Images = {a, b, plain}
  Unwindable = {a, b}
  Fingerprint <- DistinctFingerprints
  Counted = TRUE
  Windows = FALSE
  MaxEvents = 4
  None = None
SYMMETRY Symmetry
INVARIANTS
  QuickCheckIsSound
  JitPublished
  EhFrameMapsInverse
  HandleNamesItsModule
PROPERTIES
  RefreshReflectsLoads
