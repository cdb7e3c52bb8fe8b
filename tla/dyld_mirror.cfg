SPECIFICATION Spec
CONSTANTS
  Keys = {k1, k2, j1}
  JitKeys = {k2, j1}
  ImageKeys = {k1, k2}
  EhFrames = {e1, e2}
  Images = {a, b, plain}
  Unwindable = {a, b}
  MaxEvents = 3
  None = None
INVARIANTS
  MirrorsDyld
  PublishedIsMapped
