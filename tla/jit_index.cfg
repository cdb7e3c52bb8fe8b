SPECIFICATION MCSpec
CONSTANTS
  Word = 8
  U32_MAX = 4
  Sections <- SomeSections
  Nothing = Nothing
  Space = 64
  Width <- Widths
  Slides <- SomeSlides
  Elf <- SomeElf
  MachO <- SomeMachO
  Pe <- SomePe
  Absent = Absent
INVARIANTS
  LookupsLineUp
  SectionsAreMapped
  SectionsLineUp
  RemoveNamesAdded
