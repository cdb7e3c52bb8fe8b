CONSTANTS
  Modules <- SomeModules
  Addrs = {0, 1, 2, 3, 4, 5, 6, 7, 8, 9, 10, 11, 12}
  MODULE_CHUNK = 1
  U32_MAX = 4
SPECIFICATION Spec
INVARIANT TypeOK Sorted RemoveFinds LookupExact MaxCodeIsMax
PROPERTY RefinesModuleBag
