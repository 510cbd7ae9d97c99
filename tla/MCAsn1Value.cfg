CONSTANTS
  Values = {1, 2}
  Width <- WidthDef
  Default = 1
  Types <- TypesDef
  Layouts <- LayoutsDef
  MaxCalls = 3
SPECIFICATION Spec
INVARIANTS
  AccessorsExact
  DumpExact
  ForcedExact
  NativeExact
CHECK_DEADLOCK FALSE
