SPECIFICATION Spec
CONSTANTS
  N = 3
  a = a
  b = b
  c = c
  v0 = v0
  v1 = v1
  Junk = Junk
  Names = {a, b, c}
  Values = {v0, v1}
  Layouts <- MCLayouts
  defaultValue <- MCDefaultValue
  Switches = {1}
  StoresNames = TRUE
  ChecksTag = FALSE
  EraseWrites = TRUE
INVARIANT TypeOK
PROPERTIES
  SetReachesReader
  SaveSurvives
  OneCut
  EraseIsDurable
