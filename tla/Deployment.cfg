SPECIFICATION Spec
CONSTANTS
  v1 = v1
  v2 = v2
  k1 = k1
  None = None
  Variant = {v1, v2}
  Code = {k1}
  LongCode = {k2}
  Importer = {i1, i2}
  FileRows <- OneCoded
  Editable = {v2}
  Changeable = {"categories","products","enquiries"}
SYMMETRY AnyImport
INVARIANTS TypeOK ReferencesHold HistoryLoadedOnce
PROPERTIES RowsMoved
