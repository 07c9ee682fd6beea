SPECIFICATION Spec
CONSTANTS
  None = None
  Keep = Keep
  Category = {c1}
  Product = {p1,p2}
  Variant = {v1}
  Accessory = {}
  Name = {n1,n2}
  Req = {r1}
  Creatable = {c1,p1,p2,v1}
  Updatable = {v1}
  Deletable = {}
  MaxRows = 4
  HISTORY_LIMIT = 0
SYMMETRY Interchangeable
INVARIANTS FlagFollows
