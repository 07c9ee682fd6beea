SPECIFICATION Spec
CONSTANTS
  None = None
  Keep = Keep
  Category = {c1}
  Product = {p1,p2}
  Variant = {v1,v2}
  Accessory = {a1}
  Name = {n1,n2}
  Req = {r1,r2}
  Creatable = {c1,p1,p2,v1,v2,a1}
  Updatable = {p1,p2,v1,v2,a1}
  Deletable = {c1,p1,p2,v1,v2}
  MaxRows = 4
  HISTORY_LIMIT = 1
SYMMETRY Interchangeable
VIEW RowsAndRequests
INVARIANTS TypeOK CategoryKept FamilyKept NamesUnique CircleNeedsDeleteOrRename
PROPERTIES StoreSpec
