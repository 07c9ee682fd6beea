SPECIFICATION Spec
CONSTANTS
  u1 = u1
  u2 = u2
  e1 = e1
  e2 = e2
  p1 = p1
  None = None
  User = {u1, u2, u3}
  Email = {e1, e2}
  Password = {p1, p2}
  Given = {p1}
  FIRST_SUPERUSER_EMAIL = e1
  Jti = {1}
  Reset = {11}
  Req = {r1, r2}
  Ops = {"seed", "login", "forgot", "reset", "create", "update", "delete"}
  Aging = {}
  Table0 <- NoAccount
SYMMETRY AnySlotOrKey
INVARIANTS LiveEmailUnique
PROPERTIES ColumnIsolation
CHECK_DEADLOCK FALSE
