SPECIFICATION Spec
CONSTANTS
  u1 = u1
  u2 = u2
  e1 = e1
  e2 = e2
  p1 = p1
  None = None
  User = {u1}
  Email = {e1}
  Password = {p1}
  Given = {p1}
  FIRST_SUPERUSER_EMAIL = e1
  Jti = {1, 2, 3}
  Reset = {}
  Req = {r1, r2, r3}
  Ops = {"login", "refresh", "logout", "logout_all"}
  Aging = {1}
  Table0 <- AdminOnly
SYMMETRY AnySlot
INVARIANTS TypeOK OneLivePerLineage RotationChain
PROPERTIES LineageSpec
