SPECIFICATION Spec
CONSTANTS
  u1 = u1
  u2 = u2
  e1 = e1
  e2 = e2
  p1 = p1
  None = None
  User = {u1}
  Email = {e1}
  Password = {p1}
  Given = {p1}
  FIRST_SUPERUSER_EMAIL = e1
  Jti = {1, 2, 3}
  Reset = {}
  Req = {r1, r2}
  Ops = {"login", "refresh", "logout_all"}
  Aging = {}
  Table0 <- AdminOnly
PROPERTIES EverySessionRevoked
CHECK_DEADLOCK FALSE
