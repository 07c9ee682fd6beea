SPECIFICATION Spec
CONSTANTS
  u1 = u1
  u2 = u2
  e1 = e1
  e2 = e2
  p1 = p1
  None = None
  User = {u1,u2}
  Email = {e1,e2}
  Password = {p1,p2}
  Given = {p1}
  FIRST_SUPERUSER_EMAIL = e1
  Jti = {1,2}
  Reset = {11,12}
  Req = {r1}
  Ops = {"login", "refresh", "logout", "logout_all", "change", "forgot", "reset", "update", "delete"}
  Aging = {11}
  Table0 <- TwoUsers
INVARIANTS SessionsMatchPassword ResetSingleUse OneResetLink InactiveHasNoSession AdminRemains
CHECK_DEADLOCK FALSE
