SPECIFICATION FairSpec
CONSTANTS
  u1 = u1
  u2 = u2
  e1 = e1
  e2 = e2
  p1 = p1
  None = None
  User = {u1}
  Email = {e1}
  Password = {p1}
  Given = {p1}
  FIRST_SUPERUSER_EMAIL = e1
  Jti = {1,2}
  Reset = {11,12}
  Req = {r1,r2}
  Ops = {"login", "refresh", "logout", "logout_all", "change", "forgot", "reset"}
  Aging = {}
  Table0 <- AdminOnly
INVARIANTS NoWaitCycle
PROPERTIES RequestCompletes
