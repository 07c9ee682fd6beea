SPECIFICATION Spec
CONSTANTS
  None = None
  Client = {d1, d2}
  Proxy = Proxy
  RATE_LIMIT_DEFAULT = 1
  RATE_LIMIT_AUTH = 1
  Deployed <- Deployments
  Header <- Headers
  Req = {r1, r2}
  Uuid = {x1, x2}
  Filename = {photo}
  MaxSize = 4
  CHUNK_SIZE = 2
  max_bytes = 3
  MaxAsked = 1
VIEW Seen
SYMMETRY Interchangeable
INVARIANTS TypeOK LetThroughExactly HostedIsConfigured AnsweredIsStored NoPartialContent WithinLimit
CHECK_DEADLOCK FALSE
