SPECIFICATION Spec
CONSTANTS
  None = None
  Client = {}
  Proxy = Proxy
  RATE_LIMIT_DEFAULT = 1
  RATE_LIMIT_AUTH = 1
  Deployed <- AnyEnvironment
  Header <- Headers
  Req = {}
  Uuid = {x1}
  Filename = {photo}
  MaxSize = 1
  CHUNK_SIZE = 1
  max_bytes = 1
  MaxAsked = 0
INVARIANTS ShippedDefaultsRefused
CHECK_DEADLOCK FALSE
