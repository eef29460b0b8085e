\* A key is served after regenerate_key returned.
SPECIFICATION Spec
CONSTANTS
  Workers = {w1}
  Clients = {c1}
  Keys = {k1, k2}
  Requests = {r1, r2}
  Calls = {p1}
  Objs = {o1, o2, o3, o4}
  TTL = 1
  Limits = {2}
  FreeLimit = 2
  Statuses = {"ACTIVE"}
  Events <- NoEvents
  KeyRotation = TRUE
  KeyUnacked = FALSE
  MaxUnacked = 0
  Byok = FALSE
  None = None
PROPERTIES OldKeyDiesAtOnce
