\* One request at a time, two workers: the quota is overdrawn all the same.
SPECIFICATION Spec
CONSTANTS
  Workers = {w1, w2}
  Clients = {c1}
  Keys = {k1}
  Requests = {r1}
  Calls = {}
  Objs = {o1, o2, o3}
  TTL = 1
  Limits = {2}
  FreeLimit = 2
  Statuses = {"ACTIVE"}
  Events <- NoEvents
  KeyRotation = FALSE
  KeyUnacked = FALSE
  MaxUnacked = 0
  Byok = FALSE
  None = None
SYMMETRY Symmetry
INVARIANTS QuotaEnforced
