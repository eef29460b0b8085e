\* Every webhook event against two concurrent requests on one worker, with a
\* lost acknowledgement.
SPECIFICATION Spec
CONSTANTS
  Workers = {w1}
  Clients = {c1}
  Keys = {k1}
  Requests = {r1, r2}
  Calls = {p1}
  Objs = {o1, o2, o3}
  TTL = 1
  Limits = {1, 2}
  FreeLimit = 2
  Statuses = {"ACTIVE", "CANCELED"}
  Events <- AllEvents
  KeyRotation = FALSE
  KeyUnacked = FALSE
  MaxUnacked = 1
  Byok = FALSE
  None = None
SYMMETRY Symmetry
INVARIANTS CurrentNotAhead OverdraftBounded
PROPERTIES LedgerSpec
