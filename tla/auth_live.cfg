\* Locks and failures hold no request for ever; suspensions and new keys reach every cache.
SPECIFICATION FairSpec
CONSTANTS
  Workers = {w1}
  Clients = {c1}
  Keys = {k1, k2}
  Requests = {r1}
  Calls = {p1}
  Objs = {o1, o2, o3}
  TTL = 1
  Limits = {1}
  FreeLimit = 1
  Statuses = {"ACTIVE", "CANCELED"}
  Events <- SuspendOnly
  KeyRotation = TRUE
  KeyUnacked = TRUE
  MaxUnacked = 0
  Byok = TRUE
  None = None
INVARIANTS TypeOK NoOrphanLock
PROPERTIES StaleViewsFade EveryRequestAnswered SuspensionTakesHold ByokTakesHold OldKeyDies
