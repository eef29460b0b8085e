\* The urgent alert goes out.
SPECIFICATION FairSpec
CONSTANTS
  Workers = {w1}
  Requests = {r1}
  Tasks = {t1, t2}
  Objs = {o1, o2, o3}
  Limits = {5}
  MaxUsed = 5
  Events = {}
  Faults = FALSE
  None = None
INVARIANTS NoEarlyAlert
PROPERTIES UrgentAlertGoesOut
