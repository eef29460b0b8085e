\* One worker, one request at a time: the same alert is mailed again.
SPECIFICATION Spec
CONSTANTS
  Workers = {w1}
  Requests = {r1}
  Tasks = {t1}
  Objs = {o1, o2}
  Limits = {10}
  MaxUsed = 10
  Events = {}
  Faults = FALSE
  None = None
PROPERTIES NoDuplicateAlert
