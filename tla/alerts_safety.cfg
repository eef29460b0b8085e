\* Failing mails, dying workers, new periods, two tasks on objects of different periods.
SPECIFICATION Spec
CONSTANTS
  Workers = {w1}
  Requests = {r1}
  Tasks = {t1, t2}
  Objs = {o1, o2, o3}
  Limits = {1, 2}
  MaxUsed = 2
  Events = {"activate", "update_plan"}
  Faults = TRUE
  None = None
SYMMETRY Symmetry
INVARIANTS TypeOK MarkedAfterMail NoEarlyAlert
