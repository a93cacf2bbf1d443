SPECIFICATION Spec
CONSTANTS
  a1 = a1
  a2 = a2
  t1 = t1
  t2 = t2
  t3 = t3
  t4 = t4
  l1 = l1
  r1 = r1
  w1 = w1
  w2 = w2
  None = None
  Keep = Keep
  Agents = {a1, a2}
  Operators = {a1}
  Tickets = {t1, t2}
  Labels = {l1}
  Requests = {r1}
  Workers = {w1}
  Strategies = {"manual"}
  Defaults = {a2}
  PatchStatuses = {"solved"}
  MaxEvents = 3
  MaxMembership = 0
SYMMETRY DeskSymmetry
INVARIANTS TypeOK  AuditPrevious
CHECK_DEADLOCK FALSE
