SPECIFICATION Spec
CONSTANTS
  a1 = a1
  a2 = a2
  t1 = t1
  t2 = t2
  t3 = t3
  t4 = t4
  l1 = l1
  r1 = r1
  w1 = w1
  w2 = w2
  None = None
  Keep = Keep
  Agents = {a1, a2}
  Operators = {a1, a2}
  Tickets = {t1, t2, t3}
  Labels = {}
  Requests = {}
  Workers = {w1, w2}
  Strategies = {"manual", "round_robin", "least_busy"}
  Defaults = {None}
  PatchStatuses = {"solved"}
  MaxEvents = 0
  MaxMembership = 2
SYMMETRY TeamSymmetry
INVARIANTS RoundRobinRotates LeastBusySpreads
CHECK_DEADLOCK FALSE
