SPECIFICATION Spec
CONSTANTS
  c1 = c1
  c2 = c2
  ann = ann
  bob = bob
  t1 = t1
  t2 = t2
  t3 = t3
  w1 = w1
  w2 = w2
  None = None
  Chats = {c1}
  Updates <- ThreeMessages
  Users = {ann}
  Staff = {}
  Excludable = {}
  Tickets = {t1, t2, t3}
  Workers = {w1}
  Attempts = 2
  MaxStalls = 1
  IdleWindow = 1
  MaxTime = 2
  MaxRedeliveries = 0
  PatchStatuses = {"closed"}
  AgentsReopen = FALSE
  Faults = {}
SYMMETRY TicketSymmetry
INVARIANTS NoSplitThread
CHECK_DEADLOCK FALSE
