SPECIFICATION Spec
CONSTANTS
  c1 = c1
  c2 = c2
  ann = ann
  bob = bob
  t1 = t1
  t2 = t2
  t3 = t3
  w1 = w1
  w2 = w2
  None = None
  Chats = {c1, c2}
  Updates <- TwoChats
  Users = {ann, bob}
  Staff = {}
  Excludable = {}
  Tickets = {t1, t2, t3}
  Workers = {w1}
  Attempts = 2
  MaxStalls = 1
  IdleWindow = 1
  MaxTime = 0
  MaxRedeliveries = 0
  PatchStatuses = {"closed", "pending", "open"}
  AgentsReopen = TRUE
  Faults = {}
SYMMETRY TicketSymmetry
INVARIANTS RowsStayInChat  ClosedGetsNothingNew
 
CHECK_DEADLOCK FALSE
