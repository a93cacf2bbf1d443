SPECIFICATION Spec
CONSTANTS
  c1 = c1
  c2 = c2
  ann = ann
  bob = bob
  t1 = t1
  t2 = t2
  t3 = t3
  w1 = w1
  w2 = w2
  None = None
  Chats = {c1}
  Updates <- TwoMessages
  Users = {ann}
  Staff = {}
  Excludable = {}
  Tickets = {t1, t2}
  Workers = {w1}
  Attempts = 2
  MaxStalls = 1
  IdleWindow = 1
  MaxTime = 0
  MaxRedeliveries = 1
  PatchStatuses = {"closed"}
  AgentsReopen = FALSE
  Faults = {"step", "crash", "hiccup"}
SYMMETRY TicketSymmetry
INVARIANTS TypeOK CompletedIsAccountedFor AckOnce
CHECK_DEADLOCK FALSE
