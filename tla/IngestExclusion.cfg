SPECIFICATION Spec
CONSTANTS
  c1 = c1
  c2 = c2
  ann = ann
  bob = bob
  t1 = t1
  t2 = t2
  t3 = t3
  w1 = w1
  w2 = w2
  None = None
  Chats = {c1}
  Updates <- TwoMessages
  Users = {ann, bob}
  Staff = {bob}
  Excludable = {ann}
  Tickets = {t1, t2}
  Workers = {w1}
  Attempts = 2
  MaxStalls = 1
  IdleWindow = 1
  MaxTime = 0
  MaxRedeliveries = 0
  PatchStatuses = {}
  AgentsReopen = FALSE
  Faults = {"step"}
SYMMETRY TicketSymmetry
INVARIANTS  CompletedIsAccountedFor
 
CHECK_DEADLOCK FALSE
