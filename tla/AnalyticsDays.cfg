SPECIFICATION Spec
CONSTANTS
  c1 = c1
  c2 = c2
  t1 = t1
  t2 = t2
  q1 = q1
  None = None
  Chats = {c1, c2}
  Tickets = {t1, t2}
  Requests = {q1}
  TicksPerDay = 2
  MaxTick = 4
  Ranges <- FirstDays
  MaxWrites = 3
  Faults = {"stop", "query"}
SYMMETRY RowSymmetry
INVARIANTS TypeOK StoredDaysAreFinal ClosedIsBracketed MeansAreOfThatDay NoDayMissed SummaryCountsOnce OverviewAgrees
CHECK_DEADLOCK FALSE
