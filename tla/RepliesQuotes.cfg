SPECIFICATION Spec
CONSTANTS
  t1 = t1
  t2 = t2
  r1 = r1
  r2 = r2
  s1 = s1
  s2 = s2
  None = None
  Tickets = {t1, t2}
  Requests = {r1, r2}
  Senders = {s1, s2}
  Modes = {"auto", "force", "never"}
  MaxParts = 1
  MaxClient = 2
  MaxReplies = 2
  Attempts = 2
  MaxStalls = 0
  Faults = {"request", "lost"}
SYMMETRY RequestSymmetry
INVARIANTS QuotesOwnClient FirstResponseIffAnswered
CHECK_DEADLOCK FALSE
