SPECIFICATION FairSpec
CONSTANTS
  t1 = t1
  t2 = t2
  r1 = r1
  r2 = r2
  s1 = s1
  s2 = s2
  None = None
  Tickets = {t1}
  Requests = {r1}
  Senders = {s1, s2}
  Modes = {"auto"}
  MaxParts = 3
  MaxClient = 2
  MaxReplies = 1
  Attempts = 2
  MaxStalls = 1
  Faults = {"request", "refused", "lost", "crash"}
INVARIANTS TypeOK CompletedIsDelivered ConfirmedIsFirstPart BoundedCopies
PROPERTIES ReplySettles
CHECK_DEADLOCK FALSE
