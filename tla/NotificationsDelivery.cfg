SPECIFICATION FairSpec
CONSTANTS
  a1 = a1
  a2 = a2
  t1 = t1
  t2 = t2
  None = None
  Agents = {a1}
  Tickets = {t1}
  Types = {"comment.created", "ticket.assigned", "message.received", "ticket.created", "message.sent", "ticket.updated"}
  PrefTypes = {"comment.mention"}
  Window = 1
  MaxEvents = 2
  MaxMentions = 1
  MaxTime = 1
  MaxRestarts = 1
  Faults = {"dm","task","publish"}
INVARIANTS TypeOK OneDmPerRow PushedOnceInOrder
PROPERTIES EventNotifies
CHECK_DEADLOCK FALSE
