-------------------------------- MODULE Desk --------------------------------
(***************************************************************************)
(* What the ingest pipeline promises the support desk, with no queue, no   *)
(* worker, no retry and no table: each promise is kept in one step.        *)
(*                                                                         *)
(*   Customers post messages; a ticket is opened for a message, belongs to *)
(*   its author and chat for good, and collects messages; it is            *)
(*   acknowledged once.  Agents and excluded senders are no customers: a   *)
(*   message of theirs is never filed.  A message posted while a ticket is *)
(*   closed comes too late for that ticket.                                *)
(*                                                                         *)
(* IngestDesk shows that Ingest implements this specification.             *)
(***************************************************************************)
CONSTANTS Messages,  \* <<chat, number>>
          Users, Staff, Tickets, None

VARIABLES
  posted,    \* [Messages -> None or [from, replyTo]]
  answers,   \* <<m, t>>: the bot's message m is part of ticket t
  filed,     \* <<m, t>>: the customers' message m is part of ticket t
  owner,     \* [Tickets -> None or [chat, customer]]
  closed,    \* tickets nobody works on any more
  acked,     \* [Tickets -> acknowledgements sent to the customer]
  excluded,  \* users who are marked as no customers
  muted,     \* messages whose author has been excluded ever since posting
  late       \* <<m, t>>: t has been closed since before m was posted

vars == <<posted, answers, filed, owner, closed, acked, excluded, muted, late>>

Init ==
  /\ posted = [m \in Messages |-> None]
  /\ answers = {}
  /\ filed = {}
  /\ owner = [t \in Tickets |-> None]
  /\ closed = {}
  /\ acked = [t \in Tickets |-> 0]
  /\ excluded = {}
  /\ muted = {}
  /\ late = {}

Post(m, x, r) ==
  /\ posted[m] = None
  /\ posted' = [posted EXCEPT ![m] = [from |-> x, replyTo |-> r]]
  /\ muted' = IF x \in excluded THEN muted \union {m} ELSE muted
  /\ late' = late \union {<<m, t>> : t \in closed}
  /\ UNCHANGED <<answers, filed, owner, closed, acked, excluded>>

FromCustomer(m) ==
  /\ posted[m] # None
  /\ posted[m].from \notin Staff
  /\ m \notin muted

Open(t, m) ==
  /\ FromCustomer(m)
  /\ owner[t] = None
  /\ owner' = [owner EXCEPT ![t] = [chat |-> m[1], customer |-> posted[m].from]]
  /\ UNCHANGED <<posted, answers, filed, closed, acked, excluded, muted, late>>

(* m replies to what is part of t already. *)
RepliesInto(m, t) ==
  \E n \in Messages : /\ n[1] = m[1] /\ n[2] = posted[m].replyTo
                      /\ <<n, t>> \in filed \union answers

File(m, t) ==
  /\ FromCustomer(m)
  /\ owner[t] # None /\ owner[t].chat = m[1]
  /\ owner[t].customer = posted[m].from \/ RepliesInto(m, t)
  /\ <<m, t>> \notin filed \union late
  /\ filed' = filed \union {<<m, t>>}
  /\ UNCHANGED <<posted, answers, owner, closed, acked, excluded, muted, late>>

Answer(m, t) ==
  /\ owner[t] # None /\ owner[t].chat = m[1]
  /\ posted[m] = None
  /\ answers' = answers \union {<<m, t>>}
  /\ UNCHANGED <<posted, filed, owner, closed, acked, excluded, muted, late>>

(* The customer hears of the ticket once it holds a message of theirs. *)
Acknowledge(t) ==
  /\ acked[t] = 0
  /\ \E m \in Messages : <<m, t>> \in filed /\ posted[m].from = owner[t].customer
  /\ acked' = [acked EXCEPT ![t] = 1]
  /\ UNCHANGED <<posted, answers, filed, owner, closed, excluded, muted, late>>

Close(t) ==
  /\ owner[t] # None
  /\ closed' = closed \union {t}
  /\ UNCHANGED <<posted, answers, filed, owner, acked, excluded, muted, late>>

(* Nothing is late for a ticket that is worked on again. *)
Reopen(t) ==
  /\ owner[t] # None
  /\ closed' = closed \ {t}
  /\ late' = {p \in late : p[2] # t}
  /\ UNCHANGED <<posted, answers, filed, owner, acked, excluded, muted>>

Exclude(x) ==
  /\ excluded' = excluded \union {x}
  /\ UNCHANGED <<posted, answers, filed, owner, closed, acked, muted, late>>

Readmit(x) ==
  /\ excluded' = excluded \ {x}
  /\ muted' = {m \in muted : posted[m].from # x}
  /\ UNCHANGED <<posted, answers, filed, owner, closed, acked, late>>

Next ==
  \/ \E x \in Users : Exclude(x) \/ Readmit(x)
  \/ \E t \in Tickets : Close(t) \/ Reopen(t) \/ Acknowledge(t)
  \/ \E m \in Messages, t \in Tickets : Open(t, m) \/ File(m, t) \/ Answer(m, t)
  \/ \E m \in Messages, x \in Users, r \in {n[2] : n \in Messages} \union {None} : Post(m, x, r)

Spec == Init /\ [][Next]_vars
=============================================================================
