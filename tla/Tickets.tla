------------------------------ MODULE Tickets ------------------------------
(***************************************************************************)
(* The life of tickets after grouping: routed creation, agents' patches,   *)
(* assignments and bulk actions, and the audit log they leave.             *)
(*                                                                         *)
(* A transaction is one action; what a handler reads before it is an       *)
(* action of its own, so other requests run in between.  Tickets are never *)
(* deleted, so requireTicket only matters for what it returns.             *)
(***************************************************************************)
EXTENDS Routing, Sequences

CONSTANTS
  Agents,        \* agents; the active members of the team change
  Operators,     \* the agents that send requests
  Tickets,       \* ticket rows that can be created (bound)
  Labels,
  Requests,      \* requests the API handles at a time
  Workers,       \* ingest workers creating tickets
  Strategies,    \* routing strategies of the chats
  Defaults,      \* default assignees of the chats
  PatchStatuses, \* statuses agents set in this instance
  MaxEvents,     \* rows of the audit log (bound)
  MaxMembership, \* changes of the active members (bound)
  Keep           \* a field a change does not mention

Statuses == {"open", "pending", "on_hold", "solved", "closed", "archived"}

ASSUME ConstantsAssumption ==
  /\ Operators \subseteq Agents
  /\ Strategies \subseteq {"manual", "round_robin", "least_busy"}
  /\ Defaults \subseteq Agents \union {None}
  /\ PatchStatuses \subseteq Statuses
  /\ IsFiniteSet(Tickets)
  /\ MaxEvents \in Nat
  /\ MaxMembership \in Nat
Row == [status : Statuses, assignee : Agents \union {None}, labels : SUBSET Labels,
        closedBy : Agents \union {None}, createdAt : 1 .. Cardinality(Tickets)]

ASSUME NoneAssumption ==
  None \notin Agents /\ None \notin Tickets /\ None \notin Statuses /\ None \notin Row
ASSUME KeepAssumption ==
  /\ Keep \notin Agents \union Statuses \union {None}
  /\ \A ls \in SUBSET Labels : Keep # ls

VARIABLES
  ticket,   \* [Tickets -> None or a ticket row]
  log,      \* ticket_events, in order
  active,   \* active members of the team
  changes,  \* how often `active` changed
  wk,       \* [Workers -> a routing decision not yet carried out]
  req,      \* [Requests -> a running assign or bulk request]
  routed,   \* history: the tickets in creation order, and how each was routed
  since,    \* history: [Agents -> tickets there were when the agent became active]
  byHand,   \* history: some ticket was assigned by an agent
  unlogged  \* history: tickets whose status was last set without an event

historyVars == <<since, byHand, unlogged>>
vars == <<ticket, log, active, changes, wk, req, routed, historyVars>>

-----------------------------------------------------------------------------
Existing == {t \in Tickets : ticket[t] # None}

NoRequest == [pc |-> "idle", op |-> "close", todo |-> <<>>, arg |-> None, by |-> None, seen |-> Keep]
NoDecision == [pc |-> "idle", strategy |-> "manual", default |-> None, members |-> {},
               pick |-> None, seen |-> 0, counted |-> 0]

Init ==
  /\ ticket = [t \in Tickets |-> None]
  /\ log = <<>>
  /\ active = Agents
  /\ changes = 0
  /\ wk = [w \in Workers |-> NoDecision]
  /\ req = [r \in Requests |-> NoRequest]
  /\ routed = <<>>
  /\ since = [a \in Agents |-> 0]
  /\ byHand = FALSE
  /\ unlogged = {}

-----------------------------------------------------------------------------
(* Rule 3 in the worker: decideAssignment, then createForNewThread. *)

Busy == {w \in Workers : wk[w].pc # "idle"}

(* The chat's strategy and the team's active members are read; `seen`      *)
(* tickets exist by then.                                                  *)
FindMembers(w, strategy, default) ==
  /\ wk[w].pc = "idle"
  /\ Cardinality(Existing) + Cardinality(Busy) < Cardinality(Tickets)
  /\ wk' = [wk EXCEPT ![w] = [NoDecision EXCEPT !.pc = "count", !.strategy = strategy,
                                                !.default = default, !.members = active,
                                                !.seen = Len(routed)]]
  /\ UNCHANGED <<ticket, log, active, changes, req, routed, historyVars>>

(* The members' tickets are counted: `counted` tickets by then. *)
Count(w) ==
  /\ wk[w].pc = "count"
  /\ \E a \in DecideAssignment(wk[w].strategy, ticket, wk[w].members, wk[w].default) :
       wk' = [wk EXCEPT ![w] = [@ EXCEPT !.pc = "create", !.pick = a, !.counted = Len(routed),
                                         !.default = None, !.members = {}]]
  /\ UNCHANGED <<ticket, log, active, changes, req, routed, historyVars>>

NewTicket(assignee) ==
  [status |-> "open", assignee |-> assignee, labels |-> {}, closedBy |-> None,
   createdAt |-> Len(routed) + 1]

Create(w, t) ==
  /\ wk[w].pc = "create"
  /\ ticket[t] = None
  /\ ticket' = [ticket EXCEPT ![t] = NewTicket(wk[w].pick)]
  /\ routed' = Append(routed, [ticket |-> t, agent |-> wk[w].pick, strategy |-> wk[w].strategy,
                               seen |-> wk[w].seen, counted |-> wk[w].counted])
  /\ wk' = [wk EXCEPT ![w] = NoDecision]
  /\ UNCHANGED <<log, active, changes, req, historyVars>>

(* The attempt fails or the worker dies. *)
Abandon(w) ==
  /\ wk[w].pc # "idle"
  /\ wk' = [wk EXCEPT ![w] = NoDecision]
  /\ UNCHANGED <<ticket, log, active, changes, req, routed, historyVars>>

(* An agent joins or leaves the team, or is (de)activated. *)
Membership(a) ==
  /\ changes < MaxMembership
  /\ changes' = changes + 1
  /\ active' = IF a \in active THEN active \ {a} ELSE active \union {a}
  /\ since' = IF a \in active THEN since ELSE [since EXCEPT ![a] = Len(routed)]
  /\ UNCHANGED <<ticket, log, wk, req, routed, byHand, unlogged>>

-----------------------------------------------------------------------------
(* Changes: what a patch or an assignment sets; the rest is Keep. *)
NoChange == [status |-> Keep, assignee |-> Keep, labels |-> Keep]
StatusTo(s) == [NoChange EXCEPT !.status = s]
AssigneeTo(a) == [NoChange EXCEPT !.assignee = a]
LabelsTo(ls) == [NoChange EXCEPT !.labels = ls]

Given(new, old) == IF new = Keep THEN old ELSE new

Changed(row, c, by) ==
  [row EXCEPT !.status = Given(c.status, @),
              !.assignee = Given(c.assignee, @),
              !.labels = Given(c.labels, @),
              !.closedBy = IF c.status = "closed" /\ by # None THEN by ELSE @]

(* Mutants: an assignment without its event; the previous assignee read    *)
(* from the updated row.                                                   *)
LoggedIfStatus(t, c, by, previous) ==
  log' = IF c.assignee = Keep
         THEN Append(log, [ticket |-> t, by |-> by, change |-> c, previous |-> previous])
         ELSE log
LoggedAfter(t, c, by, previous) ==
  log' = Append(log, [ticket |-> t, by |-> by, change |-> c,
                      previous |-> IF previous = Keep THEN Keep ELSE c.assignee])

Logged(t, c, by, previous) ==
  log' = Append(log, [ticket |-> t, by |-> by, change |-> c, previous |-> previous])

(* The transaction of patch and assign: the row and its event. *)
Apply(t, c, by, previous) ==
  /\ Len(log) < MaxEvents
  /\ ticket' = [ticket EXCEPT ![t] = Changed(@, c, by)]
  /\ Logged(t, c, by, previous)
  /\ byHand' = (byHand \/ c.assignee # Keep)
  /\ unlogged' = IF c.status = Keep THEN unlogged ELSE unlogged \ {t}
  /\ UNCHANGED <<active, changes, wk, routed, since>>

(* PATCH /tickets/:id, close, reopen, snooze; and the revive of ingest. *)
Patch(t, c, by) ==
  /\ t \in Existing
  /\ Apply(t, c, by, Keep)
  /\ UNCHANGED req

Revive(t) == Patch(t, StatusTo("open"), None)

(* POST /tickets/:id/assign and /claim, and POST /tickets/bulk, which does *)
(* one ticket after the other.                                             *)
(* Mutant: bulk does not read the ticket first. *)
FirstStepUnread(op) == IF op = "label" THEN "read" ELSE "write"

FirstStep(op) == IF op = "close" THEN "write" ELSE "read"

Begin(r, op, todo, arg, by) ==
  /\ req[r].pc = "idle"
  /\ req' = [req EXCEPT ![r] = [pc |-> FirstStep(op), op |-> op, todo |-> todo,
                                arg |-> arg, by |-> by, seen |-> Keep]]
  /\ UNCHANGED <<ticket, log, active, changes, wk, routed, historyVars>>

Current(r) == Head(req[r].todo)

(* assign reads the previous assignee, bulk label the labels there are. *)
Read(r) ==
  /\ req[r].pc = "read"
  /\ req' = [req EXCEPT ![r].pc = "write",
       ![r].seen = IF req[r].op = "assign" THEN ticket[Current(r)].assignee
                   ELSE ticket[Current(r)].labels]
  /\ UNCHANGED <<ticket, log, active, changes, wk, routed, historyVars>>

Change(r) ==
  CASE req[r].op = "assign" -> AssigneeTo(req[r].arg)
    [] req[r].op = "label" -> LabelsTo(req[r].seen \union {req[r].arg})
    [] req[r].op = "close" -> StatusTo("closed")

Write(r) ==
  LET rest == Tail(req[r].todo)
  IN  /\ req[r].pc = "write"
      /\ Apply(Current(r), Change(r), req[r].by, IF req[r].op = "assign" THEN req[r].seen ELSE Keep)
      /\ req' = [req EXCEPT ![r] =
           IF rest = <<>> THEN NoRequest
           ELSE [@ EXCEPT !.pc = FirstStep(req[r].op), !.todo = rest, !.seen = Keep]]

(* A call rejects or the API dies: the tickets done so far stay done. *)
Fail(r) ==
  /\ req[r].pc # "idle"
  /\ req' = [req EXCEPT ![r] = NoRequest]
  /\ UNCHANGED <<ticket, log, active, changes, wk, routed, historyVars>>

(* mark-not-customer closes the ticket with a plain update. *)
MarkNotCustomer(t, by) ==
  /\ t \in Existing
  /\ ticket' = [ticket EXCEPT ![t].status = "closed", ![t].closedBy = by]
  /\ unlogged' = unlogged \union {t}
  /\ UNCHANGED <<log, active, changes, wk, req, routed, since, byHand>>

-----------------------------------------------------------------------------
Lists == {<<t>> : t \in Existing}
           \union {<<p[1], p[2]>> : p \in {q \in Existing \X Existing : q[1] # q[2]}}

Routed ==
  \E w \in Workers :
    \/ \E strategy \in Strategies, default \in Defaults : FindMembers(w, strategy, default)
    \/ Count(w)
    \/ \E t \in Tickets : Create(w, t)
    \/ Abandon(w)

Patches ==
  {StatusTo(s) : s \in PatchStatuses} \union {AssigneeTo(a) : a \in Agents \union {None}}
    \union {LabelsTo(ls) : ls \in SUBSET Labels}

AgentRequest ==
  \/ \E t \in Tickets, by \in Operators :
       \/ \E c \in Patches : Patch(t, c, by)
       \/ MarkNotCustomer(t, by)
  \/ \E r \in Requests, todo \in Lists, by \in Operators :
       \/ \E a \in Agents : Begin(r, "assign", todo, a, by)
       \/ \E l \in Labels : Begin(r, "label", todo, l, by)
       \/ Begin(r, "close", todo, None, by)
  \/ \E r \in Requests : Read(r) \/ Write(r) \/ Fail(r)

Next ==
  \/ Routed
  \/ \E a \in Agents : Membership(a)
  \/ \E t \in Tickets : Revive(t)
  \/ AgentRequest

Spec == Init /\ [][Next]_vars

-----------------------------------------------------------------------------
(* Properties. *)

ChangeSet == [status : Statuses \union {Keep}, assignee : Agents \union {None, Keep},
              labels : {Keep} \union SUBSET Labels]

(* Every variable has its type; a request that is about to write has a     *)
(* ticket left and has read what its operation needs.                      *)
TypeOK ==
  /\ \A t \in Existing : ticket[t] \in Row
  /\ log \in Seq([ticket : Tickets, by : Agents \union {None}, change : ChangeSet,
                  previous : Agents \union {None, Keep}])
  /\ active \subseteq Agents
  /\ changes \in 0 .. MaxMembership
  /\ wk \in [Workers -> [pc : {"idle", "count", "create"},
                         strategy : {"manual", "round_robin", "least_busy"},
                         default : Agents \union {None}, members : SUBSET Agents,
                         pick : Agents \union {None},
                         seen : 0 .. Len(routed), counted : 0 .. Len(routed)]]
  /\ \A r \in Requests :
       /\ req[r].pc \in {"idle", "read", "write"}
       /\ req[r].pc # "idle" => req[r].todo # <<>> /\ Current(r) \in Existing
       /\ req[r].pc = "write" /\ req[r].op = "assign" => req[r].seen \in Agents \union {None}
       /\ req[r].pc = "write" /\ req[r].op = "label" => req[r].seen \in SUBSET Labels
  /\ \A i \in DOMAIN routed : ticket[routed[i].ticket].createdAt = i

(* The events of ticket t that set a field, and the last of them. *)
Setting(t, field) == {i \in DOMAIN log : log[i].ticket = t /\ log[i].change[field] # Keep}
Last(S) == CHOOSE i \in S : \A j \in S : j <= i
FromLog(t, field, initial) ==
  IF Setting(t, field) = {} THEN initial ELSE log[Last(Setting(t, field))].change[field]

(* The audit log is complete and in order: replayed on the row as it was   *)
(* created it yields the ticket, field by field, and who closed it, with   *)
(* concurrent patches, stale assigns and half-done bulk requests.  The one *)
(* change it misses is the closing by mark-not-customer.                   *)
AuditReplays ==
  \A i \in DOMAIN routed :
    LET t == routed[i].ticket
    IN  /\ ticket[t].assignee = FromLog(t, "assignee", routed[i].agent)
        /\ ticket[t].labels = FromLog(t, "labels", {})
        /\ t \notin unlogged =>
             /\ ticket[t].status = FromLog(t, "status", "open")
             /\ ticket[t].status = "closed" =>
                  ticket[t].closedBy = log[Last(Setting(t, "status"))].by

(* The previous assignee an event names may be stale, as it is read before *)
(* the transaction, but did hold the ticket before the event.              *)
AuditPrevious ==
  \A i \in DOMAIN log : log[i].previous # Keep =>
    \/ \E j \in DOMAIN routed : routed[j].ticket = log[i].ticket /\ routed[j].agent = log[i].previous
    \/ \E j \in 1 .. i - 1 : log[j].ticket = log[i].ticket /\ log[j].change.assignee = log[i].previous

(* b has been an active member since before ticket n's team was read. *)
MemberFor(n, b) == b \in active /\ since[b] < routed[n].seen

(* "whoever in the team was assigned longest ago (or never)": as long as   *)
(* nobody assigns by hand, an agent whose turn it is has got no ticket     *)
(* after a colleague's turn came, whichever strategies the chats mix.      *)
(* Workers route at the same time: the tickets created after the counting  *)
(* are those a decision misses, and the only ones.                         *)
RoundRobinRotates ==
  \A n \in DOMAIN routed : ~byHand /\ routed[n].strategy = "round_robin" =>
    \A i \in 1 .. routed[n].counted, b \in Agents :
      /\ routed[i].agent = routed[n].agent
      /\ routed[i].agent \in Agents
      /\ MemberFor(n, b)
      => \E k \in i .. routed[n].counted : routed[k].agent = b

(* "whoever currently has the fewest open tickets": of the tickets the     *)
(* decision could see, its agent still has no more open than any other     *)
(* member ever had.  What two workers count at the same time may go to one *)
(* agent, but the next decision sees it.  Tickets reopened or assigned by  *)
(* hand are outside.                                                       *)
UpTo(n, a) == {t \in Tickets : \E i \in 1 .. n : routed[i].ticket = t /\ routed[i].agent = a}
LeastBusySpreads ==
  \A n \in DOMAIN routed, b \in Agents :
    LET a == routed[n].agent
        c == routed[n].counted
    IN  /\ ~byHand
        /\ \A i \in DOMAIN log : log[i].change.status \in Done \union {Keep}
        /\ routed[n].strategy = "least_busy"
        /\ a \in Agents
        /\ MemberFor(n, b)
        => Cardinality({t \in UpTo(c, a) : ticket[t].status \notin Done})
             <= Cardinality(UpTo(c, b))
=============================================================================
