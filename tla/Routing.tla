------------------------------ MODULE Routing ------------------------------
(***************************************************************************)
(* RoutingService.decideAssignment as an operator over the tickets table:  *)
(* who gets a new ticket.  An operator returns the SET of agents the code  *)
(* may pick; sort() keeps the order the database returned the members in,  *)
(* so any of several equal agents may come first.                          *)
(***************************************************************************)
EXTENDS Integers, FiniteSets

CONSTANT None   \* SQL NULL, "no such row"

Done == {"solved", "closed", "archived"}

(* ORDER BY key ascending, first entry. *)
Least(S, key(_)) == {x \in S : \A y \in S : key(x) <= key(y)}

AssignedTo(ticket, a) == {t \in DOMAIN ticket : ticket[t] # None /\ ticket[t].assignee = a}

OpenCount(ticket, a) == Cardinality({t \in AssignedTo(ticket, a) : ticket[t].status \notin Done})

(* _max of createdAt over the agent's tickets; 0 is new Date(0). *)
LastAssignedAt(ticket, a) ==
  LET times == {ticket[t].createdAt : t \in AssignedTo(ticket, a)}
  IN  CHOOSE m \in times \union {0} : \A n \in times : n <= m

(* Mutant: descending, the busiest goes first. *)
Busiest(ticket, members) == Least(members, LAMBDA a : -OpenCount(ticket, a))

LeastBusy(ticket, members) == Least(members, LAMBDA a : OpenCount(ticket, a))

(* Mutant: descending, the agent assigned last goes first. *)
LastInTurn(ticket, members) == Least(members, LAMBDA a : -LastAssignedAt(ticket, a))

NextInTurn(ticket, members) == Least(members, LAMBDA a : LastAssignedAt(ticket, a))

(* members: the team's active members ({} also for a chat without team). *)
DecideAssignment(strategy, ticket, members, default) ==
  IF strategy = "manual" \/ members = {} THEN {default}
  ELSE IF strategy = "least_busy" THEN LeastBusy(ticket, members)
  ELSE NextInTurn(ticket, members)
=============================================================================
