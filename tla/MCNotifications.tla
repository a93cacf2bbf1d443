-------------------------- MODULE MCNotifications --------------------------
(* Instances of Notifications for TLC. *)
EXTENDS Notifications, TLC

CONSTANTS a1, a2, t1, t2

AgentTicketSymmetry == Permutations(Agents) \union Permutations(Tickets)
=============================================================================
