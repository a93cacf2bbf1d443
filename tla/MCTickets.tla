----------------------------- MODULE MCTickets -----------------------------
(* Instances of Tickets for TLC. *)
EXTENDS Tickets, TLC

CONSTANTS a1, a2, t1, t2, t3, t4, l1, r1, w1, w2

(* Agents are interchangeable where all of them, or none, send requests. *)
TeamSymmetry == Permutations(Agents) \union Permutations(Tickets) \union Permutations(Workers)
DeskSymmetry == Permutations(Agents \ Operators) \union Permutations(Tickets)
=============================================================================
