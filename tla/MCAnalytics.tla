---------------------------- MODULE MCAnalytics ----------------------------
(* Instances of Analytics for TLC. *)
EXTENDS Analytics, TLC

CONSTANTS c1, c2, t1, t2, q1

FirstDays == {<<0, 1>>}

RowSymmetry == Permutations(Chats) \union Permutations(Tickets)
=============================================================================
