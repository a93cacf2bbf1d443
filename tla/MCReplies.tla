----------------------------- MODULE MCReplies -----------------------------
(* Instances of Replies for TLC. *)
EXTENDS Replies, TLC

CONSTANTS t1, t2, r1, r2, s1, s2

RequestSymmetry == Permutations(Requests) \union Permutations(Tickets) \union Permutations(Senders)
=============================================================================
