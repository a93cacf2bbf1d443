------------------------------ MODULE MCIngest ------------------------------
(* Instances of Ingest for TLC. *)
EXTENDS IngestDesk, TLC

CONSTANTS c1, c2, ann, bob, t1, t2, t3, w1, w2

TwoMessages == {<<c1, 1>>, <<c1, 2>>}
ThreeMessages == {<<c1, 1>>, <<c1, 2>>, <<c1, 3>>}
TwoChats == {<<c1, 1>>, <<c2, 1>>, <<c2, 2>>}

TicketSymmetry == Permutations(Tickets)
=============================================================================
