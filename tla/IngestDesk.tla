----------------------------- MODULE IngestDesk -----------------------------
(***************************************************************************)
(* The ingest pipeline implements the promises of Desk: what the desk sees *)
(* of the pipeline's state.                                                *)
(***************************************************************************)
EXTENDS Ingest

Filed == {p \in Updates \X Tickets : sent[p[1]] # None /\ Stored(p[1], p[2])}

Answers == {p \in Updates \X Tickets : outgoing[p[1]] # None /\ Stored(p[1], p[2])}

ASSUME OwnerAssumption == None \notin [chat : Chats, customer : Users]

Owner ==
  [t \in Tickets |-> IF ticket[t] = None THEN None
                     ELSE [chat |-> ticket[t].chat, customer |-> ticket[t].customer]]

Closed == {t \in Tickets : ticket[t] # None /\ ~Live(t)}

Acked == [t \in Tickets |-> ack[t].sends]

Outsiders == {x \in Users : Excluded(x)}

Promise ==
  INSTANCE Desk WITH Messages <- Updates, posted <- sent, answers <- Answers, filed <- Filed,
                     owner <- Owner, closed <- Closed, acked <- Acked, excluded <- Outsiders,
                     late <- sealed

(* Every step of the queue, the workers, the agents, the admins and        *)
(* Telegram keeps the promises of Desk or does nothing the desk can see:   *)
(* tickets never change hands or disappear, messages are filed once per    *)
(* ticket and stay, only for customers, only where they belong and not too *)
(* late, and a ticket is acknowledged once, after its first message.       *)
KeepsPromises == Promise!Spec
=============================================================================
