-------------------------- MODULE IngestRefinement --------------------------
(***************************************************************************)
(* Proof that Ingest implements Desk.  Each step of the pipeline is a step *)
(* of Desk or leaves all that Desk shows alone.                            *)
(***************************************************************************)
EXTENDS IngestOutcomes, IngestDesk

USE ConstantsAssumption, NoneAssumption

-----------------------------------------------------------------------------
(* The handler that owes an acknowledgement works for the ticket's own     *)
(* customer, who posted the ticket's first message.                        *)

CustomerInv ==
  \A w \in Workers : wk[w].isNew /\ wk[w].tkt # None =>
    ticket[wk[w].tkt].customer = sent[wk[w].upd].from

LEMMA CustomerStep == TypeInv /\ CustomerInv /\ [Next]_vars => CustomerInv'
<1> SUFFICES ASSUME TypeInv, CustomerInv, [Next]_vars,
                    NEW w \in Workers, wk'[w].isNew, wk'[w].tkt # None
             PROVE  ticket'[wk'[w].tkt].customer = sent'[wk'[w].upd].from
  BY DEF CustomerInv
<1>1. /\ wk[w].pc # "idle" /\ wk'[w].upd = wk[w].upd
      /\ \/ KeptTicket(w)
         \/ \E t \in Tickets : AttachedTo(w, t)
         \/ \E t \in Tickets : CreatedFor(w, t)
  BY Decision
<1>2. wk[w].upd \in Updates /\ sent[wk[w].upd] # None /\ sent'[wk[w].upd] = sent[wk[w].upd]
  BY <1>1, StepLasting DEF Lasting, TypeInv, WorkerInv, JobInv
<1>3. CASE KeptTicket(w)
  <2>1. wk[w].isNew /\ wk[w].tkt \in Tickets /\ ticket[wk[w].tkt] # None
    BY <1>3, WorkerTyped DEF KeptTicket, TypeInv, WorkerInv
  <2>2. ticket[wk[w].tkt].customer = sent[wk[w].upd].from
    BY <2>1 DEF CustomerInv
  <2> QED
    BY <1>1, <1>2, <1>3, <2>1, <2>2, StepLasting DEF KeptTicket, Lasting, OwnersKept
<1>4. ASSUME NEW t \in Tickets, AttachedTo(w, t) PROVE FALSE
  BY <1>4 DEF AttachedTo
<1>5. ASSUME NEW t \in Tickets, CreatedFor(w, t)
      PROVE  ticket'[wk'[w].tkt].customer = sent'[wk'[w].upd].from
  <2>1. ticket'[t] = [chat |-> ChatOf(w), customer |-> Message(w).from, status |-> "open",
                      anchor |-> Upd(w)[2], lastClient |-> Upd(w)[2], updatedAt |-> now]
    BY <1>5 DEF CreatedFor, TypeInv, TypeOK
  <2> QED
    BY <1>1, <1>2, <1>5, <2>1 DEF CreatedFor, Message, Upd
<1> QED
  BY <1>1, <1>3, <1>4, <1>5

DeskInv == TypeInv /\ PlaceInv /\ SealInv /\ AckInv /\ MuteInv /\ AccountInv /\ CustomerInv

LEMMA DeskInvariant == Spec => []DeskInv
<1>1. Init => DeskInv
  BY TypeInit, PlaceInit
  DEF Init, DeskInv, SealInv, AckInv, AckOnce, Owes, MuteInv, Classified, AccountInv, Done,
      CompletedIsAccountedFor, CustomerInv, IdleWorker, NoJob, Stored
<1>2. DeskInv /\ [Next]_vars => DeskInv'
  BY TypeStep, PlaceStep, SealStep, AckStep, MuteStep, AccountStep, CustomerStep DEF DeskInv
<1> QED
  BY <1>1, <1>2, PTL DEF Spec

-----------------------------------------------------------------------------
(* What the desk sees, and which steps leave it alone. *)

LEMMA SameMessages ==
  ASSUME UNCHANGED <<sent, outgoing, rowAt>>
  PROVE  UNCHANGED <<Filed, Answers>>
BY DEF Filed, Answers, Stored

LEMMA SameTickets ==
  ASSUME UNCHANGED ticket
  PROVE  UNCHANGED <<Owner, Closed>>
BY DEF Owner, Closed, Live

LEMMA SameAcks ==
  ASSUME UNCHANGED ack
  PROVE  UNCHANGED Acked
BY DEF Acked

LEMMA SameOutsiders ==
  ASSUME UNCHANGED <<byId, byName>>
  PROVE  UNCHANGED Outsiders
BY DEF Outsiders, Excluded

LEMMA OwnerSeen ==
  ASSUME TypeInv, NEW t \in Tickets, ticket[t] # None
  PROVE  Owner[t] # None /\ Owner[t].chat = ticket[t].chat /\ Owner[t].customer = ticket[t].customer
<1>1. Owner[t] = [chat |-> ticket[t].chat, customer |-> ticket[t].customer]
  BY DEF Owner
<1>2. ticket[t].chat \in Chats /\ ticket[t].customer \in Users
  BY DEF TypeInv, TypeOK, TicketRow
<1> QED
  BY <1>1, <1>2, OwnerAssumption

(* Rows may be edited as long as no ticket appears or changes hands. *)
LEMMA SameOwners ==
  ASSUME OwnersKept, \A t \in Tickets : ticket[t] = None => ticket'[t] = None
  PROVE  UNCHANGED Owner
BY DEF OwnersKept, Owner

LEMMA Unseen ==
  ASSUME UNCHANGED <<sent, outgoing, rowAt, ticket, ack, byId, byName, muted, sealed>>
  PROVE  UNCHANGED Promise!vars
BY SameMessages, SameTickets, SameAcks, SameOutsiders DEF Promise!vars

LEMMA Posts ==
  ASSUME DeskInv, NEW u \in Updates, NEW x \in Users, NEW r \in TgIds \union {None}, Send(u, x, r)
  PROVE  Promise!Post(u, x, r)
<1>1. /\ ~Used(u) /\ sent[u] = None
      /\ sent' = [sent EXCEPT ![u] = [from |-> x, replyTo |-> r]]
      /\ muted' = IF Excluded(x) THEN muted \union {u} ELSE muted
      /\ sealed' = sealed \union {<<u, t>> : t \in Closed}
      /\ UNCHANGED <<outgoing, rowAt, ticket, ack, byId, byName>>
  BY DEF Send, NextId, Used, Closed, exclusionVars, tableVars
<1>2. \A t \in Tickets : ~Stored(u, t)
  BY <1>1 DEF DeskInv, PlaceInv
<1>3. \A v \in Updates : v # u => sent'[v] = sent[v]
  BY <1>1 DEF DeskInv, TypeInv, TypeOK
<1>4. UNCHANGED <<Filed, Answers>>
  BY <1>1, <1>2, <1>3 DEF Filed, Answers, Stored
<1> QED
  BY <1>1, <1>4, SameTickets, SameAcks, SameOutsiders DEF Promise!Post, Outsiders

(* A message id that goes to the bot has no row yet. *)
LEMMA BotSendUnseen ==
  ASSUME DeskInv, NEW u \in Updates, NEW t \in Tickets, OutboundSend(t, u)
  PROVE  UNCHANGED Promise!vars
<1>1. /\ ~Used(u) /\ outgoing' = [outgoing EXCEPT ![u] = t]
      /\ UNCHANGED <<sent, rowAt, ticket, ack, byId, byName, muted, sealed>>
  BY DEF OutboundSend, NextId, Used, exclusionVars, tableVars, historyVars
<1>2. \A s \in Tickets : ~Stored(u, s)
  BY <1>1 DEF DeskInv, PlaceInv
<1>3. \A v \in Updates : v # u => outgoing'[v] = outgoing[v]
  BY <1>1 DEF DeskInv, TypeInv, TypeOK
<1>4. UNCHANGED <<Filed, Answers>>
  BY <1>1, <1>2, <1>3 DEF Filed, Answers, Stored
<1> QED
  BY <1>1, <1>4, SameTickets, SameAcks, SameOutsiders DEF Promise!vars

(* The one row a step adds. *)
LEMMA RowAdded ==
  ASSUME DeskInv, NEW u \in Updates, NEW t \in Tickets, rowAt' = [rowAt EXCEPT ![u][t] = now]
  PROVE  \A v \in Updates, s \in Tickets : Stored(v, s)' <=> Stored(v, s) \/ (v = u /\ s = t)
<1>1. rowAt \in [Updates -> [Tickets -> Times \union {None}]] /\ now # None
  BY DEF DeskInv, TypeInv, TypeOK, Times
<1> QED
  BY <1>1 DEF Stored

LEMMA BotRowAnswers ==
  ASSUME DeskInv, NEW u \in Updates, OutboundConfirm(u)
  PROVE  \E t \in Tickets : Promise!Answer(u, t)
<1>1. PICK t \in Tickets : t = outgoing[u]
  BY DEF OutboundConfirm, DeskInv, TypeInv, TypeOK
<1>2. /\ rowAt' = [rowAt EXCEPT ![u][t] = now]
      /\ UNCHANGED <<sent, outgoing, ticket, ack, byId, byName, muted, sealed>>
  BY <1>1 DEF OutboundConfirm, telegramVars, exclusionVars, historyVars
<1>3. ticket[t] # None /\ ticket[t].chat = u[1] /\ sent[u] = None /\ outgoing[u] # None
  BY <1>1 DEF OutboundConfirm, DeskInv, PlaceInv, TypeInv, TicketInv
<1>4. \A v \in Updates, s \in Tickets : Stored(v, s)' <=> Stored(v, s) \/ (v = u /\ s = t)
  BY <1>2, RowAdded
<1>5. UNCHANGED Filed
  BY <1>2, <1>3, <1>4 DEF Filed
<1>6. Answers' = Answers \union {<<u, t>>}
  BY <1>2, <1>3, <1>4 DEF Answers
<1>7. Owner[t] # None /\ Owner[t].chat = u[1]
  BY <1>3, OwnerSeen DEF DeskInv
<1>8. Promise!Answer(u, t)
  BY <1>2, <1>3, <1>5, <1>6, <1>7, SameTickets, SameAcks, SameOutsiders DEF Promise!Answer
<1> QED
  BY <1>8

LEMMA RecordFiles ==
  ASSUME DeskInv, DeskInv', NEW w \in Workers, Record(w)
  PROVE  \/ UNCHANGED Promise!vars
         \/ \E u \in Updates, t \in Tickets : Promise!File(u, t)
<1>1. PICK u \in Updates, t \in Tickets : u = wk[w].upd /\ t = wk[w].tkt
  BY WorkerTyped DEF Record, DeskInv, TypeInv, WorkerInv, HoldsTicket
<1>2. wk[w].pc = "record" /\ sent[u] # None /\ ticket[t] # None
  BY <1>1 DEF Record, DeskInv, TypeInv, WorkerInv, JobInv, HoldsTicket
<1>3. UNCHANGED <<sent, outgoing, ack, byId, byName, muted, sealed>>
  BY DEF Record, telegramVars, exclusionVars, historyVars
<1>4. CASE UNCHANGED <<rowAt, ticket>>
  BY <1>3, <1>4, Unseen
<1>5. CASE ~UNCHANGED <<rowAt, ticket>>
  <2>1. /\ ~Stored(u, t)
        /\ rowAt' = [rowAt EXCEPT ![u][t] = now]
        /\ ticket' = [ticket EXCEPT ![t] = [@ EXCEPT !.lastClient = u[2], !.updatedAt = now]]
    BY <1>1, <1>5 DEF Record, Upd, AlreadyStored, Stored
  <2>2. OwnersKept /\ ticket'[t].status = ticket[t].status
    <3>1. u[2] \in TgIds /\ TypeInv
      BY DEF TgIds, DeskInv
    <3> QED
      BY <1>2, <2>1, <3>1, LastClientEdited
  <2>3. \A s \in Tickets : s # t => ticket'[s] = ticket[s]
    BY <2>1 DEF DeskInv, TypeInv, TypeOK
  <2>4. UNCHANGED <<Owner, Closed>>
    <3>1. UNCHANGED Owner
      BY <1>2, <2>2, <2>3, SameOwners
    <3>2. UNCHANGED Closed
      BY <1>2, <2>2, <2>3 DEF Closed, Live, OwnersKept
    <3> QED
      BY <3>1, <3>2
  <2>5. \A v \in Updates, s \in Tickets : Stored(v, s)' <=> Stored(v, s) \/ (v = u /\ s = t)
    BY <2>1, RowAdded
  <2>6. Filed' = Filed \union {<<u, t>>} /\ UNCHANGED Answers
    <3>1. outgoing[u] = None
      BY <1>2 DEF DeskInv, PlaceInv
    <3> QED
      BY <1>2, <1>3, <2>5, <3>1 DEF Filed, Answers
  <2>7. Promise!FromCustomer(u)
    BY <1>1, <1>2 DEF Promise!FromCustomer, DeskInv, MuteInv, Classified, PCs
  <2>8. Owner[t] # None /\ Owner[t].chat = u[1]
    BY <1>1, <1>2, OwnerSeen DEF DeskInv, PlaceInv
  <2>9. Owner[t].customer = sent[u].from \/ Promise!RepliesInto(u, t)
    <3>1. CASE ticket[t].customer = sent[u].from
      BY <1>2, <3>1, OwnerSeen DEF DeskInv
    <3>2. CASE ticket[t].customer # sent[u].from
      <4>1. PICK v \in Updates : v[2] = sent[u].replyTo /\ Stored(v, t)
        BY <1>1, <1>2, <3>2 DEF DeskInv, PlaceInv, Related
      <4>2. v[1] = u[1] /\ Used(v)
        BY <1>1, <1>2, <4>1 DEF DeskInv, PlaceInv
      <4>3. <<v, t>> \in Filed \union Answers
        BY <4>1, <4>2 DEF Filed, Answers, Used
      <4> QED
        BY <4>1, <4>2, <4>3 DEF Promise!RepliesInto
    <3> QED
      BY <3>1, <3>2
  <2>10. <<u, t>> \notin Filed \union sealed
    BY <1>1, <2>1 DEF Filed, DeskInv, SealInv
  <2>11. Promise!File(u, t)
    BY <1>3, <2>4, <2>6, <2>7, <2>8, <2>9, <2>10, SameAcks, SameOutsiders DEF Promise!File
  <2> QED
    BY <2>11
<1> QED
  BY <1>4, <1>5

LEMMA CreateOpens ==
  ASSUME DeskInv, NEW w \in Workers, Create(w)
  PROVE  \E u \in Updates, t \in Tickets : Promise!Open(t, u)
<1>1. PICK u \in Updates : u = wk[w].upd /\ sent[u] # None
  BY DEF Create, DeskInv, TypeInv, WorkerInv, JobInv
<1>2. PICK t \in Tickets : CreatedFor(w, t)
  BY CreateResult DEF DeskInv
<1> DEFINE row == [chat |-> u[1], customer |-> sent[u].from, status |-> "open",
                   anchor |-> u[2], lastClient |-> u[2], updatedAt |-> now]
<1>3. /\ ticket[t] = None
      /\ ticket' = [ticket EXCEPT ![t] = row]
      /\ UNCHANGED <<sent, outgoing, rowAt, ack, byId, byName, muted, sealed>>
  BY <1>1, <1>2
  DEF CreatedFor, Create, ChatOf, Message, Upd, exclusionVars, historyVars
<1>4. row \in TicketRow
  BY <1>1 DEF DeskInv, TypeInv, TypeOK, TicketRow, Sent, TgIds, Statuses, Reopenable
<1>5. row.chat = u[1] /\ row.customer = sent[u].from /\ row.status = "open"
  OBVIOUS
<1> HIDE DEF row
<1>6. /\ ticket'[t] = row /\ ticket'[t] # None
      /\ \A s \in Tickets : s # t => ticket'[s] = ticket[s]
  BY <1>3, <1>4, RowReplaced DEF DeskInv
<1>7. Owner' = [Owner EXCEPT ![t] = [chat |-> u[1], customer |-> sent[u].from]]
  BY <1>5, <1>6 DEF Owner
<1>8. UNCHANGED Closed
  BY <1>3, <1>5, <1>6 DEF Closed, Live, Terminal
<1>9. Owner[t] = None
  BY <1>3 DEF Owner
<1>10. Promise!FromCustomer(u)
  BY <1>1 DEF Create, Promise!FromCustomer, DeskInv, MuteInv, Classified, PCs
<1>11. Promise!Open(t, u)
  BY <1>3, <1>7, <1>8, <1>9, <1>10, SameMessages, SameAcks, SameOutsiders DEF Promise!Open
<1> QED
  BY <1>11

LEMMA SendAcknowledges ==
  ASSUME DeskInv, NEW w \in Workers, AckEnqueue(w)
  PROVE  \E t \in Tickets : Promise!Acknowledge(t)
<1>1. PICK u \in Updates, t \in Tickets : u = wk[w].upd /\ t = wk[w].tkt
  BY WorkerTyped DEF AckEnqueue, DeskInv, TypeInv, WorkerInv, HoldsTicket
<1>2. /\ ack' = [ack EXCEPT ![t].sends = @ + 1]
      /\ UNCHANGED <<sent, outgoing, rowAt, ticket, byId, byName, muted, sealed>>
  BY <1>1 DEF AckEnqueue, telegramVars, exclusionVars, historyVars
<1>3. /\ wk[w].pc = "ackEnqueue" /\ wk[w].isNew
      /\ sent[u] # None /\ ticket[t] # None
  BY <1>1 DEF AckEnqueue, DeskInv, AckInv, TypeInv, WorkerInv, JobInv, HoldsTicket
<1>4. ack[t].sends = 0
  BY <1>1, <1>3 DEF DeskInv, AckInv, Owes
<1>5. ack \in [Tickets -> [rows : Nat, sends : Nat]]
  BY DEF DeskInv, TypeInv, TypeOK
<1>6. ack'[t].sends = 1 /\ \A s \in Tickets : s # t => ack'[s] = ack[s]
  BY <1>2, <1>4, <1>5
<1>7. Acked[t] = 0 /\ Acked' = [Acked EXCEPT ![t] = 1]
  BY <1>4, <1>6 DEF Acked
<1>8. <<u, t>> \in Filed
  BY <1>1, <1>3 DEF Filed, DeskInv, AccountInv, Done
<1>9. sent[u].from = Owner[t].customer
  BY <1>1, <1>3, OwnerSeen DEF DeskInv, CustomerInv
<1>10. Promise!Acknowledge(t)
  BY <1>2, <1>7, <1>8, <1>9, SameMessages, SameTickets, SameOutsiders DEF Promise!Acknowledge
<1> QED
  BY <1>10

(* A status an agent or a worker sets: the desk sees the ticket close or   *)
(* come back, and late messages are forgotten when it comes back.          *)
LEMMA StatusSeen ==
  ASSUME DeskInv, NEW t \in Tickets, ticket[t] # None, NEW s \in Statuses, NEW for,
         SetStatus(t, s, for), s \notin Terminal => <<for, t>> \notin sealed,
         UNCHANGED <<sent, outgoing, rowAt, ack, byId, byName, muted>>
  PROVE  Promise!Close(t) \/ Promise!Reopen(t)
<1>1. OwnersKept /\ ticket'[t].status = s /\ ticket'[t] # None
  BY StatusEdited DEF DeskInv, OwnersKept
<1>2. \A q \in Tickets : q # t => ticket'[q] = ticket[q]
  BY DEF SetStatus, DeskInv, TypeInv, TypeOK
<1>3. UNCHANGED Owner /\ Owner[t] # None
  BY <1>1, <1>2, SameOwners, OwnerSeen DEF DeskInv
<1>4. CASE s \in Terminal
  <2>1. Closed' = Closed \union {t} /\ UNCHANGED sealed
    BY <1>1, <1>2, <1>4 DEF Closed, Live, SetStatus
  <2> QED
    BY <1>3, <2>1, SameMessages, SameAcks, SameOutsiders DEF Promise!Close
<1>5. CASE s \notin Terminal
  <2>1. Closed' = Closed \ {t}
    BY <1>1, <1>2, <1>5 DEF Closed, Live
  <2>2. sealed \subseteq Updates \X Tickets
    BY DEF DeskInv, TypeInv, TypeOK
  <2>3. sealed' = {p \in sealed : p[2] # t \/ p[1] = for}
    BY <1>5 DEF SetStatus
  <2>4. sealed' = {p \in sealed : p[2] # t}
    BY <1>5, <2>2, <2>3
  <2> QED
    BY <1>3, <2>1, <2>4, SameMessages, SameAcks, SameOutsiders DEF Promise!Reopen
<1> QED
  BY <1>4, <1>5

(* What a step does to the exclusions of one user. *)
LEMMA ExclusionSeen ==
  ASSUME DeskInv, NEW x \in Users,
         \A y \in Users : y # x => Excluded(y)' = Excluded(y),
         muted' = {u \in muted : Excluded(sent[u].from)'},
         UNCHANGED <<sent, outgoing, rowAt, ticket, ack, sealed>>
  PROVE  Promise!Exclude(x) \/ Promise!Readmit(x)
<1>1. \A u \in muted : sent[u].from \in Users /\ Excluded(sent[u].from)
  BY DEF DeskInv, MuteInv, TypeInv, TypeOK, Sent
<1>2. CASE Excluded(x)'
  <2>1. Outsiders' = Outsiders \union {x}
    BY <1>2 DEF Outsiders
  <2>2. muted' = muted
    BY <1>1, <1>2
  <2> QED
    BY <2>1, <2>2, SameMessages, SameTickets, SameAcks DEF Promise!Exclude
<1>3. CASE ~Excluded(x)'
  <2>1. Outsiders' = Outsiders \ {x}
    BY <1>3 DEF Outsiders
  <2>2. muted' = {u \in muted : sent[u].from # x}
    BY <1>1, <1>3
  <2> QED
    BY <2>1, <2>2, SameMessages, SameTickets, SameAcks DEF Promise!Readmit
<1> QED
  BY <1>2, <1>3

-----------------------------------------------------------------------------
(* The steps, actor by actor. *)

LEMMA TelegramSeen ==
  ASSUME DeskInv, Telegram
  PROVE  [Promise!Next]_(Promise!vars)
<1>1. ASSUME NEW u \in Updates, NEW x \in Users, NEW r \in TgIds \union {None}, Send(u, x, r)
      PROVE  Promise!Next
  BY <1>1, Posts DEF Promise!Next, TgIds
<1>2. ASSUME NEW u \in Updates, Redeliver(u) \/ Webhook(u) \/ Evict(u)
      PROVE  UNCHANGED Promise!vars
  BY <1>2, Unseen
  DEF Redeliver, Webhook, Evict, telegramVars, exclusionVars, tableVars, historyVars
<1>3. ASSUME NEW u \in Updates, OutboundConfirm(u) PROVE Promise!Next
  BY <1>3, BotRowAnswers DEF Promise!Next
<1> QED
  BY <1>1, <1>2, <1>3, BotSendUnseen DEF Telegram

LEMMA AdminSeen ==
  ASSUME DeskInv, Admin
  PROVE  Promise!Next
<1> USE DEF telegramVars, tableVars, historyVars
<1>0. /\ byId \in [Users -> {"absent", "active", "inactive"}]
      /\ \A u \in muted : sent[u].from \in Users /\ Excluded(sent[u].from)
  BY DEF DeskInv, MuteInv, TypeInv, TypeOK, Sent
<1>1. ASSUME NEW x \in Users, ExcludeById(x) \/ ExcludeByName(x)
      PROVE  Promise!Exclude(x) \/ Promise!Readmit(x)
  <2>1. /\ \A y \in Users : y # x => Excluded(y)' = Excluded(y)
        /\ \A y \in Users : Excluded(y) => Excluded(y)'
        /\ UNCHANGED <<muted, sent, outgoing, rowAt, ticket, ack, sealed>>
    BY <1>0, <1>1 DEF ExcludeById, ExcludeByName, Excluded
  <2>2. muted' = {u \in muted : Excluded(sent[u].from)'}
    BY <1>0, <2>1
  <2> QED
    BY <2>1, <2>2, ExclusionSeen
<1>2. ASSUME NEW x \in Users,
             RemoveById(x) \/ RemoveByName(x) \/ \E s \in {"active", "inactive"} : SetActive(x, s)
      PROVE  Promise!Exclude(x) \/ Promise!Readmit(x)
  <2>1. /\ \A y \in Users : y # x => Excluded(y)' = Excluded(y)
        /\ muted' = StillMuted(byId', byName')
        /\ UNCHANGED <<sent, outgoing, rowAt, ticket, ack, sealed>>
    BY <1>0, <1>2 DEF RemoveById, RemoveByName, SetActive, StillMuted, Excluded
  <2>2. muted' = {u \in muted : Excluded(sent[u].from)'}
    BY <2>1 DEF StillMuted, Excluded
  <2> QED
    BY <2>1, <2>2, ExclusionSeen
<1> QED
  BY <1>1, <1>2 DEF Admin, Promise!Next

LEMMA AgentSeen ==
  ASSUME DeskInv, Agent
  PROVE  [Promise!Next]_(Promise!vars)
<1> USE DEF telegramVars, exclusionVars
<1>1. ASSUME NEW t \in Tickets, NEW s \in PatchStatuses, AgentPatch(t, s)
      PROVE  Promise!Close(t) \/ Promise!Reopen(t)
  <2>1. <<None, t>> \notin sealed /\ s \in Statuses
    BY DEF DeskInv, TypeInv, TypeOK
  <2> QED
    BY <1>1, <2>1, StatusSeen DEF AgentPatch
<1>2. ASSUME NEW t \in Tickets, MarkClose(t)
      PROVE  Promise!Close(t) \/ Promise!Reopen(t)
  <2>1. "closed" \in Statuses /\ "closed" \in Terminal /\ ticket[t] # None
    BY <1>2 DEF MarkClose, DeskInv, TypeInv, TicketInv, Statuses, Terminal
  <2> QED
    BY <1>2, <2>1, StatusSeen DEF MarkClose
<1>3. ASSUME NEW t \in Tickets, AgentTouch(t)
      PROVE  UNCHANGED Promise!vars
  <2>1. OwnersKept /\ ticket'[t].status = ticket[t].status /\ ticket[t] # None
    BY <1>3, TimeEdited DEF AgentTouch, DeskInv
  <2>2. \A s \in Tickets : s # t => ticket'[s] = ticket[s]
    BY <1>3 DEF AgentTouch, DeskInv, TypeInv, TypeOK
  <2>3. UNCHANGED Owner
    BY <2>1, <2>2, SameOwners
  <2>4. UNCHANGED Closed
    BY <2>1, <2>2 DEF Closed, Live, OwnersKept
  <2> QED
    BY <1>3, <2>3, <2>4, SameMessages, SameAcks, SameOutsiders
    DEF AgentTouch, historyVars, Promise!vars
<1>4. ASSUME NEW t \in Tickets, MarkExclude(t)
      PROVE  \E x \in Users : Promise!Exclude(x) \/ Promise!Readmit(x)
  <2>1. PICK x \in Users : x = ticket[t].customer
    BY <1>4 DEF MarkExclude, DeskInv, TypeInv, TypeOK, TicketRow
  <2>2. byId \in [Users -> {"absent", "active", "inactive"}]
    BY DEF DeskInv, TypeInv, TypeOK
  <2>3. /\ \A y \in Users : y # x => Excluded(y)' = Excluded(y)
        /\ \A y \in Users : Excluded(y) => Excluded(y)'
        /\ UNCHANGED <<muted, sent, outgoing, rowAt, ticket, ack, sealed>>
    BY <1>4, <2>1, <2>2 DEF MarkExclude, Excluded, tableVars, historyVars
  <2>4. \A u \in muted : sent[u].from \in Users /\ Excluded(sent[u].from)
    BY DEF DeskInv, MuteInv, TypeInv, TypeOK, Sent
  <2>5. muted' = {u \in muted : Excluded(sent[u].from)'}
    BY <2>3, <2>4
  <2> QED
    BY <2>3, <2>5, ExclusionSeen
<1>5. ASSUME NEW t \in Tickets, MarkAbort(t)
      PROVE  UNCHANGED Promise!vars
  BY <1>5, Unseen DEF MarkAbort, tableVars, historyVars
<1> QED
  BY <1>1, <1>2, <1>3, <1>4, <1>5 DEF Agent, Promise!Next

LEMMA WorkerSeen ==
  ASSUME DeskInv, DeskInv', Worker
  PROVE  [Promise!Next]_(Promise!vars)
<1> USE DEF telegramVars, exclusionVars, tableVars, historyVars
<1>1. ASSUME NEW w \in Workers, Classify(w)
      PROVE  UNCHANGED Promise!vars
  <2>1. byId \in [Users -> {"absent", "active", "inactive"}]
    BY DEF DeskInv, TypeInv, TypeOK
  <2>2. \A y \in Users : Excluded(y)' = Excluded(y)
    BY <1>1, <2>1 DEF Classify, Excluded
  <2>3. UNCHANGED Outsiders
    BY <2>2 DEF Outsiders
  <2> QED
    BY <1>1, <2>3, SameMessages, SameTickets, SameAcks DEF Classify, Promise!vars
<1>2. ASSUME NEW w \in Workers,
             \/ FindChat(w) \/ CreateChat(w) \/ FindCustomer(w) \/ CreateCustomer(w)
             \/ Rule1(w) \/ Rule2(w) \/ AckHiccup(w) \/ Finish(w) \/ StepFails(w) \/ Crash(w)
             \/ \E u \in Updates : Take(w, u)
      PROVE  UNCHANGED Promise!vars
  BY <1>2, Unseen
  DEF FindChat, CreateChat, FindCustomer, CreateCustomer, Rule1, Rule2, AckHiccup, Finish,
      StepFails, Crash, Take
<1>3. ASSUME NEW w \in Workers, Revive(w)
      PROVE  Promise!Next
  <2>1. PICK u \in Updates, t \in Tickets : u = wk[w].upd /\ t = wk[w].tkt
    BY <1>3, WorkerTyped DEF Revive, DeskInv, TypeInv, WorkerInv, HoldsTicket
  <2>2. ticket[t] # None /\ <<u, t>> \notin sealed
    BY <1>3, <2>1 DEF Revive, DeskInv, SealInv, TypeInv, WorkerInv, HoldsTicket
  <2>3. "open" \in Statuses
    BY DEF Statuses, Reopenable
  <2>4. Promise!Close(t) \/ Promise!Reopen(t)
    BY <1>3, <2>1, <2>2, <2>3, StatusSeen DEF Revive
  <2> QED
    BY <2>4 DEF Promise!Next
<1>4. ASSUME NEW w \in Workers, Create(w)
      PROVE  Promise!Next
  BY <1>4, CreateOpens DEF Promise!Next
<1>5. ASSUME NEW w \in Workers, Record(w)
      PROVE  [Promise!Next]_(Promise!vars)
  BY <1>5, RecordFiles DEF Promise!Next
<1>6. ASSUME NEW w \in Workers, AckRow(w)
      PROVE  UNCHANGED Promise!vars
  <2>1. ack \in [Tickets -> [rows : Nat, sends : Nat]] /\ wk[w].tkt \in Tickets
    BY <1>6, WorkerTyped DEF AckRow, DeskInv, TypeInv, TypeOK, WorkerInv, HoldsTicket
  <2>2. ack' = [ack EXCEPT ![wk[w].tkt].rows = @ + 1]
    BY <1>6 DEF AckRow
  <2>3. \A t \in Tickets : ack'[t].sends = ack[t].sends
    BY <2>1, <2>2
  <2>4. UNCHANGED Acked
    BY <2>3 DEF Acked
  <2> QED
    BY <1>6, <2>4, SameMessages, SameTickets, SameOutsiders DEF AckRow, Promise!vars
<1>7. ASSUME NEW w \in Workers, AckEnqueue(w)
      PROVE  Promise!Next
  BY <1>7, SendAcknowledges DEF Promise!Next
<1> QED
  BY <1>1, <1>2, <1>3, <1>4, <1>5, <1>6, <1>7 DEF Worker, Step

(* The pipeline implements the desk's specification: for any number of     *)
(* workers, chats, users, attempts, stalls and redeliveries, and wherever  *)
(* a call fails or a worker dies, no step is seen by the desk as anything  *)
(* but one kept promise.                                                   *)
THEOREM IngestKeepsPromises == Spec => KeepsPromises
<1>1. Init => Promise!Init
  BY DEF Init, Promise!Init, Filed, Answers, Owner, Closed, Acked, Outsiders, Excluded
<1>2. DeskInv /\ DeskInv' /\ [Next]_vars => [Promise!Next]_(Promise!vars)
  <2> SUFFICES ASSUME DeskInv, DeskInv', [Next]_vars PROVE [Promise!Next]_(Promise!vars)
    OBVIOUS
  <2>1. CASE Tick \/ UNCHANGED vars
    BY <2>1, Unseen DEF Tick, vars, telegramVars, exclusionVars, tableVars, historyVars
  <2> QED
    BY <2>1, TelegramSeen, AdminSeen, AgentSeen, WorkerSeen DEF Next
<1> QED
  BY <1>1, <1>2, DeskInvariant, PTL DEF Spec, KeepsPromises, Promise!Spec
=============================================================================
