---------------------------- MODULE IngestSafety ----------------------------
(***************************************************************************)
(* Proofs of the safety properties of Ingest.  Each rests on TypeInv, the  *)
(* invariant behind TypeCorrect, and on an inductive strengthening stated  *)
(* before its theorem.                                                     *)
(***************************************************************************)
EXTENDS IngestProofs

USE ConstantsAssumption, NoneAssumption

-----------------------------------------------------------------------------
(* What every step leaves alone. *)

OwnersKept ==
  \A t \in Tickets : ticket[t] # None =>
    /\ ticket'[t] # None
    /\ ticket'[t].chat = ticket[t].chat
    /\ ticket'[t].customer = ticket[t].customer

(* Tickets are never deleted and never change chat or customer; a posted   *)
(* message is never altered; a stored message row stays.                   *)
Lasting ==
  /\ OwnersKept
  /\ \A u \in Updates : sent[u] # None => sent'[u] = sent[u]
  /\ \A u \in Updates, t \in Tickets : Stored(u, t) => Stored(u, t)'

LEMMA StatusEdited ==
  ASSUME TypeInv, NEW t \in Tickets, ticket[t] # None, NEW s \in Statuses,
         NEW for, SetStatus(t, s, for)
  PROVE  OwnersKept /\ ticket'[t].status = s
<1> DEFINE r == [ticket[t] EXCEPT !.status = s, !.updatedAt = now]
<1>1. ticket[t] \in TicketRow /\ now \in Times
  BY DEF TypeInv, TypeOK
<1>2. /\ r \in TicketRow /\ r.status = s
      /\ r.chat = ticket[t].chat /\ r.customer = ticket[t].customer
  BY <1>1 DEF TicketRow
<1>3. ticket' = [ticket EXCEPT ![t] = r]
  BY DEF SetStatus
<1> HIDE DEF r
<1> QED
  BY <1>2, <1>3, RowReplaced DEF OwnersKept

LEMMA TimeEdited ==
  ASSUME TypeInv, NEW t \in Tickets, ticket[t] # None,
         ticket' = [ticket EXCEPT ![t] = [@ EXCEPT !.updatedAt = now]]
  PROVE  OwnersKept /\ ticket'[t].status = ticket[t].status
<1> DEFINE r == [ticket[t] EXCEPT !.updatedAt = now]
<1>1. ticket[t] \in TicketRow /\ now \in Times
  BY DEF TypeInv, TypeOK
<1>2. /\ r \in TicketRow /\ r.status = ticket[t].status
      /\ r.chat = ticket[t].chat /\ r.customer = ticket[t].customer
  BY <1>1 DEF TicketRow
<1>3. ticket' = [ticket EXCEPT ![t] = r]
  OBVIOUS
<1> HIDE DEF r
<1> QED
  BY <1>2, <1>3, RowReplaced DEF OwnersKept

LEMMA LastClientEdited ==
  ASSUME TypeInv, NEW t \in Tickets, ticket[t] # None, NEW g \in TgIds,
         ticket' = [ticket EXCEPT ![t] = [@ EXCEPT !.lastClient = g, !.updatedAt = now]]
  PROVE  OwnersKept /\ ticket'[t].status = ticket[t].status
<1> DEFINE r == [ticket[t] EXCEPT !.lastClient = g, !.updatedAt = now]
<1>1. ticket[t] \in TicketRow /\ now \in Times
  BY DEF TypeInv, TypeOK
<1>2. /\ r \in TicketRow /\ r.status = ticket[t].status
      /\ r.chat = ticket[t].chat /\ r.customer = ticket[t].customer
  BY <1>1 DEF TicketRow
<1>3. ticket' = [ticket EXCEPT ![t] = r]
  OBVIOUS
<1> HIDE DEF r
<1> QED
  BY <1>2, <1>3, RowReplaced DEF OwnersKept

LEMMA StepLasting == TypeInv /\ [Next]_vars => Lasting
<1> SUFFICES ASSUME TypeInv, [Next]_vars PROVE Lasting
  OBVIOUS
<1> USE DEF telegramVars, exclusionVars, tableVars, historyVars, Stored
<1>0. UNCHANGED <<ticket, sent, rowAt>> => Lasting
  BY DEF Lasting, OwnersKept
<1>1. ASSUME NEW u \in Updates, NEW x \in Users, NEW r \in TgIds \union {None}, Send(u, x, r)
      PROVE  Lasting
  BY <1>1 DEF Send, NextId, Used, Lasting, OwnersKept, TypeInv, TypeOK
<1>2. ASSUME NEW u \in Updates, OutboundConfirm(u) PROVE Lasting
  <2>1. outgoing[u] \in Tickets /\ now # None
    BY <1>2 DEF OutboundConfirm, TypeInv, TypeOK, Times
  <2>2. \A v \in Updates, t \in Tickets : rowAt[v][t] # None => rowAt'[v][t] # None
    BY <1>2, <2>1 DEF OutboundConfirm, TypeInv, TypeOK
  <2> QED
    BY <1>2, <2>2 DEF OutboundConfirm, Lasting, OwnersKept
<1>3. ASSUME NEW t \in Tickets, NEW s \in PatchStatuses, AgentPatch(t, s) PROVE Lasting
  BY <1>3, StatusEdited DEF AgentPatch, Lasting
<1>4. ASSUME NEW t \in Tickets, AgentTouch(t) PROVE Lasting
  BY <1>4, TimeEdited DEF AgentTouch, Lasting
<1>5. ASSUME NEW t \in Tickets, MarkClose(t) PROVE Lasting
  BY <1>5, StatusEdited DEF MarkClose, Lasting, TypeInv, TicketInv, Statuses, Terminal
<1>6. ASSUME NEW w \in Workers, Revive(w) PROVE Lasting
  <2>1. wk[w].tkt \in Tickets /\ ticket[wk[w].tkt] # None /\ "open" \in Statuses
    BY <1>6, WorkerTyped DEF Revive, TypeInv, WorkerInv, HoldsTicket, Statuses, Reopenable
  <2> QED
    BY <1>6, <2>1, StatusEdited DEF Revive, Lasting
<1>7. ASSUME NEW w \in Workers, Create(w) PROVE Lasting
  BY <1>7 DEF Create, Lasting, OwnersKept, TypeInv, TypeOK
<1>8. ASSUME NEW w \in Workers, Record(w) PROVE Lasting
  <2>1. /\ wk[w].tkt \in Tickets /\ ticket[wk[w].tkt] # None
        /\ Upd(w) \in Updates /\ Upd(w)[2] \in TgIds
    BY <1>8, WorkerTyped DEF Record, TypeInv, WorkerInv, HoldsTicket, Upd, TgIds
  <2>2. \A v \in Updates, t \in Tickets : rowAt[v][t] # None => rowAt'[v][t] # None
    <3>1. now # None
      BY DEF TypeInv, TypeOK, Times
    <3>2. UNCHANGED rowAt \/ rowAt' = [rowAt EXCEPT ![Upd(w)][wk[w].tkt] = now]
      BY <1>8 DEF Record
    <3>3. rowAt \in [Updates -> [Tickets -> Times \union {None}]]
      BY DEF TypeInv, TypeOK
    <3> QED
      BY <2>1, <3>1, <3>2, <3>3
  <2>3. CASE UNCHANGED ticket
    BY <1>8, <2>2, <2>3 DEF Record, Lasting, OwnersKept
  <2>4. CASE ~UNCHANGED ticket
    <3>1. OwnersKept
      BY <1>8, <2>1, <2>4, LastClientEdited DEF Record
    <3> QED
      BY <1>8, <2>2, <3>1 DEF Record, Lasting
  <2> QED
    BY <2>3, <2>4
<1> QED
  <2>1. ASSUME Telegram PROVE Lasting
    BY <2>1, <1>0, <1>1, <1>2 DEF Telegram, Redeliver, Webhook, Evict, OutboundSend
  <2>2. ASSUME Admin PROVE Lasting
    BY <2>2, <1>0 DEF Admin, ExcludeById, ExcludeByName, SetActive, RemoveById, RemoveByName
  <2>3. ASSUME Agent PROVE Lasting
    BY <2>3, <1>0, <1>3, <1>4, <1>5 DEF Agent, MarkExclude, MarkAbort
  <2>4. ASSUME NEW w \in Workers, Step(w) PROVE Lasting
    BY <2>4, <1>0, <1>6, <1>7, <1>8
    DEF Step, Classify, FindChat, CreateChat, FindCustomer, CreateCustomer, Rule1, Rule2,
        AckRow, AckEnqueue, Finish
  <2>5. ASSUME Worker PROVE Lasting
    BY <2>5, <2>4, <1>0 DEF Worker, Take, AckHiccup, StepFails, Crash
  <2> QED
    BY <1>0, <2>1, <2>2, <2>3, <2>5 DEF Next, Tick, vars

(* Only the worker that steps changes, and it keeps its message unless it  *)
(* takes a new one or becomes idle.                                        *)
WorkerKept(w) == UNCHANGED wk[w] \/ wk'[w] = IdleWorker

LEMMA WorkerCases ==
  ASSUME TypeInv, [Next]_vars, NEW w \in Workers
  PROVE  WorkerKept(w) \/ Step(w) \/ AckHiccup(w) \/ \E u \in Updates : Take(w, u)
<1> USE DEF telegramVars, exclusionVars, tableVars, historyVars, WorkerKept
<1>0. wk \in [Workers -> WorkerState]
  BY DEF TypeInv, TypeOK
<1>1. ASSUME Telegram \/ Admin \/ Agent \/ Tick \/ UNCHANGED vars PROVE UNCHANGED wk[w]
  BY <1>1
  DEF vars, Tick, Telegram, Admin, Agent, Send, Redeliver, Webhook, Evict, OutboundSend, OutboundConfirm,
      ExcludeById, ExcludeByName, SetActive, RemoveById, RemoveByName, AgentPatch, AgentTouch,
      MarkExclude, MarkClose, MarkAbort
<1>2. ASSUME NEW v \in Workers, v # w, NEW r, wk' = [wk EXCEPT ![v] = r] PROVE UNCHANGED wk[w]
  BY <1>0, <1>2
<1>3. ASSUME NEW v \in Workers, v # w,
             Step(v) \/ AckHiccup(v) \/ StepFails(v) \/ Crash(v) \/ \E u \in Updates : Take(v, u)
      PROVE  UNCHANGED wk[w]
  <2>1. \E r : wk' = [wk EXCEPT ![v] = r]
    BY <1>3
    DEF Step, AckHiccup, StepFails, Crash, Take, Classify, FindChat, CreateChat, FindCustomer,
        CreateCustomer, Rule1, Rule2, Revive, Create, Record, AckRow, AckEnqueue, Finish, Goto,
        Throw, StartGrouping
  <2> QED
    BY <1>3, <2>1, <1>2
<1>4. ASSUME StepFails(w) \/ Crash(w) PROVE wk'[w] = IdleWorker
  BY <1>0, <1>4 DEF StepFails, Crash, Throw
<1> QED
  BY <1>1, <1>3, <1>4 DEF Next, Worker

(* How a worker comes by the ticket it works on. *)
KeptTicket(w) ==
  /\ wk'[w].tkt = wk[w].tkt
  /\ wk'[w].isNew = wk[w].isNew

AttachedTo(w, t) ==
  /\ wk'[w].tkt = t /\ wk'[w].isNew = FALSE
  /\ wk'[w].pc \in {"revive", "record"}
  /\ Live(t) /\ ticket[t].chat = ChatOf(w)
  /\ \/ ticket[t].customer = Message(w).from
     \/ \E v \in Updates : v[2] = Message(w).replyTo /\ Stored(v, t)
  /\ UNCHANGED <<ticket, sent, rowAt, ack, sealed, outgoing>>

CreatedFor(w, t) ==
  /\ wk'[w].tkt = t /\ wk'[w].isNew = TRUE /\ wk'[w].pc = "record"
  /\ ticket[t] = None
  /\ ticket' = [ticket EXCEPT ![t] =
       [chat |-> ChatOf(w), customer |-> Message(w).from, status |-> "open",
        anchor |-> Upd(w)[2], lastClient |-> Upd(w)[2], updatedAt |-> now]]
  /\ UNCHANGED <<sent, rowAt, ack, sealed, outgoing>>

LEMMA AttachResult ==
  ASSUME TypeInv, NEW w \in Workers, NEW t \in Tickets, wk' = [wk EXCEPT ![w] = Attach(w, t)]
  PROVE  /\ wk'[w].upd = wk[w].upd /\ wk'[w].tkt = t /\ wk'[w].isNew = FALSE
         /\ wk'[w].pc \in {"revive", "record"}
<1>1. wk \in [Workers -> WorkerState] /\ wk[w] \in WorkerState
  BY DEF TypeInv, TypeOK
<1>2. wk'[w] = Attach(w, t)
  BY <1>1
<1> QED
  BY <1>1, <1>2 DEF Attach, WorkerState

LEMMA GotoResult ==
  ASSUME TypeInv, NEW w \in Workers, NEW pc, Goto(w, pc)
  PROVE  /\ wk'[w].pc = pc /\ wk'[w].upd = wk[w].upd
         /\ wk'[w].tkt = wk[w].tkt /\ wk'[w].isNew = wk[w].isNew
<1>1. wk \in [Workers -> WorkerState] /\ wk[w] \in WorkerState
  BY DEF TypeInv, TypeOK
<1>2. wk'[w] = [wk[w] EXCEPT !.pc = pc]
  BY <1>1 DEF Goto
<1> QED
  BY <1>1, <1>2 DEF WorkerState

LEMMA GroupResult ==
  ASSUME TypeInv, NEW w \in Workers, StartGrouping(w)
  PROVE  /\ wk'[w].pc \in {"rule1", "rule2"} /\ wk'[w].upd = wk[w].upd
         /\ wk'[w].tkt = wk[w].tkt /\ wk'[w].isNew = wk[w].isNew
<1>1. wk \in [Workers -> WorkerState] /\ wk[w] \in WorkerState
  BY DEF TypeInv, TypeOK
<1>2. wk'[w] = [wk[w] EXCEPT !.pc = IF Message(w).replyTo = None THEN "rule2" ELSE "rule1", !.at = now]
  BY <1>1 DEF StartGrouping
<1> QED
  BY <1>1, <1>2 DEF WorkerState

LEMMA IdleResult ==
  ASSUME TypeInv, NEW w \in Workers, wk' = [wk EXCEPT ![w] = IdleWorker]
  PROVE  wk'[w].pc = "idle" /\ wk'[w].tkt = None
<1>1. wk \in [Workers -> WorkerState]
  BY DEF TypeInv, TypeOK
<1>2. wk'[w] = IdleWorker
  BY <1>1
<1> QED
  BY <1>2, IdleTyped

LEMMA Rule1Result ==
  ASSUME TypeInv, NEW w \in Workers, Rule1(w)
  PROVE  \/ Goto(w, "rule2")
         \/ \E t \in Tickets : AttachedTo(w, t) /\ wk'[w].upd = wk[w].upd
<1> DEFINE found == FindTicketByAnchorMessage(ticket, rowAt, ChatOf(w), Message(w).replyTo)
<1>1. DOMAIN ticket = Tickets /\ DOMAIN rowAt = Updates
  BY DEF TypeInv, TypeOK
<1>2. UNCHANGED <<ticket, sent, rowAt, ack, sealed, outgoing>>
  BY DEF Rule1, tableVars, telegramVars, historyVars
<1>3. ASSUME NEW t \in found, AnchorMatches(ticket[t].status),
             wk' = [wk EXCEPT ![w] = Attach(w, t)]
      PROVE  \E q \in Tickets : AttachedTo(w, q) /\ wk'[w].upd = wk[w].upd
  <2>1. /\ t \in Tickets /\ ticket[t] # None /\ ticket[t].chat = ChatOf(w)
        /\ \E v \in Updates : v[2] = Message(w).replyTo /\ Stored(v, t)
    BY <1>1, <1>3, AnchorFound DEF Stored
  <2>2. Live(t)
    BY <1>3, <2>1 DEF AnchorMatches, Live
  <2> QED
    BY <1>2, <1>3, <2>1, <2>2, AttachResult DEF AttachedTo
<1>4. ASSUME NEW t \in found, ~AnchorMatches(ticket[t].status),
             wk' = [wk EXCEPT ![w] = [@ EXCEPT !.pc = "rule2"]]
      PROVE  Goto(w, "rule2")
  BY <1>4 DEF Goto
<1> QED
  BY <1>3, <1>4 DEF Rule1

LEMMA Rule2Result ==
  ASSUME TypeInv, NEW w \in Workers, Rule2(w)
  PROVE  \/ /\ wk'[w].pc = "create" /\ wk'[w].upd = wk[w].upd /\ KeptTicket(w)
            /\ UNCHANGED <<ticket, sent, rowAt, ack, sealed, outgoing>>
         \/ \E t \in Tickets : AttachedTo(w, t) /\ wk'[w].upd = wk[w].upd
<1> DEFINE found == FindMostRecentActiveTicket(ticket, ChatOf(w), Message(w).from)
           n == [wk[w] EXCEPT !.pc = "create", !.at = 0]
<1>1. DOMAIN ticket = Tickets
  BY DEF TypeInv, TypeOK
<1>2. UNCHANGED <<ticket, sent, rowAt, ack, sealed, outgoing>>
  BY DEF Rule2, tableVars, telegramVars, historyVars
<1>3. ASSUME NEW t \in found, wk' = [wk EXCEPT ![w] = Attach(w, t)]
      PROVE  \E q \in Tickets : AttachedTo(w, q) /\ wk'[w].upd = wk[w].upd
  <2>1. /\ t \in Tickets /\ ticket[t] # None /\ ticket[t].chat = ChatOf(w)
        /\ ticket[t].customer = Message(w).from /\ Live(t)
    BY <1>1, <1>3, ActiveFound DEF Live
  <2> QED
    BY <1>2, <1>3, <2>1, AttachResult DEF AttachedTo
<1>4. ASSUME wk' = [wk EXCEPT ![w] = n]
      PROVE  wk'[w].pc = "create" /\ wk'[w].upd = wk[w].upd /\ KeptTicket(w)
  <2>1. wk \in [Workers -> WorkerState] /\ wk[w] \in WorkerState
    BY DEF TypeInv, TypeOK
  <2>2. wk'[w] = n
    BY <1>4, <2>1
  <2> QED
    BY <2>1, <2>2 DEF WorkerState, KeptTicket
<1> QED
  BY <1>2, <1>3, <1>4 DEF Rule2

LEMMA CreateResult ==
  ASSUME TypeInv, NEW w \in Workers, Create(w)
  PROVE  \E t \in Tickets : CreatedFor(w, t) /\ wk'[w].upd = wk[w].upd
<1>1. wk \in [Workers -> WorkerState] /\ wk[w] \in WorkerState
  BY DEF TypeInv, TypeOK
<1>2. PICK t \in Tickets :
        /\ ticket[t] = None
        /\ ticket' = [ticket EXCEPT ![t] =
            [chat |-> ChatOf(w), customer |-> Message(w).from, status |-> "open",
             anchor |-> Upd(w)[2], lastClient |-> Upd(w)[2], updatedAt |-> now]]
        /\ wk' = [wk EXCEPT ![w] = [@ EXCEPT !.pc = "record", !.tkt = t, !.isNew = TRUE]]
  BY DEF Create
<1>3. wk'[w] = [wk[w] EXCEPT !.pc = "record", !.tkt = t, !.isNew = TRUE]
  BY <1>1, <1>2
<1>4. wk'[w].pc = "record" /\ wk'[w].tkt = t /\ wk'[w].isNew = TRUE /\ wk'[w].upd = wk[w].upd
  BY <1>1, <1>3 DEF WorkerState
<1>5. UNCHANGED <<sent, rowAt, ack, sealed, outgoing>>
  BY DEF Create, telegramVars, historyVars
<1> QED
  BY <1>2, <1>4, <1>5 DEF CreatedFor

LEMMA Decision ==
  ASSUME TypeInv, [Next]_vars, NEW w \in Workers, wk'[w].tkt # None
  PROVE  /\ wk[w].pc # "idle" /\ wk'[w].upd = wk[w].upd
         /\ \/ KeptTicket(w)
            \/ \E t \in Tickets : AttachedTo(w, t)
            \/ \E t \in Tickets : CreatedFor(w, t)
<1>1. CASE WorkerKept(w)
  BY <1>1, IdleTyped DEF WorkerKept, KeptTicket, TypeInv, WorkerInv, Undecided
<1>2. CASE \E u \in Updates : Take(w, u)
  <2>1. wk'[w].tkt = None
    BY <1>2, IdleTyped DEF Take, TypeInv, TypeOK, WorkerState
  <2> QED
    BY <2>1
<1>3. CASE AckHiccup(w)
  BY <1>3, GotoResult DEF AckHiccup, KeptTicket
<1>4. CASE Step(w)
  <2>1. CASE Rule1(w)
    BY <2>1, Rule1Result, GotoResult DEF Rule1, KeptTicket
  <2>2. CASE Rule2(w)
    BY <2>2, Rule2Result DEF Rule2
  <2>3. CASE Create(w)
    BY <2>3, CreateResult DEF Create
  <2>4. CASE Finish(w)
    BY <2>4, IdleResult DEF Finish
  <2>5. CASE Classify(w)
    BY <2>5, GotoResult, IdleResult DEF Classify, KeptTicket, Throw
  <2>6. CASE FindChat(w) \/ CreateChat(w)
    BY <2>6, GotoResult, IdleResult DEF FindChat, CreateChat, KeptTicket, Throw
  <2>7. CASE FindCustomer(w) \/ CreateCustomer(w)
    BY <2>7, GotoResult, GroupResult, IdleResult DEF FindCustomer, CreateCustomer, KeptTicket, Throw
  <2>8. CASE Revive(w) \/ Record(w) \/ AckRow(w) \/ AckEnqueue(w)
    BY <2>8, GotoResult DEF Revive, Record, AckRow, AckEnqueue, KeptTicket
  <2> QED
    BY <1>4, <2>1, <2>2, <2>3, <2>4, <2>5, <2>6, <2>7, <2>8 DEF Step
<1> QED
  BY <1>1, <1>2, <1>3, <1>4, WorkerCases

-----------------------------------------------------------------------------
(* Where a message can be stored: in a ticket of its chat, its customer's  *)
(* unless it is a reply.                                                   *)

Related(u, t) ==
  \/ ticket[t].customer = sent[u].from
  \/ \E v \in Updates : v[2] = sent[u].replyTo /\ Stored(v, t)

PlaceInv ==
  /\ \A u \in Updates, t \in Tickets : Stored(u, t) =>
       /\ Used(u) /\ ticket[t] # None /\ ticket[t].chat = u[1]
       /\ sent[u] # None => Related(u, t)
  /\ \A u \in Updates : outgoing[u] # None => sent[u] = None /\ ticket[outgoing[u]].chat = u[1]
  /\ \A w \in Workers : wk[w].tkt # None =>
       /\ ticket[wk[w].tkt].chat = wk[w].upd[1]
       /\ Related(wk[w].upd, wk[w].tkt)

LEMMA RelatedLasts ==
  ASSUME Lasting, NEW u \in Updates, NEW t \in Tickets,
         sent[u] # None, ticket[t] # None, Related(u, t)
  PROVE  Related(u, t)'
<1>1. sent'[u] = sent[u] /\ ticket'[t].customer = ticket[t].customer
  BY DEF Lasting, OwnersKept
<1>2. \A v \in Updates : Stored(v, t) => Stored(v, t)'
  BY DEF Lasting
<1> QED
  BY <1>1, <1>2 DEF Related

(* A message row is written by a worker, or confirms a bot message. *)
LEMMA NewRow ==
  ASSUME TypeInv, [Next]_vars, NEW u \in Updates, NEW t \in Tickets, Stored(u, t)', ~Stored(u, t)
  PROVE  /\ UNCHANGED <<sent, outgoing, muted, sealed>>
         /\ \/ outgoing[u] = t
            \/ \E w \in Workers :
                 /\ Record(w) /\ wk[w].pc = "record" /\ wk[w].upd = u /\ wk[w].tkt = t
<1> USE DEF telegramVars, exclusionVars, tableVars, historyVars, Stored
<1>1. ~UNCHANGED rowAt /\ rowAt \in [Updates -> [Tickets -> Times \union {None}]]
  BY DEF TypeInv, TypeOK
<1>2. \/ \E v \in Updates : OutboundConfirm(v)
      \/ \E w \in Workers : Record(w)
  <2>1. ~UNCHANGED vars /\ ~Tick /\ ~Admin /\ ~Agent
    BY <1>1
    DEF vars, Tick, Admin, Agent, ExcludeById, ExcludeByName, SetActive, RemoveById, RemoveByName,
        AgentPatch, AgentTouch, MarkExclude, MarkClose, MarkAbort
  <2>2. ASSUME Telegram PROVE \E v \in Updates : OutboundConfirm(v)
    BY <1>1, <2>2 DEF Telegram, Send, Redeliver, Webhook, Evict, OutboundSend
  <2>3. ASSUME NEW w \in Workers, Step(w) PROVE Record(w)
    BY <1>1, <2>3
    DEF Step, Classify, FindChat, CreateChat, FindCustomer, CreateCustomer, Rule1, Rule2, Revive,
        Create, AckRow, AckEnqueue, Finish
  <2>4. ASSUME Worker PROVE \E w \in Workers : Record(w)
    BY <1>1, <2>3, <2>4 DEF Worker, Take, AckHiccup, StepFails, Crash
  <2> QED
    BY <2>1, <2>2, <2>4 DEF Next
<1>3. ASSUME NEW v \in Updates, OutboundConfirm(v)
      PROVE  outgoing[u] = t /\ UNCHANGED <<sent, outgoing, muted, sealed>>
  <2>1. outgoing[v] \in Tickets /\ rowAt' = [rowAt EXCEPT ![v][outgoing[v]] = now]
    BY <1>3 DEF OutboundConfirm, TypeInv, TypeOK
  <2> QED
    BY <1>1, <1>3, <2>1 DEF OutboundConfirm
<1>4. ASSUME NEW w \in Workers, Record(w)
      PROVE  /\ wk[w].pc = "record" /\ wk[w].upd = u /\ wk[w].tkt = t
             /\ UNCHANGED <<sent, outgoing, muted, sealed>>
  <2>1. wk[w].tkt \in Tickets /\ wk[w].upd \in Updates
    BY <1>4, WorkerTyped DEF Record, TypeInv, WorkerInv, HoldsTicket
  <2>2. UNCHANGED rowAt \/ rowAt' = [rowAt EXCEPT ![wk[w].upd][wk[w].tkt] = now]
    BY <1>4 DEF Record, Upd
  <2>3. wk[w].upd = u /\ wk[w].tkt = t
    BY <1>1, <2>1, <2>2
  <2> QED
    BY <1>4, <2>3 DEF Record
<1> QED
  BY <1>2, <1>3, <1>4

(* A fresh Telegram id goes to a user's message or to a bot message. *)
LEMMA NewOutgoing ==
  ASSUME TypeInv, [Next]_vars, NEW u \in Updates, outgoing'[u] # outgoing[u]
  PROVE  /\ outgoing'[u] \in Tickets /\ ticket[outgoing'[u]] # None
         /\ ticket[outgoing'[u]].chat = u[1] /\ sent[u] = None /\ UNCHANGED sent
<1> USE DEF telegramVars, exclusionVars, tableVars, historyVars
<1>1. \E v \in Updates, t \in Tickets : OutboundSend(t, v)
  <2>1. ~UNCHANGED vars /\ ~Tick /\ ~Admin /\ ~Agent
    BY DEF vars, Tick, Admin, Agent, ExcludeById, ExcludeByName, SetActive, RemoveById, RemoveByName,
        AgentPatch, AgentTouch, MarkExclude, MarkClose, MarkAbort
  <2>2. ASSUME Telegram PROVE \E v \in Updates, t \in Tickets : OutboundSend(t, v)
    BY <2>2 DEF Telegram, Send, Redeliver, Webhook, Evict, OutboundConfirm
  <2>3. ASSUME NEW w \in Workers, Step(w) PROVE FALSE
    BY <2>3
    DEF Step, Classify, FindChat, CreateChat, FindCustomer, CreateCustomer, Rule1, Rule2, Revive,
        Create, Record, AckRow, AckEnqueue, Finish
  <2>4. ~Worker
    BY <2>3 DEF Worker, Take, AckHiccup, StepFails, Crash
  <2> QED
    BY <2>1, <2>2, <2>4 DEF Next
<1>2. PICK v \in Updates, t \in Tickets : OutboundSend(t, v)
  BY <1>1
<1>3. v = u /\ outgoing'[u] = t
  BY <1>2 DEF OutboundSend, TypeInv, TypeOK
<1> QED
  BY <1>2, <1>3 DEF OutboundSend, NextId, Used

LEMMA NewSent ==
  ASSUME TypeInv, [Next]_vars, NEW u \in Updates, sent'[u] # sent[u]
  PROVE  /\ sent[u] = None /\ outgoing[u] = None
         /\ UNCHANGED <<outgoing, ticket, rowAt, wk, ack, byId, byName>>
         /\ \E x \in Users, r \in TgIds \union {None} : Send(u, x, r)
<1> USE DEF telegramVars, exclusionVars, tableVars, historyVars
<1>1. \E v \in Updates, x \in Users, r \in TgIds \union {None} : Send(v, x, r)
  <2>1. ~UNCHANGED vars /\ ~Tick /\ ~Admin /\ ~Agent
    BY DEF vars, Tick, Admin, Agent, ExcludeById, ExcludeByName, SetActive, RemoveById, RemoveByName,
        AgentPatch, AgentTouch, MarkExclude, MarkClose, MarkAbort
  <2>2. ASSUME Telegram
        PROVE  \E v \in Updates, x \in Users, r \in TgIds \union {None} : Send(v, x, r)
    BY <2>2 DEF Telegram, Redeliver, Webhook, Evict, OutboundSend, OutboundConfirm
  <2>3. ASSUME NEW w \in Workers, Step(w) PROVE FALSE
    BY <2>3
    DEF Step, Classify, FindChat, CreateChat, FindCustomer, CreateCustomer, Rule1, Rule2, Revive,
        Create, Record, AckRow, AckEnqueue, Finish
  <2>4. ~Worker
    BY <2>3 DEF Worker, Take, AckHiccup, StepFails, Crash
  <2> QED
    BY <2>1, <2>2, <2>4 DEF Next
<1>2. PICK v \in Updates, x \in Users, r \in TgIds \union {None} : Send(v, x, r)
  BY <1>1
<1>3. v = u
  BY <1>2 DEF Send, TypeInv, TypeOK
<1> QED
  BY <1>2, <1>3 DEF Send, NextId, Used

LEMMA PlaceStep == TypeInv /\ TypeInv' /\ PlaceInv /\ [Next]_vars => PlaceInv'
<1> SUFFICES ASSUME TypeInv, TypeInv', PlaceInv, [Next]_vars PROVE PlaceInv'
  OBVIOUS
<1>0. Lasting /\ OwnersKept
  BY StepLasting DEF Lasting
<1>1. ASSUME NEW u \in Updates, NEW t \in Tickets, Stored(u, t)'
      PROVE  /\ Used(u)' /\ ticket'[t] # None /\ ticket'[t].chat = u[1]
             /\ sent'[u] # None => Related(u, t)'
  <2>1. CASE Stored(u, t)
    <3>1. Used(u) /\ ticket[t] # None /\ ticket[t].chat = u[1] /\ (sent[u] # None => Related(u, t))
      BY <2>1 DEF PlaceInv
    <3>2. ticket'[t] # None /\ ticket'[t].chat = u[1] /\ ticket'[t].customer = ticket[t].customer
      BY <1>0, <3>1 DEF OwnersKept
    <3>3. sent'[u] = sent[u]
      BY <1>0, <3>1, NewSent DEF Lasting, Used
    <3>4. Used(u)'
      BY <3>1, <3>3, NewOutgoing DEF Used
    <3> QED
      BY <1>0, <3>1, <3>2, <3>3, <3>4, RelatedLasts
  <2>2. CASE ~Stored(u, t)
    <3>1. /\ UNCHANGED <<sent, outgoing>>
          /\ \/ outgoing[u] = t
             \/ \E w \in Workers : wk[w].pc = "record" /\ wk[w].upd = u /\ wk[w].tkt = t
      BY <1>1, <2>2, NewRow
    <3>2. CASE outgoing[u] = t
      BY <1>0, <3>1, <3>2 DEF OwnersKept, PlaceInv, Used, TypeInv, TicketInv
    <3>3. ASSUME NEW w \in Workers, wk[w].pc = "record", wk[w].upd = u, wk[w].tkt = t
          PROVE  /\ Used(u)' /\ ticket'[t] # None /\ ticket'[t].chat = u[1]
                 /\ sent'[u] # None => Related(u, t)'
      <4>1. sent[u] # None /\ ticket[t] # None /\ ticket[t].chat = u[1] /\ Related(u, t)
        BY <3>3 DEF PlaceInv, TypeInv, JobInv, WorkerInv
      <4>2. Related(u, t)'
        BY <1>0, <4>1, RelatedLasts
      <4> QED
        BY <1>0, <3>1, <4>1, <4>2 DEF OwnersKept, Used
    <3> QED
      BY <3>1, <3>2, <3>3
  <2> QED
    BY <2>1, <2>2
<1>2. ASSUME NEW u \in Updates, outgoing'[u] # None
      PROVE  sent'[u] = None /\ ticket'[outgoing'[u]].chat = u[1]
  <2>1. CASE outgoing'[u] = outgoing[u]
    <3>1. /\ outgoing[u] \in Tickets /\ ticket[outgoing[u]] # None
          /\ sent[u] = None /\ ticket[outgoing[u]].chat = u[1]
      BY <1>2, <2>1 DEF PlaceInv, TypeInv, TypeOK, TicketInv
    <3>2. sent'[u] = sent[u]
      BY <1>2, <2>1, NewSent
    <3> QED
      BY <1>0, <2>1, <3>1, <3>2 DEF OwnersKept
  <2>2. CASE outgoing'[u] # outgoing[u]
    BY <1>0, <2>2, NewOutgoing DEF OwnersKept
  <2> QED
    BY <2>1, <2>2
<1>3. ASSUME NEW w \in Workers, wk'[w].tkt # None
      PROVE  /\ ticket'[wk'[w].tkt].chat = wk'[w].upd[1]
             /\ Related(wk[w].upd, wk[w].tkt)'
  <2>1. wk[w].pc # "idle" /\ wk'[w].upd = wk[w].upd /\ wk[w].upd \in Updates /\ sent[wk[w].upd] # None
    BY <1>3, Decision DEF TypeInv, WorkerInv, JobInv
  <2>2. sent'[wk[w].upd] = sent[wk[w].upd]
    BY <1>0, <2>1 DEF Lasting
  <2>3. CASE KeptTicket(w)
    <3>1. wk[w].tkt \in Tickets /\ ticket[wk[w].tkt] # None
      BY <1>3, <2>3, WorkerTyped DEF KeptTicket, TypeInv, WorkerInv
    <3>2. Related(wk[w].upd, wk[w].tkt) /\ ticket[wk[w].tkt].chat = wk[w].upd[1]
      BY <3>1 DEF PlaceInv
    <3>3. Related(wk[w].upd, wk[w].tkt)'
      <4>1. PICK u \in Updates, t \in Tickets : u = wk[w].upd /\ t = wk[w].tkt
        BY <2>1, <3>1
      <4>2. Related(u, t)'
        BY <1>0, <2>1, <3>1, <3>2, <4>1, RelatedLasts
      <4>3. wk'[w].upd = u /\ wk'[w].tkt = t
        BY <2>1, <2>3, <4>1 DEF KeptTicket
      <4> QED
        BY <4>2, <4>3 DEF Related
    <3> QED
      BY <1>0, <2>1, <2>3, <3>1, <3>2, <3>3 DEF KeptTicket, OwnersKept
  <2>4. ASSUME NEW t \in Tickets, AttachedTo(w, t)
        PROVE  /\ ticket'[wk'[w].tkt].chat = wk'[w].upd[1]
               /\ Related(wk[w].upd, wk[w].tkt)'
    <3>1. PICK u \in Updates : u = wk[w].upd /\ sent[u] # None
      BY <2>1
    <3>2. /\ Related(u, t) /\ ticket[t] # None /\ ticket[t].chat = u[1]
          /\ UNCHANGED ticket /\ wk'[w].upd = u /\ wk'[w].tkt = t
      BY <2>1, <2>4, <3>1 DEF AttachedTo, Related, ChatOf, Message, Upd, Live
    <3>3. Related(u, t)'
      BY <1>0, <3>1, <3>2, RelatedLasts
    <3> QED
      BY <3>2, <3>3 DEF Related
  <2>5. ASSUME NEW t \in Tickets, CreatedFor(w, t)
        PROVE  /\ ticket'[wk'[w].tkt].chat = wk'[w].upd[1]
               /\ Related(wk[w].upd, wk[w].tkt)'
    <3>1. ticket'[t] = [chat |-> ChatOf(w), customer |-> Message(w).from, status |-> "open",
                        anchor |-> Upd(w)[2], lastClient |-> Upd(w)[2], updatedAt |-> now]
      BY <2>5 DEF CreatedFor, TypeInv, TypeOK
    <3> QED
      BY <2>1, <2>2, <2>5, <3>1 DEF CreatedFor, Related, ChatOf, Message, Upd
  <2> QED
    BY <1>3, <2>3, <2>4, <2>5, Decision
<1> QED
  BY <1>1, <1>2, <1>3 DEF PlaceInv

LEMMA PlaceInit == Init => PlaceInv
BY DEF Init, PlaceInv, Stored, IdleWorker

LEMMA PlaceInvariant == Spec => [](TypeInv /\ PlaceInv)
BY TypeInit, TypeStep, PlaceInit, PlaceStep, PTL DEF Spec

(* No message is ever stored in a ticket of another chat, although message *)
(* rows carry only the per-chat Telegram id: for any number of chats,      *)
(* tickets and workers.                                                    *)
THEOREM RowsStayInChatHolds == Spec => []RowsStayInChat
<1>1. TypeInv /\ PlaceInv => RowsStayInChat
  BY DEF PlaceInv, RowsStayInChat
<1> QED
  BY <1>1, PlaceInvariant, PTL

(* A stranger's message reaches a ticket only as a reply to a message of   *)
(* that ticket.                                                            *)
THEOREM StrangersOnlyByReplyHolds == Spec => []StrangersOnlyByReply
<1>1. TypeInv /\ PlaceInv => StrangersOnlyByReply
  BY DEF PlaceInv, StrangersOnlyByReply, RepliesInto, Related
<1> QED
  BY <1>1, PlaceInvariant, PTL
=============================================================================
