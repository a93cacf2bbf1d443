--------------------------- MODULE IngestOutcomes ---------------------------
(***************************************************************************)
(* Proofs about Ingest: what finally becomes of messages and tickets.      *)
(***************************************************************************)
EXTENDS IngestSafety, WellFoundedInduction

USE ConstantsAssumption, NoneAssumption

-----------------------------------------------------------------------------
(* Closed tickets.  A sealed pair <<u, t>> has t closed, and the handler   *)
(* of u nowhere near t.                                                    *)

SealInv ==
  \A u \in Updates, t \in Tickets : <<u, t>> \in sealed =>
    /\ sent[u] # None
    /\ ticket[t] # None /\ ~Live(t)
    /\ ~Stored(u, t)
    /\ \A w \in Workers : wk[w].tkt = t => wk[w].upd # u

(* Posting a message is what seals; and the message is new. *)
LEMMA NewSeal ==
  ASSUME TypeInv, [Next]_vars, NEW u \in Updates, NEW t \in Tickets,
         <<u, t>> \in sealed', <<u, t>> \notin sealed
  PROVE  /\ ~Used(u) /\ sent'[u] # None
         /\ ticket[t] # None /\ ~Live(t)
         /\ UNCHANGED <<ticket, rowAt, wk>>
<1> USE DEF telegramVars, exclusionVars, tableVars, historyVars
<1>1. \E v \in Updates, x \in Users, r \in TgIds \union {None} : Send(v, x, r)
  <2>1. ~UNCHANGED vars /\ ~Tick /\ ~Admin
    BY DEF vars, Tick, Admin, ExcludeById, ExcludeByName, SetActive, RemoveById, RemoveByName
  <2>2. ~Agent
    BY DEF Agent, AgentPatch, AgentTouch, MarkExclude, MarkClose, MarkAbort, SetStatus
  <2>3. ASSUME Telegram
        PROVE  \E v \in Updates, x \in Users, r \in TgIds \union {None} : Send(v, x, r)
    BY <2>3 DEF Telegram, Redeliver, Webhook, Evict, OutboundSend, OutboundConfirm
  <2>4. ASSUME NEW w \in Workers, Step(w) PROVE FALSE
    BY <2>4
    DEF Step, Classify, FindChat, CreateChat, FindCustomer, CreateCustomer, Rule1, Rule2, Revive,
        Create, Record, AckRow, AckEnqueue, Finish, SetStatus
  <2>5. ~Worker
    BY <2>4 DEF Worker, Take, AckHiccup, StepFails, Crash
  <2> QED
    BY <2>1, <2>2, <2>3, <2>5 DEF Next
<1>2. PICK v \in Updates, x \in Users, r \in TgIds \union {None} : Send(v, x, r)
  BY <1>1
<1>3. v = u /\ ticket[t] # None /\ ~Live(t)
  BY <1>2 DEF Send
<1>4. sent'[u] = [from |-> x, replyTo |-> r] /\ [from |-> x, replyTo |-> r] \in Sent
  BY <1>2, <1>3 DEF Send, TypeInv, TypeOK, Sent
<1> QED
  BY <1>2, <1>3, <1>4 DEF Send, NextId

(* What makes a closed ticket live again unseals it, except for the        *)
(* message that is the reason.                                             *)
LEMMA StaysClosed ==
  ASSUME TypeInv, [Next]_vars, NEW u \in Updates, NEW t \in Tickets,
         ticket[t] # None, ~Live(t), <<u, t>> \in sealed'
  PROVE  ~Live(t)' \/ \E w \in Workers : wk[w].tkt = t /\ wk[w].upd = u
<1> USE DEF telegramVars, exclusionVars, tableVars, historyVars
<1>0. ASSUME UNCHANGED ticket \/ (ticket'[t] # None => ticket'[t].status = ticket[t].status)
      PROVE  ~Live(t)'
  BY <1>0 DEF Live
<1>1. ASSUME NEW q \in Tickets, ticket[q] # None, NEW s \in Statuses, NEW for, SetStatus(q, s, for)
      PROVE  ~Live(t)' \/ (q = t /\ u = for)
  <2>1. CASE q # t
    <3>1. ticket'[t] = ticket[t]
      BY <1>1, <2>1 DEF SetStatus, TypeInv, TypeOK
    <3> QED
      BY <3>1, <1>0
  <2>2. CASE q = t /\ s \in Terminal
    BY <1>1, <2>2, StatusEdited DEF Live
  <2>3. CASE q = t /\ s \notin Terminal
    BY <1>1, <2>3 DEF SetStatus
  <2> QED
    BY <2>1, <2>2, <2>3
<1>2. ASSUME Agent PROVE ~Live(t)'
  <2>1. ASSUME NEW q \in Tickets, NEW s \in PatchStatuses, AgentPatch(q, s) PROVE ~Live(t)'
    BY <2>1, <1>1 DEF AgentPatch
  <2>2. ASSUME NEW q \in Tickets, MarkClose(q) PROVE ~Live(t)'
    BY <2>2, <1>1 DEF MarkClose, TypeInv, TicketInv, Statuses, Terminal
  <2>3. ASSUME NEW q \in Tickets, AgentTouch(q) PROVE ~Live(t)'
    <3>1. CASE q # t
      <4>1. ticket'[t] = ticket[t]
        BY <2>3, <3>1 DEF AgentTouch, TypeInv, TypeOK
      <4> QED
        BY <4>1, <1>0
    <3>2. CASE q = t
      BY <2>3, <3>2, <1>0, TimeEdited DEF AgentTouch
    <3> QED
      BY <3>1, <3>2
  <2> QED
    BY <1>2, <1>0, <2>1, <2>2, <2>3 DEF Agent, MarkExclude, MarkAbort
<1>3. ASSUME NEW w \in Workers, Revive(w) PROVE ~Live(t)' \/ (wk[w].tkt = t /\ wk[w].upd = u)
  <2>1. wk[w].tkt \in Tickets /\ ticket[wk[w].tkt] # None /\ "open" \in Statuses
    BY <1>3, WorkerTyped DEF Revive, TypeInv, WorkerInv, HoldsTicket, Statuses, Reopenable
  <2> QED
    BY <1>3, <2>1, <1>1 DEF Revive
<1>4. ASSUME NEW w \in Workers, Create(w) PROVE ~Live(t)'
  <2>1. ticket'[t] = ticket[t]
    BY <1>4 DEF Create, TypeInv, TypeOK
  <2> QED
    BY <2>1, <1>0
<1>5. ASSUME NEW w \in Workers, Record(w) PROVE ~Live(t)'
  <2>1. /\ wk[w].tkt \in Tickets /\ ticket[wk[w].tkt] # None
        /\ Upd(w) \in Updates /\ Upd(w)[2] \in TgIds
    BY <1>5, WorkerTyped DEF Record, TypeInv, WorkerInv, HoldsTicket, Upd, TgIds
  <2>2. CASE UNCHANGED ticket
    BY <2>2, <1>0
  <2>3. CASE ~UNCHANGED ticket /\ wk[w].tkt # t
    <3>1. ticket'[t] = ticket[t]
      BY <1>5, <2>1, <2>3 DEF Record, TypeInv, TypeOK
    <3> QED
      BY <3>1, <1>0
  <2>4. CASE ~UNCHANGED ticket /\ wk[w].tkt = t
    BY <1>5, <2>1, <2>4, <1>0, LastClientEdited DEF Record
  <2> QED
    BY <2>2, <2>3, <2>4
<1>6. ASSUME NEW w \in Workers, Step(w)
      PROVE  ~Live(t)' \/ (wk[w].tkt = t /\ wk[w].upd = u)
  BY <1>6, <1>0, <1>3, <1>4, <1>5
  DEF Step, Classify, FindChat, CreateChat, FindCustomer, CreateCustomer, Rule1, Rule2, AckRow,
      AckEnqueue, Finish
<1> QED
  BY <1>0, <1>2, <1>6
  DEF Next, vars, Tick, Telegram, Send, Redeliver, Webhook, Evict, OutboundSend, OutboundConfirm,
      Admin, ExcludeById, ExcludeByName, SetActive, RemoveById, RemoveByName,
      Worker, Take, AckHiccup, StepFails, Crash

LEMMA SealStep == TypeInv /\ TypeInv' /\ PlaceInv /\ SealInv /\ [Next]_vars => SealInv'
<1> SUFFICES ASSUME TypeInv, TypeInv', PlaceInv, SealInv, [Next]_vars,
                    NEW u \in Updates, NEW t \in Tickets, <<u, t>> \in sealed'
             PROVE  /\ sent'[u] # None
                    /\ ticket'[t] # None /\ ~Live(t)'
                    /\ ~Stored(u, t)'
                    /\ \A w \in Workers : wk'[w].tkt = t => wk'[w].upd # u
  BY DEF SealInv
<1>0. Lasting /\ OwnersKept
  BY StepLasting DEF Lasting
<1>1. CASE <<u, t>> \notin sealed
  <2>1. /\ ~Used(u) /\ sent'[u] # None /\ ticket[t] # None /\ ~Live(t)
        /\ UNCHANGED <<ticket, rowAt, wk>>
    BY <1>1, NewSeal
  <2>2. ~Stored(u, t)'
    BY <2>1 DEF PlaceInv, Stored
  <2>3. \A w \in Workers : wk[w].tkt # None => sent[wk[w].upd] # None
    BY DEF TypeInv, WorkerInv, JobInv, Undecided
  <2> QED
    BY <2>1, <2>2, <2>3 DEF Used, Live
<1>2. CASE <<u, t>> \in sealed
  <2>1. /\ sent[u] # None /\ ticket[t] # None /\ ~Live(t) /\ ~Stored(u, t)
        /\ \A w \in Workers : wk[w].tkt = t => wk[w].upd # u
    BY <1>2 DEF SealInv
  <2>2. sent'[u] # None /\ ticket'[t] # None
    BY <1>0, <2>1 DEF Lasting, OwnersKept
  <2>3. ~Live(t)'
    BY <2>1, StaysClosed
  <2>4. ~Stored(u, t)'
    BY <2>1, NewRow DEF PlaceInv
  <2>5. ASSUME NEW w \in Workers, wk'[w].tkt = t PROVE wk'[w].upd # u
    <3>1. /\ wk'[w].upd = wk[w].upd
          /\ \/ KeptTicket(w)
             \/ \E q \in Tickets : AttachedTo(w, q)
             \/ \E q \in Tickets : CreatedFor(w, q)
      BY <2>5, Decision
    <3>2. ASSUME NEW q \in Tickets, AttachedTo(w, q) PROVE FALSE
      BY <2>1, <2>5, <3>2 DEF AttachedTo
    <3>3. ASSUME NEW q \in Tickets, CreatedFor(w, q) PROVE FALSE
      BY <2>1, <2>5, <3>3 DEF CreatedFor
    <3> QED
      BY <2>1, <2>5, <3>1, <3>2, <3>3 DEF KeptTicket
  <2> QED
    BY <2>2, <2>3, <2>4, <2>5
<1> QED
  BY <1>1, <1>2

(* A message sent while a ticket is closed is never added to it, unless an *)
(* agent or another message has reopened it: for any number of workers,    *)
(* agents and retries, at every point of the handler.                      *)
THEOREM ClosedGetsNothingNewHolds == Spec => []ClosedGetsNothingNew
<1>1. Init => SealInv
  BY DEF Init, SealInv
<1>2. SealInv => ClosedGetsNothingNew
  BY DEF SealInv, ClosedGetsNothingNew
<1> QED
  BY <1>1, <1>2, PlaceInvariant, SealStep, PTL DEF Spec

-----------------------------------------------------------------------------
(* Acknowledgements.  At most one handler still owes a ticket its          *)
(* acknowledgement: the one that created it and is not done yet.           *)

Owes(w) == wk[w].isNew /\ wk[w].pc \in {"record", "ackRow", "ackEnqueue"}

AckInv ==
  /\ AckOnce
  /\ \A t \in Tickets : ticket[t] = None => ack[t].rows = 0 /\ ack[t].sends = 0
  /\ \A w \in Workers :
       /\ wk[w].pc \in {"ackRow", "ackEnqueue"} => wk[w].isNew
       /\ wk[w].pc = "revive" => ~wk[w].isNew
       /\ Owes(w) => /\ ack[wk[w].tkt].sends = 0
                     /\ ack[wk[w].tkt].rows = IF wk[w].pc = "ackEnqueue" THEN 1 ELSE 0
       /\ \A v \in Workers : v # w /\ Owes(v) /\ Owes(w) => wk[v].tkt # wk[w].tkt

(* Only the two acknowledgement steps of a handler touch its ticket's      *)
(* counters.                                                               *)
LEMMA NewAck ==
  ASSUME TypeInv, [Next]_vars, NEW t \in Tickets, ack'[t] # ack[t]
  PROVE  \E w \in Workers :
           /\ wk[w].tkt = t /\ UNCHANGED ticket
           /\ \A v \in Workers : v # w => wk'[v] = wk[v]
           /\ \/ /\ wk[w].pc = "ackRow" /\ wk'[w].pc = "ackEnqueue"
                 /\ ack'[t].rows = ack[t].rows + 1 /\ ack'[t].sends = ack[t].sends
              \/ /\ wk[w].pc = "ackEnqueue" /\ wk'[w].pc = "finish"
                 /\ ack'[t].rows = ack[t].rows /\ ack'[t].sends = ack[t].sends + 1
<1> USE DEF telegramVars, exclusionVars, tableVars, historyVars
<1>1. \E w \in Workers : AckRow(w) \/ AckEnqueue(w)
  <2>1. ~UNCHANGED vars /\ ~Tick /\ ~Admin /\ ~Agent /\ ~Telegram
    BY DEF vars, Tick, Admin, Agent, Telegram, ExcludeById, ExcludeByName, SetActive, RemoveById,
        RemoveByName, AgentPatch, AgentTouch, MarkExclude, MarkClose, MarkAbort, Send, Redeliver,
        Webhook, Evict, OutboundSend, OutboundConfirm
  <2>2. ASSUME NEW w \in Workers, Step(w) PROVE AckRow(w) \/ AckEnqueue(w)
    BY <2>2
    DEF Step, Classify, FindChat, CreateChat, FindCustomer, CreateCustomer, Rule1, Rule2, Revive,
        Create, Record, Finish
  <2> QED
    BY <2>1, <2>2 DEF Next, Worker, Take, AckHiccup, StepFails, Crash
<1>2. PICK w \in Workers : AckRow(w) \/ AckEnqueue(w)
  BY <1>1
<1>3. wk[w].tkt \in Tickets /\ UNCHANGED ticket
  BY <1>2, WorkerTyped DEF AckRow, AckEnqueue, TypeInv, WorkerInv, HoldsTicket
<1>4. \A v \in Workers : v # w => wk'[v] = wk[v]
  BY <1>2 DEF AckRow, AckEnqueue, Goto, TypeInv, TypeOK
<1>5. ack \in [Tickets -> [rows : Nat, sends : Nat]]
  BY DEF TypeInv, TypeOK
<1>6. CASE AckRow(w)
  <2>1. ack' = [ack EXCEPT ![wk[w].tkt].rows = @ + 1] /\ wk[w].pc = "ackRow" /\ Goto(w, "ackEnqueue")
    BY <1>6 DEF AckRow
  <2>2. wk'[w].pc = "ackEnqueue"
    BY <2>1, GotoResult
  <2>3. wk[w].tkt = t /\ ack'[t].rows = ack[t].rows + 1 /\ ack'[t].sends = ack[t].sends
    BY <1>3, <1>5, <2>1
  <2> QED
    BY <1>3, <1>4, <2>1, <2>2, <2>3
<1>7. CASE AckEnqueue(w)
  <2>1. /\ ack' = [ack EXCEPT ![wk[w].tkt].sends = @ + 1]
        /\ wk[w].pc = "ackEnqueue" /\ Goto(w, "finish")
    BY <1>7 DEF AckEnqueue
  <2>2. wk'[w].pc = "finish"
    BY <2>1, GotoResult
  <2>3. wk[w].tkt = t /\ ack'[t].rows = ack[t].rows /\ ack'[t].sends = ack[t].sends + 1
    BY <1>3, <1>5, <2>1
  <2> QED
    BY <1>3, <1>4, <2>1, <2>2, <2>3
<1> QED
  BY <1>2, <1>6, <1>7

(* How a handler comes to owe an acknowledgement, or goes on owing it. *)
LEMMA OwesCases ==
  ASSUME TypeInv, AckInv, [Next]_vars, NEW w \in Workers, Owes(w)'
  PROVE  \/ Owes(w) /\ wk'[w] = wk[w]
         \/ \E t \in Tickets : CreatedFor(w, t)
         \/ /\ Owes(w) /\ wk'[w].tkt = wk[w].tkt /\ UNCHANGED ack
            /\ wk[w].pc = "record" /\ wk'[w].pc = "ackRow"
         \/ /\ Owes(w) /\ wk'[w].tkt = wk[w].tkt /\ wk'[w].pc = "ackEnqueue" /\ AckRow(w)
<1> USE DEF Owes
<1>1. CASE WorkerKept(w)
  BY <1>1, IdleTyped DEF WorkerKept
<1>2. CASE \E u \in Updates : Take(w, u)
  <2>1. wk'[w].pc = "classify"
    BY <1>2, IdleTyped DEF Take, TypeInv, TypeOK, WorkerState
  <2> QED
    BY <2>1
<1>3. CASE AckHiccup(w)
  BY <1>3, GotoResult DEF AckHiccup
<1>4. CASE Step(w)
  <2>1. CASE Rule1(w)
    <3>1. ASSUME NEW t \in Tickets, AttachedTo(w, t) PROVE FALSE
      BY <3>1 DEF AttachedTo
    <3>2. ~Goto(w, "rule2")
      BY GotoResult
    <3> QED
      BY <2>1, <3>1, <3>2, Rule1Result
  <2>2. CASE Rule2(w)
    BY <2>2, Rule2Result DEF AttachedTo
  <2>3. CASE Create(w)
    BY <2>3, CreateResult
  <2>4. CASE Finish(w)
    BY <2>4, IdleResult DEF Finish
  <2>5. CASE Classify(w)
    BY <2>5, GotoResult, IdleResult DEF Classify, Throw
  <2>6. CASE FindChat(w) \/ CreateChat(w)
    BY <2>6, GotoResult, IdleResult DEF FindChat, CreateChat, Throw
  <2>7. CASE FindCustomer(w) \/ CreateCustomer(w)
    BY <2>7, GotoResult, GroupResult, IdleResult DEF FindCustomer, CreateCustomer, Throw
  <2>8. CASE Revive(w)
    BY <2>8, GotoResult DEF Revive, AckInv
  <2>9. CASE Record(w)
    <3>1. UNCHANGED ack
      BY <2>9 DEF Record
    <3> QED
      BY <2>9, <3>1, GotoResult DEF Record
  <2>10. CASE AckRow(w)
    BY <2>10, GotoResult DEF AckRow, AckInv
  <2>11. CASE AckEnqueue(w)
    BY <2>11, GotoResult DEF AckEnqueue
  <2> QED
    BY <1>4, <2>1, <2>2, <2>3, <2>4, <2>5, <2>6, <2>7, <2>8, <2>9, <2>10, <2>11 DEF Step
<1> QED
  BY <1>1, <1>2, <1>3, <1>4, WorkerCases

(* A step moves one worker at most. *)
LEMMA OneMoves ==
  ASSUME TypeInv, [Next]_vars, NEW w \in Workers, NEW v \in Workers, v # w, wk'[w] # wk[w]
  PROVE  wk'[v] = wk[v]
<1> USE DEF telegramVars, exclusionVars, tableVars, historyVars
<1>1. UNCHANGED wk \/ \E x \in Workers : \E r : wk' = [wk EXCEPT ![x] = r]
  <2>1. ASSUME Telegram \/ Admin \/ Agent \/ Tick \/ UNCHANGED vars PROVE UNCHANGED wk
    BY <2>1
    DEF vars, Tick, Telegram, Admin, Agent, Send, Redeliver, Webhook, Evict, OutboundSend,
        OutboundConfirm, ExcludeById, ExcludeByName, SetActive, RemoveById, RemoveByName,
        AgentPatch, AgentTouch, MarkExclude, MarkClose, MarkAbort
  <2>2. ASSUME NEW x \in Workers,
               Step(x) \/ AckHiccup(x) \/ StepFails(x) \/ Crash(x) \/ \E u \in Updates : Take(x, u)
        PROVE  \E r : wk' = [wk EXCEPT ![x] = r]
    BY <2>2
    DEF Step, AckHiccup, StepFails, Crash, Take, Classify, FindChat, CreateChat, FindCustomer,
        CreateCustomer, Rule1, Rule2, Revive, Create, Record, AckRow, AckEnqueue, Finish, Goto,
        Throw, StartGrouping
  <2> QED
    BY <2>1, <2>2 DEF Next, Worker
<1> QED
  BY <1>1 DEF TypeInv, TypeOK

(* Only the creator of a ticket comes to its acknowledgement, and whoever  *)
(* revives a ticket has not created it.                                    *)
LEMMA AckPlaces ==
  ASSUME TypeInv, AckInv, [Next]_vars, NEW w \in Workers
  PROVE  /\ wk'[w].pc \in {"ackRow", "ackEnqueue"} => wk'[w].isNew
         /\ wk'[w].pc = "revive" => ~wk'[w].isNew
<1>1. CASE WorkerKept(w)
  BY <1>1, IdleTyped DEF WorkerKept, AckInv
<1>2. CASE \E u \in Updates : Take(w, u)
  <2>1. wk'[w].pc = "classify"
    BY <1>2, IdleTyped DEF Take, TypeInv, TypeOK, WorkerState
  <2> QED
    BY <2>1
<1>3. CASE AckHiccup(w)
  BY <1>3, GotoResult DEF AckHiccup
<1>4. CASE Step(w)
  <2>1. CASE Rule1(w) \/ Rule2(w)
    <3>1. ASSUME NEW t \in Tickets, AttachedTo(w, t)
          PROVE  wk'[w].pc \in {"revive", "record"} /\ ~wk'[w].isNew
      BY <3>1 DEF AttachedTo
    <3>2. Goto(w, "rule2") => wk'[w].pc = "rule2"
      BY GotoResult
    <3>3. \/ wk'[w].pc \in {"rule2", "create"}
          \/ \E t \in Tickets : AttachedTo(w, t)
      BY <2>1, <3>2, Rule1Result, Rule2Result
    <3> QED
      BY <3>1, <3>3
  <2>2. CASE Create(w)
    BY <2>2, CreateResult DEF CreatedFor
  <2>3. CASE Finish(w)
    BY <2>3, IdleResult DEF Finish
  <2>4. CASE Classify(w)
    BY <2>4, GotoResult, IdleResult DEF Classify, Throw
  <2>5. CASE FindChat(w) \/ CreateChat(w)
    BY <2>5, GotoResult, IdleResult DEF FindChat, CreateChat, Throw
  <2>6. CASE FindCustomer(w) \/ CreateCustomer(w)
    BY <2>6, GotoResult, GroupResult, IdleResult DEF FindCustomer, CreateCustomer, Throw
  <2>7. CASE Revive(w) \/ Record(w)
    BY <2>7, GotoResult DEF Revive, Record
  <2>8. CASE AckRow(w) \/ AckEnqueue(w)
    BY <2>8, GotoResult DEF AckRow, AckEnqueue, AckInv
  <2> QED
    BY <1>4, <2>1, <2>2, <2>3, <2>4, <2>5, <2>6, <2>7, <2>8 DEF Step
<1> QED
  BY <1>1, <1>2, <1>3, <1>4, WorkerCases

LEMMA AckStep == TypeInv /\ TypeInv' /\ AckInv /\ [Next]_vars => AckInv'
<1> SUFFICES ASSUME TypeInv, TypeInv', AckInv, [Next]_vars PROVE AckInv'
  OBVIOUS
<1>0. /\ ack \in [Tickets -> [rows : Nat, sends : Nat]] /\ OwnersKept
      /\ \A w \in Workers : Owes(w) => wk[w].tkt \in Tickets /\ ticket[wk[w].tkt] # None
  BY StepLasting, WorkerTyped DEF TypeInv, TypeOK, WorkerInv, HoldsTicket, Owes, Lasting
<1>1. ASSUME NEW t \in Tickets
      PROVE  /\ ack'[t].rows <= 1 /\ ack'[t].sends <= ack'[t].rows
             /\ ticket'[t] = None => ack'[t].rows = 0 /\ ack'[t].sends = 0
  <2>1. CASE ack'[t] = ack[t]
    BY <1>0, <2>1 DEF AckInv, AckOnce, OwnersKept
  <2>2. CASE ack'[t] # ack[t]
    <3>1. PICK w \in Workers :
            /\ wk[w].tkt = t /\ UNCHANGED ticket
            /\ \/ /\ wk[w].pc = "ackRow"
                  /\ ack'[t].rows = ack[t].rows + 1 /\ ack'[t].sends = ack[t].sends
               \/ /\ wk[w].pc = "ackEnqueue"
                  /\ ack'[t].rows = ack[t].rows /\ ack'[t].sends = ack[t].sends + 1
      BY <2>2, NewAck
    <3>2. Owes(w)
      BY <3>1 DEF AckInv, Owes
    <3>3. ack[t].sends = 0 /\ ack[t].rows = IF wk[w].pc = "ackEnqueue" THEN 1 ELSE 0
      BY <3>1, <3>2 DEF AckInv
    <3> QED
      BY <1>0, <3>1, <3>2, <3>3
  <2> QED
    BY <2>1, <2>2
<1>2. ASSUME NEW w \in Workers
      PROVE  /\ wk'[w].pc \in {"ackRow", "ackEnqueue"} => wk'[w].isNew
             /\ wk'[w].pc = "revive" => ~wk'[w].isNew
  BY AckPlaces
<1>3. ASSUME NEW w \in Workers, Owes(w)'
      PROVE  /\ ack'[wk'[w].tkt].sends = 0
             /\ ack'[wk'[w].tkt].rows = IF wk'[w].pc = "ackEnqueue" THEN 1 ELSE 0
  <2>1. CASE Owes(w) /\ wk'[w] = wk[w]
    <3>1. ack'[wk[w].tkt] = ack[wk[w].tkt]
      <4>1. SUFFICES ASSUME ack'[wk[w].tkt] # ack[wk[w].tkt] PROVE FALSE
        OBVIOUS
      <4>2. PICK v \in Workers :
              /\ wk[v].tkt = wk[w].tkt
              /\ \/ wk[v].pc = "ackRow" /\ wk'[v].pc = "ackEnqueue"
                 \/ wk[v].pc = "ackEnqueue" /\ wk'[v].pc = "finish"
        BY <1>0, <2>1, <4>1, NewAck
      <4>3. Owes(v) /\ v # w
        BY <2>1, <4>2 DEF AckInv, Owes
      <4> QED
        BY <2>1, <4>2, <4>3 DEF AckInv
    <3> QED
      BY <2>1, <3>1 DEF AckInv
  <2>2. ASSUME NEW t \in Tickets, CreatedFor(w, t)
        PROVE  /\ ack'[wk'[w].tkt].sends = 0
               /\ ack'[wk'[w].tkt].rows = IF wk'[w].pc = "ackEnqueue" THEN 1 ELSE 0
    BY <2>2 DEF CreatedFor, AckInv
  <2>3. CASE /\ Owes(w) /\ wk'[w].tkt = wk[w].tkt /\ UNCHANGED ack
             /\ wk[w].pc = "record" /\ wk'[w].pc = "ackRow"
    BY <2>3 DEF AckInv
  <2>4. CASE Owes(w) /\ wk'[w].tkt = wk[w].tkt /\ wk'[w].pc = "ackEnqueue" /\ AckRow(w)
    <3>1. wk[w].tkt \in Tickets /\ wk[w].pc = "ackRow" /\ ack' = [ack EXCEPT ![wk[w].tkt].rows = @ + 1]
      BY <1>0, <2>4 DEF AckRow
    <3>2. ack'[wk[w].tkt].rows = ack[wk[w].tkt].rows + 1 /\ ack'[wk[w].tkt].sends = ack[wk[w].tkt].sends
      BY <1>0, <3>1
    <3>3. ack[wk[w].tkt].rows = 0 /\ ack[wk[w].tkt].sends = 0
      BY <2>4, <3>1 DEF AckInv
    <3> QED
      BY <2>4, <3>2, <3>3
  <2> QED
    BY <1>3, <2>1, <2>2, <2>3, <2>4, OwesCases
<1>4. ASSUME NEW w \in Workers, NEW v \in Workers, v # w, Owes(v)', Owes(w)'
      PROVE  wk'[v].tkt # wk'[w].tkt
  <2>1. ASSUME NEW x \in Workers, Owes(x)'
        PROVE  \/ Owes(x) /\ wk'[x].tkt = wk[x].tkt
               \/ \E t \in Tickets : CreatedFor(x, t)
    BY <2>1, OwesCases
  <2>2. CASE Owes(v) /\ wk'[v].tkt = wk[v].tkt /\ Owes(w) /\ wk'[w].tkt = wk[w].tkt
    BY <1>4, <2>2 DEF AckInv
  <2>3. ASSUME NEW x \in Workers, NEW y \in Workers, NEW t \in Tickets, x # y, CreatedFor(x, t), Owes(y)'
        PROVE  wk'[x].tkt # wk'[y].tkt
    <3>1. wk'[x].tkt = t /\ ticket[t] = None
      BY <2>3 DEF CreatedFor
    <3>2. wk'[y] = wk[y]
      <4>1. wk[x].tkt # t
        BY <3>1, WorkerTyped DEF TypeInv, WorkerInv
      <4> QED
        BY <2>3, <3>1, <4>1, OneMoves
    <3>3. Owes(y)
      BY <2>3, <3>2 DEF Owes
    <3> QED
      BY <1>0, <3>1, <3>2, <3>3
  <2> QED
    BY <1>4, <2>1, <2>2, <2>3
<1> QED
  BY <1>1, <1>2, <1>3, <1>4 DEF AckInv, AckOnce

(* A ticket is acknowledged at most once, for any number of workers,       *)
(* attempts, redeliveries and evictions from the queue.                    *)
THEOREM AckOnceHolds == Spec => []AckOnce
<1>1. Init => AckInv
  BY DEF Init, AckInv, AckOnce, Owes, IdleWorker
<1>2. AckInv => AckOnce
  BY DEF AckInv
<1> QED
  BY <1>1, <1>2, TypeInit, TypeStep, AckStep, PTL DEF Spec

-----------------------------------------------------------------------------
(* Muted messages.  A message sent by an excluded sender who stays         *)
(* excluded does not get past classify, nor does an agent's.               *)

Classified == PCs \ {"idle", "classify", "finish"}

MuteInv ==
  /\ \A u \in muted : sent[u] # None /\ Excluded(sent[u].from)
  /\ \A w \in Workers : wk[w].pc \in Classified =>
       sent[wk[w].upd].from \notin Staff /\ wk[w].upd \notin muted
  /\ \A u \in Updates, t \in Tickets : Stored(u, t) /\ sent[u] # None =>
       sent[u].from \notin Staff /\ u \notin muted

(* A handler gets past classify only for a sender who is neither an agent  *)
(* nor excluded.                                                           *)
LEMMA NewClassified ==
  ASSUME TypeInv, [Next]_vars, NEW w \in Workers,
         wk'[w].pc \in Classified \/ (wk'[w].pc = "finish" /\ wk'[w].tkt # None)
  PROVE  /\ wk'[w].upd = wk[w].upd /\ wk[w].pc # "idle"
         /\ \/ wk[w].pc \in Classified
            \/ UNCHANGED wk[w]
            \/ /\ UNCHANGED muted
               /\ Message(w).from \notin Staff /\ ~Excluded(Message(w).from)
<1> USE DEF Classified
<1>0. wk[w] \in WorkerState
  BY WorkerTyped
<1>1. CASE WorkerKept(w)
  BY <1>1, IdleTyped DEF WorkerKept
<1>2. CASE \E u \in Updates : Take(w, u)
  <2>1. wk'[w].pc = "classify"
    BY <1>2, IdleTyped DEF Take, TypeInv, TypeOK, WorkerState
  <2> QED
    BY <2>1
<1>3. CASE AckHiccup(w)
  BY <1>3, GotoResult DEF AckHiccup, PCs
<1>4. CASE Classify(w)
  <2>1. UNCHANGED muted
    BY <1>4 DEF Classify, historyVars
  <2>2. wk[w].tkt = None /\ wk[w].pc = "classify"
    BY <1>4 DEF Classify, TypeInv, WorkerInv, Undecided
  <2>3. ASSUME Goto(w, "finish") PROVE FALSE
    BY <2>2, <2>3, GotoResult
  <2>4. ASSUME Throw(w) PROVE FALSE
    BY <2>4, IdleResult DEF Throw
  <2> QED
    BY <1>4, <2>1, <2>3, <2>4, GotoResult DEF Classify, Excluded, ExcludedById
<1>5. CASE Step(w) /\ ~Classify(w)
  <2>1. CASE Rule1(w)
    BY <2>1, Rule1Result, GotoResult DEF Rule1, PCs
  <2>2. CASE Rule2(w)
    BY <2>2, Rule2Result DEF Rule2, PCs
  <2>3. CASE Create(w)
    BY <2>3, CreateResult DEF Create, PCs
  <2>4. CASE Finish(w)
    BY <2>4, IdleResult DEF Finish
  <2>5. CASE FindChat(w) \/ CreateChat(w)
    BY <2>5, GotoResult, IdleResult DEF FindChat, CreateChat, Throw, PCs
  <2>6. CASE FindCustomer(w) \/ CreateCustomer(w)
    BY <2>6, GotoResult, GroupResult, IdleResult DEF FindCustomer, CreateCustomer, Throw, PCs
  <2>7. CASE Revive(w) \/ Record(w) \/ AckRow(w) \/ AckEnqueue(w)
    BY <2>7, GotoResult DEF Revive, Record, AckRow, AckEnqueue, PCs
  <2> QED
    BY <1>5, <2>1, <2>2, <2>3, <2>4, <2>5, <2>6, <2>7 DEF Step
<1> QED
  BY <1>1, <1>2, <1>3, <1>4, <1>5, WorkerCases

(* How the muted messages change: by posting one, or by an admin's step    *)
(* that forgets those whose sender is no longer excluded.                  *)
LEMMA MuteChange ==
  ASSUME TypeInv, [Next]_vars
  PROVE  \/ UNCHANGED muted /\ \A x \in Users : Excluded(x) => Excluded(x)'
         \/ muted' = StillMuted(byId', byName') /\ UNCHANGED <<sent, rowAt, wk>>
         \/ \E u \in Updates, x \in Users, r \in TgIds \union {None} : Send(u, x, r)
<1> USE DEF telegramVars, exclusionVars, tableVars, historyVars
<1>0. byId \in [Users -> {"absent", "active", "inactive"}]
  BY DEF TypeInv, TypeOK
<1>1. UNCHANGED <<muted, byId, byName>> =>
        UNCHANGED muted /\ \A x \in Users : Excluded(x) => Excluded(x)'
  BY DEF Excluded
<1>2. ASSUME Telegram, ~\E u \in Updates, x \in Users, r \in TgIds \union {None} : Send(u, x, r)
      PROVE  UNCHANGED <<muted, byId, byName>>
  BY <1>2 DEF Telegram, Redeliver, Webhook, Evict, OutboundSend, OutboundConfirm
<1>3. ASSUME Admin
      PROVE  \/ UNCHANGED muted /\ \A x \in Users : Excluded(x) => Excluded(x)'
             \/ muted' = StillMuted(byId', byName') /\ UNCHANGED <<sent, rowAt, wk>>
  <2>1. ASSUME NEW x \in Users, ExcludeById(x) \/ ExcludeByName(x)
        PROVE  UNCHANGED muted /\ \A y \in Users : Excluded(y) => Excluded(y)'
    BY <1>0, <2>1 DEF ExcludeById, ExcludeByName, Excluded
  <2>2. ASSUME NEW x \in Users, RemoveById(x) \/ RemoveByName(x) \/ \E s \in {"active", "inactive"} : SetActive(x, s)
        PROVE  muted' = StillMuted(byId', byName') /\ UNCHANGED <<sent, rowAt, wk>>
    BY <2>2 DEF RemoveById, RemoveByName, SetActive, StillMuted
  <2> QED
    BY <1>3, <2>1, <2>2 DEF Admin
<1>4. ASSUME Agent PROVE UNCHANGED muted /\ \A x \in Users : Excluded(x) => Excluded(x)'
  <2>1. ASSUME NEW t \in Tickets, MarkExclude(t)
        PROVE  UNCHANGED muted /\ \A x \in Users : Excluded(x) => Excluded(x)'
    BY <1>0, <2>1 DEF MarkExclude, Excluded
  <2> QED
    BY <1>1, <1>4, <2>1 DEF Agent, AgentPatch, AgentTouch, MarkClose, MarkAbort
<1>5. ASSUME NEW w \in Workers, Classify(w)
      PROVE  UNCHANGED muted /\ \A x \in Users : Excluded(x) => Excluded(x)'
  BY <1>0, <1>5 DEF Classify, Excluded
<1>6. ASSUME NEW w \in Workers, Step(w), ~Classify(w) PROVE UNCHANGED <<muted, byId, byName>>
  BY <1>6
  DEF Step, FindChat, CreateChat, FindCustomer, CreateCustomer, Rule1, Rule2, Revive, Create,
      Record, AckRow, AckEnqueue, Finish
<1>7. ASSUME Worker PROVE UNCHANGED muted /\ \A x \in Users : Excluded(x) => Excluded(x)'
  BY <1>1, <1>5, <1>6, <1>7 DEF Worker, Take, AckHiccup, StepFails, Crash
<1> QED
  BY <1>1, <1>2, <1>3, <1>4, <1>7 DEF Next, Tick, vars

LEMMA MuteStep == TypeInv /\ TypeInv' /\ PlaceInv /\ MuteInv /\ [Next]_vars => MuteInv'
<1> SUFFICES ASSUME TypeInv, TypeInv', PlaceInv, MuteInv, [Next]_vars PROVE MuteInv'
  OBVIOUS
<1>0. /\ Lasting
      /\ muted \subseteq Updates /\ muted' \subseteq Updates
      /\ \A u \in Updates : sent[u] # None => sent[u].from \in Users
  BY StepLasting DEF TypeInv, TypeOK, Sent
<1>1. ASSUME NEW u \in muted', u \notin muted PROVE ~Used(u)
  BY <1>1, MuteChange DEF StillMuted, Send, NextId
<1>2. ASSUME NEW u \in muted' PROVE sent'[u] # None /\ Excluded(sent[u].from)'
  <2>1. CASE UNCHANGED muted /\ \A x \in Users : Excluded(x) => Excluded(x)'
    <3>1. u \in Updates /\ sent[u] # None /\ Excluded(sent[u].from) /\ sent[u].from \in Users
      BY <1>0, <2>1, <1>2 DEF MuteInv
    <3>2. sent'[u] = sent[u]
      BY <1>0, <3>1 DEF Lasting
    <3> QED
      BY <2>1, <3>1, <3>2
  <2>2. CASE muted' = StillMuted(byId', byName') /\ UNCHANGED <<sent, rowAt, wk>>
    BY <1>2, <2>2 DEF StillMuted, MuteInv, Excluded
  <2>3. ASSUME NEW v \in Updates, NEW x \in Users, NEW r \in TgIds \union {None}, Send(v, x, r)
        PROVE  sent'[u] # None /\ Excluded(sent[u].from)'
    <3>1. UNCHANGED <<byId, byName>> /\ muted' = IF Excluded(x) THEN muted \union {v} ELSE muted
      BY <2>3 DEF Send, exclusionVars
    <3>2. CASE u \in muted
      <4>1. u \in Updates /\ sent[u] # None /\ Excluded(sent[u].from)
        BY <1>0, <3>2 DEF MuteInv
      <4>2. sent'[u] = sent[u]
        BY <1>0, <4>1 DEF Lasting
      <4> QED
        BY <3>1, <4>1, <4>2 DEF Excluded
    <3>3. CASE u \notin muted
      <4>1. u = v /\ Excluded(x)
        BY <1>2, <3>1, <3>3
      <4>2. sent'[u] = [from |-> x, replyTo |-> r] /\ [from |-> x, replyTo |-> r] \in Sent
        BY <2>3, <4>1 DEF Send, TypeInv, TypeOK, Sent
      <4> QED
        BY <3>1, <4>1, <4>2 DEF Excluded
    <3> QED
      BY <3>2, <3>3
  <2> QED
    BY <2>1, <2>2, <2>3, MuteChange
<1>3. ASSUME NEW w \in Workers, wk'[w].pc \in Classified
      PROVE  sent'[wk'[w].upd].from \notin Staff /\ wk'[w].upd \notin muted'
  <2>1. /\ wk'[w].upd = wk[w].upd /\ wk[w].pc # "idle"
        /\ \/ wk[w].pc \in Classified
           \/ UNCHANGED wk[w]
           \/ UNCHANGED muted /\ Message(w).from \notin Staff /\ ~Excluded(Message(w).from)
    BY <1>3, NewClassified
  <2>2. sent[wk[w].upd].from \notin Staff /\ wk[w].upd \notin muted
    BY <1>3, <2>1 DEF MuteInv, Message, Upd
  <2>3. wk[w].upd \in Updates /\ sent[wk[w].upd] # None
    BY <2>1 DEF TypeInv, JobInv, WorkerInv
  <2> QED
    BY <1>0, <1>1, <2>1, <2>2, <2>3 DEF Lasting, Used
<1>4. ASSUME NEW u \in Updates, NEW t \in Tickets, Stored(u, t)', sent'[u] # None
      PROVE  sent'[u].from \notin Staff /\ u \notin muted'
  <2>1. CASE Stored(u, t)
    <3>1. Used(u) /\ sent'[u] = sent[u]
      BY <2>1, NewSent DEF PlaceInv, Used
    <3> QED
      BY <1>1, <1>4, <2>1, <3>1 DEF MuteInv
  <2>2. CASE ~Stored(u, t)
    <3>1. /\ UNCHANGED <<sent, muted>>
          /\ \/ outgoing[u] = t
             \/ \E w \in Workers : wk[w].pc = "record" /\ wk[w].upd = u
      BY <1>4, <2>2, NewRow
    <3>2. outgoing[u] # t
      BY <1>4, <3>1 DEF PlaceInv
    <3> QED
      BY <3>1, <3>2 DEF MuteInv, Classified, PCs
  <2> QED
    BY <2>1, <2>2
<1> QED
  BY <1>2, <1>3, <1>4 DEF MuteInv

(* No message of an agent, or of a sender excluded since before it was     *)
(* sent, is ever in a ticket: for any number of workers, admins' changes   *)
(* and messages in flight.                                                 *)
THEOREM NonCustomersNeverTicketedHolds == Spec => []NonCustomersNeverTicketed
<1>1. Init => MuteInv
  BY DEF Init, MuteInv, Stored, IdleWorker, Classified
<1>2. MuteInv => NonCustomersNeverTicketed
  BY DEF MuteInv, NonCustomersNeverTicketed
<1> QED
  BY <1>1, <1>2, PlaceInvariant, TypeStep, MuteStep, PTL DEF Spec

-----------------------------------------------------------------------------
(* Completed jobs.  A handler near its end has its message stored, or      *)
(* nothing to store.                                                       *)

Done(w) == wk[w].pc \in {"ackRow", "ackEnqueue", "finish"}

AccountInv ==
  /\ \A x \in Users : byId[x] # "absent" \/ x \in byName => x \in Excludable
  /\ \A w \in Workers : Done(w) =>
       IF wk[w].tkt = None THEN sent[wk[w].upd].from \in Staff \union Excludable
                           ELSE Stored(wk[w].upd, wk[w].tkt)
  /\ CompletedIsAccountedFor

LEMMA OnlyExcludables ==
  ASSUME TypeInv, AccountInv, [Next]_vars, NEW x \in Users, byId'[x] # "absent" \/ x \in byName'
  PROVE  x \in Excludable
<1> USE DEF telegramVars, exclusionVars, tableVars, historyVars
<1>0. /\ byId \in [Users -> {"absent", "active", "inactive"}]
      /\ \A y \in Users : byId[y] # "absent" \/ y \in byName => y \in Excludable
  BY DEF TypeInv, TypeOK, AccountInv
<1>1. CASE UNCHANGED <<byId, byName>>
  BY <1>0, <1>1
<1>2. CASE Admin
  BY <1>0, <1>2
  DEF Admin, ExcludeById, ExcludeByName, SetActive, RemoveById, RemoveByName
<1>3. CASE Agent
  BY <1>0, <1>1, <1>3 DEF Agent, AgentPatch, AgentTouch, MarkExclude, MarkClose, MarkAbort
<1>4. ASSUME NEW w \in Workers, Classify(w) PROVE x \in Excludable
  <2>1. /\ byName' \subseteq byName
        /\ byId' = byId \/ (Message(w).from \in byName /\ byId' = [byId EXCEPT ![Message(w).from] = "active"])
    BY <1>4 DEF Classify
  <2> QED
    BY <1>0, <2>1
<1>5. ASSUME NEW w \in Workers, Step(w), ~Classify(w) PROVE UNCHANGED <<byId, byName>>
  BY <1>5
  DEF Step, FindChat, CreateChat, FindCustomer, CreateCustomer, Rule1, Rule2, Revive, Create,
      Record, AckRow, AckEnqueue, Finish
<1>6. CASE Worker
  BY <1>1, <1>4, <1>5, <1>6 DEF Worker, Take, AckHiccup, StepFails, Crash
<1>7. CASE Telegram
  BY <1>1, <1>7
  DEF Telegram, Send, Redeliver, Webhook, Evict, OutboundSend, OutboundConfirm
<1> QED
  BY <1>1, <1>2, <1>3, <1>6, <1>7 DEF Next, Tick, vars

(* What record leaves behind, whether or not the row was there before: the *)
(* row of the same Telegram id in this ticket is of the same chat, hence   *)
(* of this very message.                                                   *)
LEMMA Recorded ==
  ASSUME TypeInv, PlaceInv, [Next]_vars, NEW w \in Workers, Record(w)
  PROVE  rowAt'[wk[w].upd][wk[w].tkt] # None
<1>1. /\ wk[w].tkt \in Tickets /\ wk[w].tkt # None /\ wk[w].upd \in Updates
      /\ ticket[wk[w].tkt].chat = wk[w].upd[1]
  BY WorkerTyped DEF Record, TypeInv, WorkerInv, HoldsTicket, PlaceInv
<1>2. /\ rowAt \in [Updates -> [Tickets -> Times \union {None}]]
      /\ now # None
  BY DEF TypeInv, TypeOK, Times
<1>3. CASE AlreadyStored(wk[w].tkt, Upd(w)[2])
  <2>1. PICK v \in Updates : v[2] = Upd(w)[2] /\ Stored(v, wk[w].tkt)
    BY <1>3 DEF AlreadyStored, Stored
  <2>2. v[1] = wk[w].upd[1]
    BY <1>1, <2>1 DEF PlaceInv
  <2>3. v = wk[w].upd
    BY <1>1, <2>1, <2>2 DEF Upd
  <2> QED
    BY <1>1, <2>1, <2>3, StepLasting DEF Lasting, Stored
<1>4. CASE ~AlreadyStored(wk[w].tkt, Upd(w)[2])
  <2>1. rowAt' = [rowAt EXCEPT ![Upd(w)][wk[w].tkt] = now]
    BY <1>4 DEF Record
  <2>2. rowAt'[wk[w].upd][wk[w].tkt] = now
    BY <1>1, <1>2, <2>1 DEF Upd
  <2> QED
    BY <1>2, <2>2
<1> QED
  BY <1>3, <1>4

LEMMA DoneCases ==
  ASSUME TypeInv, [Next]_vars, NEW w \in Workers, Done(w)'
  PROVE  /\ wk'[w].upd = wk[w].upd /\ wk'[w].tkt = wk[w].tkt /\ wk[w].pc # "idle"
         /\ \/ Done(w)
            \/ Record(w) /\ wk[w].pc = "record"
            \/ /\ wk[w].pc = "classify"
               /\ Message(w).from \in Staff \/ byId[Message(w).from] = "active" \/ Message(w).from \in byName
<1> USE DEF Done
<1>1. CASE WorkerKept(w)
  BY <1>1, IdleTyped DEF WorkerKept
<1>2. CASE \E u \in Updates : Take(w, u)
  <2>1. wk'[w].pc = "classify"
    BY <1>2, IdleTyped DEF Take, TypeInv, TypeOK, WorkerState
  <2> QED
    BY <2>1
<1>3. CASE AckHiccup(w)
  BY <1>3, GotoResult DEF AckHiccup
<1>4. CASE Step(w)
  <2>1. CASE Rule1(w) \/ Rule2(w)
    <3>1. ASSUME NEW t \in Tickets, AttachedTo(w, t) PROVE wk'[w].pc \in {"revive", "record"}
      BY <3>1 DEF AttachedTo
    <3>2. Goto(w, "rule2") => wk'[w].pc = "rule2"
      BY GotoResult
    <3> QED
      BY <2>1, <3>1, <3>2, Rule1Result, Rule2Result
  <2>2. CASE Create(w)
    BY <2>2, CreateResult DEF CreatedFor
  <2>3. CASE Finish(w)
    BY <2>3, IdleResult DEF Finish
  <2>4. CASE Classify(w)
    <3>1. ~Throw(w) /\ ~Goto(w, "findChat")
      BY GotoResult, IdleResult DEF Throw
    <3> QED
      BY <2>4, <3>1, GotoResult DEF Classify, ExcludedById
  <2>5. CASE FindChat(w) \/ CreateChat(w)
    BY <2>5, GotoResult, IdleResult DEF FindChat, CreateChat, Throw
  <2>6. CASE FindCustomer(w) \/ CreateCustomer(w)
    BY <2>6, GotoResult, GroupResult, IdleResult DEF FindCustomer, CreateCustomer, Throw
  <2>7. CASE Revive(w)
    BY <2>7, GotoResult DEF Revive
  <2>8. CASE Record(w)
    BY <2>8, GotoResult DEF Record
  <2>9. CASE AckRow(w) \/ AckEnqueue(w)
    BY <2>9, GotoResult DEF AckRow, AckEnqueue
  <2> QED
    BY <1>4, <2>1, <2>2, <2>3, <2>4, <2>5, <2>6, <2>7, <2>8, <2>9 DEF Step
<1> QED
  BY <1>1, <1>2, <1>3, <1>4, WorkerCases

(* A job is completed by its handler's return and by nothing else. *)
LEMMA NewCompleted ==
  ASSUME TypeInv, [Next]_vars, NEW u \in Updates, job'[u].state = "completed", job[u].state # "completed"
  PROVE  \E w \in Workers : Finish(w) /\ wk[w].pc = "finish" /\ wk[w].upd = u
<1> USE DEF telegramVars, exclusionVars, tableVars, historyVars
<1>0. job \in [Updates -> Job]
  BY DEF TypeInv, TypeOK
<1>1. ASSUME NEW v \in Updates, NEW j, job' = [job EXCEPT ![v] = j], j.state # "completed" PROVE FALSE
  BY <1>0, <1>1
<1>2. ASSUME NEW v \in Updates, NEW s, s # "completed", job' = [job EXCEPT ![v].state = s] PROVE FALSE
  BY <1>0, <1>2 DEF Job
<1>3. \A j \in Job : AfterFailure(j).state # "completed" /\ AfterStall(j).state # "completed"
  BY DEF Job, AfterFailure, AfterStall
<1>4. ASSUME NEW w \in Workers, wk[w].pc # "idle", Throw(w) PROVE FALSE
  <2>1. Upd(w) \in Updates
    BY <1>4 DEF TypeInv, WorkerInv, Upd
  <2>2. job' = [job EXCEPT ![Upd(w)] = AfterFailure(job[Upd(w)])] /\ job[Upd(w)] \in Job
    BY <1>0, <1>4, <2>1 DEF Throw
  <2> QED
    BY <1>1, <1>3, <2>1, <2>2
<1>5. ASSUME NEW w \in Workers, Crash(w) PROVE FALSE
  <2>1. Upd(w) \in Updates
    BY <1>5 DEF Crash, TypeInv, WorkerInv, Upd
  <2>2. job' = [job EXCEPT ![Upd(w)] = AfterStall(job[Upd(w)])] /\ job[Upd(w)] \in Job
    BY <1>0, <1>5, <2>1 DEF Crash
  <2> QED
    BY <1>1, <1>3, <2>1, <2>2
<1>6. ~UNCHANGED job
  OBVIOUS
<1>7. ~UNCHANGED vars /\ ~Tick /\ ~Admin /\ ~Agent
  BY <1>6
  DEF vars, Tick, Admin, Agent, ExcludeById, ExcludeByName, SetActive, RemoveById, RemoveByName,
      AgentPatch, AgentTouch, MarkExclude, MarkClose, MarkAbort
<1>8. ASSUME Telegram PROVE FALSE
  <2>1. PICK v \in Updates : Webhook(v) \/ Evict(v)
    BY <1>6, <1>8 DEF Telegram, Send, Redeliver, OutboundSend, OutboundConfirm
  <2>2. CASE Webhook(v)
    BY <1>2, <1>6, <2>2 DEF Webhook
  <2>3. CASE Evict(v)
    BY <1>1, <2>3 DEF Evict, NoJob
  <2> QED
    BY <2>1, <2>2, <2>3
<1>9. ASSUME NEW w \in Workers, NEW v \in Updates, Take(w, v) PROVE FALSE
  BY <1>2, <1>9 DEF Take
<1>10. ASSUME NEW w \in Workers, Step(w) PROVE Finish(w)
  BY <1>4, <1>6, <1>10
  DEF Step, Classify, FindChat, CreateChat, FindCustomer, CreateCustomer, Rule1, Rule2, Revive,
      Create, Record, AckRow, AckEnqueue
<1>11. PICK w \in Workers : Finish(w)
  BY <1>4, <1>5, <1>6, <1>7, <1>8, <1>9, <1>10 DEF Next, Worker, AckHiccup, StepFails
<1>12. wk[w].pc = "finish" /\ wk[w].upd \in Updates /\ job' = [job EXCEPT ![wk[w].upd].state = "completed"]
  BY <1>11 DEF Finish, Upd, TypeInv, WorkerInv
<1> QED
  BY <1>0, <1>11, <1>12

LEMMA IgnoredGrow == TypeInv /\ [Next]_vars => ignored \subseteq ignored'
<1> SUFFICES ASSUME TypeInv, [Next]_vars PROVE ignored \subseteq ignored'
  OBVIOUS
<1> USE DEF telegramVars, exclusionVars, tableVars, historyVars
<1>1. ASSUME Telegram \/ Admin \/ Agent \/ Tick \/ UNCHANGED vars PROVE UNCHANGED ignored
  BY <1>1
  DEF vars, Tick, Telegram, Admin, Agent, Send, Redeliver, Webhook, Evict, OutboundSend,
      OutboundConfirm, ExcludeById, ExcludeByName, SetActive, RemoveById, RemoveByName,
      AgentPatch, AgentTouch, MarkExclude, MarkClose, MarkAbort
<1>2. ASSUME NEW w \in Workers, Step(w) PROVE ignored \subseteq ignored'
  BY <1>2
  DEF Step, Classify, FindChat, CreateChat, FindCustomer, CreateCustomer, Rule1, Rule2, Revive,
      Create, Record, AckRow, AckEnqueue, Finish
<1> QED
  BY <1>1, <1>2 DEF Next, Worker, Take, AckHiccup, StepFails, Crash

LEMMA AccountStep == TypeInv /\ TypeInv' /\ PlaceInv /\ AccountInv /\ [Next]_vars => AccountInv'
<1> SUFFICES ASSUME TypeInv, TypeInv', PlaceInv, AccountInv, [Next]_vars PROVE AccountInv'
  OBVIOUS
<1>0. Lasting
  BY StepLasting
<1>1. ASSUME NEW w \in Workers, Done(w)'
      PROVE  IF wk'[w].tkt = None THEN sent'[wk'[w].upd].from \in Staff \union Excludable
                                  ELSE rowAt'[wk'[w].upd][wk'[w].tkt] # None
  <2>1. /\ wk'[w].upd = wk[w].upd /\ wk'[w].tkt = wk[w].tkt /\ wk[w].pc # "idle"
        /\ \/ Done(w)
           \/ Record(w) /\ wk[w].pc = "record"
           \/ /\ wk[w].pc = "classify"
              /\ \/ Message(w).from \in Staff
                 \/ byId[Message(w).from] = "active"
                 \/ Message(w).from \in byName
    BY <1>1, DoneCases
  <2>2. wk[w].upd \in Updates /\ sent[wk[w].upd] # None /\ sent'[wk[w].upd] = sent[wk[w].upd]
    BY <1>0, <2>1 DEF TypeInv, JobInv, WorkerInv, Lasting
  <2>3. wk[w].tkt # None => wk[w].tkt \in Tickets
    BY WorkerTyped
  <2>4. CASE Done(w)
    BY <1>0, <2>1, <2>2, <2>3, <2>4 DEF AccountInv, Lasting, Stored
  <2>5. CASE Record(w) /\ wk[w].pc = "record"
    BY <2>1, <2>5, Recorded DEF TypeInv, WorkerInv, HoldsTicket
  <2>6. CASE /\ wk[w].pc = "classify"
             /\ \/ Message(w).from \in Staff
                \/ byId[Message(w).from] = "active"
                \/ Message(w).from \in byName
    <3>1. wk[w].tkt = None
      BY <2>6 DEF TypeInv, WorkerInv, Undecided
    <3>2. Message(w).from \in Users
      BY <2>2 DEF TypeInv, TypeOK, Sent, Message, Upd
    <3>3. Message(w).from \in Staff \union Excludable
      BY <2>6, <3>2 DEF AccountInv
    <3> QED
      BY <2>1, <2>2, <3>1, <3>3 DEF Message, Upd
  <2> QED
    BY <2>1, <2>4, <2>5, <2>6
<1>2. ASSUME NEW u \in Updates, job'[u].state = "completed"
      PROVE  \/ \E t \in Tickets : Stored(u, t)'
             \/ u \in ignored' /\ sent'[u].from \in Staff \union Excludable
  <2>1. CASE job[u].state = "completed"
    <3>1. sent'[u] = sent[u]
      BY <1>0, <2>1 DEF TypeInv, JobInv, Lasting
    <3> QED
      BY <1>0, <2>1, <3>1, IgnoredGrow DEF AccountInv, CompletedIsAccountedFor, Lasting
  <2>2. CASE job[u].state # "completed"
    <3>1. PICK w \in Workers : Finish(w) /\ wk[w].pc = "finish" /\ wk[w].upd = u
      BY <1>2, <2>2, NewCompleted
    <3>2. IF wk[w].tkt = None THEN sent[u].from \in Staff \union Excludable ELSE Stored(u, wk[w].tkt)
      BY <3>1 DEF AccountInv, Done
    <3>3. UNCHANGED <<sent, rowAt>> /\ (wk[w].tkt = None => u \in ignored')
      BY <3>1 DEF Finish, Upd, telegramVars, tableVars
    <3>4. wk[w].tkt # None => wk[w].tkt \in Tickets
      BY WorkerTyped
    <3> QED
      BY <3>2, <3>3, <3>4 DEF Stored
  <2> QED
    BY <2>1, <2>2
<1>3. (\A x \in Users : byId[x] # "absent" \/ x \in byName => x \in Excludable)'
  BY OnlyExcludables
<1> QED
  BY <1>1, <1>2, <1>3 DEF AccountInv, CompletedIsAccountedFor, Stored

(* No job reports success on a message that is in no ticket and whose      *)
(* sender was never an agent or excluded: for any number of attempts,      *)
(* workers, crashes and lost races.                                        *)
THEOREM CompletedIsAccountedForHolds == Spec => []CompletedIsAccountedFor
<1>1. Init => AccountInv
  BY DEF Init, AccountInv, CompletedIsAccountedFor, Done, IdleWorker, NoJob
<1>2. AccountInv => CompletedIsAccountedFor
  BY DEF AccountInv
<1> QED
  BY <1>1, <1>2, PlaceInvariant, TypeStep, AccountStep, PTL DEF Spec

-----------------------------------------------------------------------------
(* Split threads.  What a handler found idle stays idle: rows are no newer *)
(* than their ticket's last change, which is no later than now.            *)

SplitInv ==
  /\ \A t \in Tickets : ticket[t] # None => ticket[t].updatedAt <= now
  /\ \A w \in Workers : wk[w].at <= now
  /\ \A u \in Updates, t \in Tickets : Stored(u, t) /\ sent[u] # None =>
       rowAt[u][t] <= ticket[t].updatedAt
  /\ NoSplitThread

(* When a customer has a live thread, the query finds one, and no staler.  *)
LEMMA ActiveSome ==
  ASSUME TypeInv, NEW t \in Tickets, Live(t)
  PROVE  \E f \in FindMostRecentActiveTicket(ticket, ticket[t].chat, ticket[t].customer) :
           f \in Tickets /\ ticket[t].updatedAt <= ticket[f].updatedAt
<1> DEFINE S == {s \in ActiveTickets(ticket, ticket[t].chat) : ticket[s].customer = ticket[t].customer}
           D == {MaxTime - ticket[s].updatedAt : s \in S}
           R == OpToRel(<, Nat)
<1>1. t \in S /\ \A s \in S : s \in Tickets /\ ticket[s] \in TicketRow
  BY DEF ActiveTickets, Live, TypeInv, TypeOK
<1>2. \A s \in S : ticket[s].updatedAt \in 0 .. MaxTime
  BY <1>1 DEF TicketRow, Times
<1>3. \A s \in S : MaxTime - ticket[s].updatedAt \in Nat
  <2> HIDE DEF S
  <2> QED
    BY <1>2
<1>4. D \subseteq Nat /\ D # {}
  BY <1>1, <1>3
<1>5. IsWellFoundedOn(R, Nat)
  BY NatLessThanWellFounded
<1>51. \A m, n \in Nat : <<m, n>> \in R <=> m < n
  BY DEF OpToRel
<1>6. PICK d \in D : \A e \in D : ~ (<<e, d>> \in R)
  <2> HIDE DEF D, R
  <2> QED
    BY <1>4, <1>5, WFMin
<1>7. \A e \in D : e \in Nat /\ d \in Nat /\ ~ (e < d)
  <2> HIDE DEF D, R
  <2> QED
    BY <1>4, <1>51, <1>6
<1>8. PICK f \in S : d = MaxTime - ticket[f].updatedAt
  BY <1>7
<1>9. \A s \in S : ~ (MaxTime - ticket[s].updatedAt < MaxTime - ticket[f].updatedAt)
  BY <1>7, <1>8
<1>10. \A s \in S : ticket[s].updatedAt <= ticket[f].updatedAt
  <2> HIDE DEF S
  <2> QED
    BY <1>2, <1>9
<1>11. f \in FindMostRecentActiveTicket(ticket, ticket[t].chat, ticket[t].customer)
  BY <1>10 DEF FindMostRecentActiveTicket, Latest
<1> QED
  BY <1>1, <1>10, <1>11

(* Every write of a ticket row stamps it with the time of the write.       *)
LEMMA Stamped ==
  ASSUME TypeInv, [Next]_vars
  PROVE  /\ now <= now'
         /\ \A t \in Tickets : ticket'[t] = ticket[t] \/ ticket'[t].updatedAt = now'
<1> USE DEF telegramVars, exclusionVars, tableVars, historyVars
<1> DEFINE Stamps == /\ now <= now'
                     /\ \A t \in Tickets : ticket'[t] = ticket[t] \/ ticket'[t].updatedAt = now'
<1>0. now \in Nat /\ ticket \in [Tickets -> TicketRow \union {None}]
  BY DEF TypeInv, TypeOK, Times
<1>1. ASSUME UNCHANGED ticket, UNCHANGED now \/ now' = now + 1 PROVE Stamps
  BY <1>0, <1>1
<1>2. ASSUME NEW q \in Tickets, NEW r, r.updatedAt = now, ticket' = [ticket EXCEPT ![q] = r], UNCHANGED now
      PROVE  Stamps
  BY <1>0, <1>2
<1>3. ASSUME NEW q \in Tickets, ticket[q] # None, NEW s, NEW for, SetStatus(q, s, for), UNCHANGED now
      PROVE  Stamps
  <2>1. ticket[q] \in TicketRow
    BY <1>0, <1>3
  <2>2. [ticket[q] EXCEPT !.status = s, !.updatedAt = now].updatedAt = now
    BY <2>1 DEF TicketRow
  <2> QED
    BY <1>2, <1>3, <2>2 DEF SetStatus
<1>4. ASSUME NEW t \in Tickets, AgentTouch(t) PROVE Stamps
  <2>1. ticket[t] \in TicketRow
    BY <1>0, <1>4 DEF AgentTouch
  <2>2. [ticket[t] EXCEPT !.updatedAt = now].updatedAt = now
    BY <2>1 DEF TicketRow
  <2> QED
    BY <1>2, <1>4, <2>2 DEF AgentTouch
<1>5. ASSUME Agent PROVE Stamps
  <2>1. \A t \in marking : t \in Tickets /\ ticket[t] # None
    BY DEF TypeInv, TypeOK, TicketInv
  <2> QED
    BY <2>1, <1>1, <1>3, <1>4, <1>5 DEF Agent, AgentPatch, MarkClose, MarkExclude, MarkAbort
<1>6. ASSUME NEW w \in Workers, Revive(w) PROVE Stamps
  <2>1. wk[w].tkt \in Tickets /\ ticket[wk[w].tkt] # None
    BY <1>6, WorkerTyped DEF Revive, TypeInv, WorkerInv, HoldsTicket
  <2> QED
    BY <1>3, <1>6, <2>1 DEF Revive
<1>7. ASSUME NEW w \in Workers, Create(w) PROVE Stamps
  BY <1>2, <1>7 DEF Create
<1>8. ASSUME NEW w \in Workers, Record(w) PROVE Stamps
  <2>1. wk[w].tkt \in Tickets /\ ticket[wk[w].tkt] \in TicketRow
    BY <1>0, <1>8, WorkerTyped DEF Record, TypeInv, WorkerInv, HoldsTicket
  <2>2. \A g : [ticket[wk[w].tkt] EXCEPT !.lastClient = g, !.updatedAt = now].updatedAt = now
    BY <2>1 DEF TicketRow
  <2>3. UNCHANGED now /\ (UNCHANGED ticket \/ \E g : ticket' = [ticket EXCEPT ![wk[w].tkt] =
                                               [@ EXCEPT !.lastClient = g, !.updatedAt = now]])
    BY <1>8 DEF Record
  <2> HIDE DEF Stamps
  <2> QED
    BY <1>1, <1>2, <2>1, <2>2, <2>3
<1>9. ASSUME NEW w \in Workers, Step(w) PROVE Stamps
  BY <1>1, <1>6, <1>7, <1>8, <1>9
  DEF Step, Classify, FindChat, CreateChat, FindCustomer, CreateCustomer, Rule1, Rule2, AckRow,
      AckEnqueue, Finish
<1> HIDE DEF Stamps
<1>10. Stamps
  BY <1>1, <1>5, <1>9
  DEF Next, vars, Tick, Telegram, Send, Redeliver, Webhook, Evict, OutboundSend, OutboundConfirm,
      Admin, ExcludeById, ExcludeByName, SetActive, RemoveById, RemoveByName,
      Worker, Take, AckHiccup, StepFails, Crash
<1> QED
  BY <1>10 DEF Stamps

(* Where agents do not reopen, only a handler makes a thread live.         *)
LEMMA BackToLife ==
  ASSUME TypeInv, [Next]_vars, ~AgentsReopen, NEW t \in Tickets, Live(t)', ~Live(t)
  PROVE  \E w \in Workers : Revive(w) \/ Create(w)
<1> USE DEF telegramVars, exclusionVars, tableVars, historyVars
<1>1. ticket'[t] # ticket[t] /\ ticket'[t] # None /\ ticket'[t].status \notin Terminal
  BY DEF Live
<1>2. ASSUME NEW q \in Tickets, ticket[q] # None, NEW s \in Statuses, NEW for, SetStatus(q, s, for),
             Live(q) \/ s \in Terminal
      PROVE  FALSE
  <2>1. q = t
    BY <1>1, <1>2 DEF SetStatus, TypeInv, TypeOK
  <2> QED
    BY <1>1, <1>2, <2>1, StatusEdited
<1>3. ASSUME Agent PROVE FALSE
  <2>1. ASSUME NEW q \in Tickets, NEW s \in PatchStatuses, AgentPatch(q, s) PROVE FALSE
    BY <2>1, <1>2 DEF AgentPatch
  <2>2. ASSUME NEW q \in Tickets, MarkClose(q) PROVE FALSE
    BY <2>2, <1>2 DEF MarkClose, TypeInv, TicketInv, Statuses, Terminal
  <2>3. ASSUME NEW q \in Tickets, AgentTouch(q) PROVE FALSE
    <3>1. q = t
      BY <1>1, <2>3 DEF AgentTouch, TypeInv, TypeOK
    <3> QED
      BY <1>1, <2>3, <3>1, TimeEdited DEF AgentTouch, Live
  <2> QED
    BY <1>1, <1>3, <2>1, <2>2, <2>3 DEF Agent, MarkExclude, MarkAbort
<1>4. ASSUME NEW w \in Workers, Record(w) PROVE FALSE
  <2>1. /\ wk[w].tkt \in Tickets /\ ticket[wk[w].tkt] # None
        /\ Upd(w) \in Updates /\ Upd(w)[2] \in TgIds
    BY <1>4, WorkerTyped DEF Record, TypeInv, WorkerInv, HoldsTicket, Upd, TgIds
  <2>2. wk[w].tkt = t
    BY <1>1, <1>4 DEF Record, TypeInv, TypeOK
  <2>3. ticket'[t].status = ticket[t].status
    BY <1>1, <1>4, <2>1, <2>2, LastClientEdited DEF Record
  <2> QED
    BY <1>1, <2>1, <2>2, <2>3 DEF Live
<1>5. ASSUME NEW w \in Workers, Step(w) PROVE Revive(w) \/ Create(w)
  BY <1>1, <1>4, <1>5
  DEF Step, Classify, FindChat, CreateChat, FindCustomer, CreateCustomer, Rule1, Rule2, AckRow,
      AckEnqueue, Finish
<1> QED
  BY <1>1, <1>3, <1>5
  DEF Next, vars, Tick, Telegram, Send, Redeliver, Webhook, Evict, OutboundSend, OutboundConfirm,
      Admin, ExcludeById, ExcludeByName, SetActive, RemoveById, RemoveByName,
      Worker, Take, AckHiccup, StepFails, Crash

(* A handler comes to `create` from rule 2 and stays there until it steps. *)
LEMMA CreateCases ==
  ASSUME TypeInv, [Next]_vars, NEW w \in Workers, wk'[w].pc = "create"
  PROVE  \/ wk[w].pc = "create" /\ wk'[w] = wk[w]
         \/ Rule2(w) /\ wk'[w].upd = wk[w].upd /\ wk[w].upd \in Updates
<1>1. CASE WorkerKept(w)
  BY <1>1, IdleTyped DEF WorkerKept
<1>2. CASE \E u \in Updates : Take(w, u)
  <2>1. wk'[w].pc = "classify"
    BY <1>2, IdleTyped DEF Take, TypeInv, TypeOK, WorkerState
  <2> QED
    BY <2>1
<1>3. CASE AckHiccup(w)
  BY <1>3, GotoResult DEF AckHiccup
<1>4. CASE Step(w)
  <2>1. CASE Rule1(w)
    <3>1. ASSUME NEW t \in Tickets, AttachedTo(w, t) PROVE wk'[w].pc \in {"revive", "record"}
      BY <3>1 DEF AttachedTo
    <3>2. Goto(w, "rule2") => wk'[w].pc = "rule2"
      BY GotoResult
    <3> QED
      BY <2>1, <3>1, <3>2, Rule1Result
  <2>2. CASE Rule2(w)
    <3>1. ASSUME NEW t \in Tickets, AttachedTo(w, t) PROVE FALSE
      BY <3>1 DEF AttachedTo
    <3>2. wk'[w].upd = wk[w].upd
      BY <2>2, <3>1, Rule2Result
    <3> QED
      BY <2>2, <3>2 DEF Rule2, TypeInv, WorkerInv
  <2>3. CASE Create(w)
    BY <2>3, CreateResult DEF CreatedFor
  <2>4. CASE Finish(w)
    BY <2>4, IdleResult DEF Finish
  <2>5. CASE Classify(w)
    BY <2>5, GotoResult, IdleResult DEF Classify, Throw
  <2>6. CASE FindChat(w) \/ CreateChat(w)
    BY <2>6, GotoResult, IdleResult DEF FindChat, CreateChat, Throw
  <2>7. CASE FindCustomer(w) \/ CreateCustomer(w)
    BY <2>7, GotoResult, GroupResult, IdleResult DEF FindCustomer, CreateCustomer, Throw
  <2>8. CASE Revive(w)
    BY <2>8, GotoResult DEF Revive
  <2>9. CASE Record(w)
    BY <2>9, GotoResult DEF Record
  <2>10. CASE AckRow(w) \/ AckEnqueue(w)
    BY <2>10, GotoResult DEF AckRow, AckEnqueue
  <2> QED
    BY <1>4, <2>1, <2>2, <2>3, <2>4, <2>5, <2>6, <2>7, <2>8, <2>9, <2>10 DEF Step
<1> QED
  BY <1>1, <1>2, <1>3, <1>4, WorkerCases

(* Rule 2 decides on a new ticket only past the idle window of the freshest*)
(* thread, hence of every thread.                                          *)
LEMMA AllIdle ==
  ASSUME TypeInv, SplitInv, NEW w \in Workers, Rule2(w), wk'[w].pc = "create",
         NEW t \in Tickets, Live(t),
         ticket[t].chat = ChatOf(w), ticket[t].customer = Message(w).from
  PROVE  ticket[t].updatedAt + IdleWindow <= now
<1> DEFINE found == FindMostRecentActiveTicket(ticket, ChatOf(w), Message(w).from)
<1>1. PICK g \in found : g \in Tickets /\ ticket[t].updatedAt <= ticket[g].updatedAt
  BY ActiveSome
<1>2. PICK f \in found : /\ ~ ActiveMatches(ticket[f], wk[w].at, IdleWindow)
                         /\ f \in Tickets /\ ticket[f] # None /\ ticket[f].status \notin Terminal
  <2>1. PICK f \in found : wk' = [wk EXCEPT ![w] =
                IF ActiveMatches(ticket[f], wk[w].at, IdleWindow)
                THEN Attach(w, f) ELSE [wk[w] EXCEPT !.pc = "create", !.at = 0]]
    BY <1>1 DEF Rule2
  <2>2. f \in Tickets /\ ticket[f] # None /\ ticket[f].status \notin Terminal
    BY ActiveFound DEF TypeInv, TypeOK
  <2>3. ~ ActiveMatches(ticket[f], wk[w].at, IdleWindow)
    BY <2>1, <2>2, AttachResult
  <2> QED
    BY <2>2, <2>3
<1>3. ticket[g].updatedAt <= ticket[f].updatedAt
  <2>1. g \in {s \in ActiveTickets(ticket, ChatOf(w)) : ticket[s].customer = Message(w).from}
    BY DEF FindMostRecentActiveTicket, Latest
  <2> QED
    BY <2>1 DEF FindMostRecentActiveTicket, Latest
<1>4. g \in Tickets /\ ticket[g] # None
  BY <1>1, ActiveFound
<1>5. /\ ticket[f] \in TicketRow /\ ticket[g] \in TicketRow /\ ticket[t] \in TicketRow
      /\ wk[w] \in WorkerState /\ now \in Times
  BY <1>2, <1>4 DEF TypeInv, TypeOK, Live
<1>6. /\ ticket[f].updatedAt \in Nat /\ ticket[g].updatedAt \in Nat /\ ticket[t].updatedAt \in Nat
      /\ wk[w].at \in Nat /\ now \in Nat /\ ticket[f].status \in Reopenable
  BY <1>2, <1>5 DEF TicketRow, WorkerState, Times, Statuses
<1>7. ~ (wk[w].at - ticket[f].updatedAt < IdleWindow)
  BY <1>2, <1>6 DEF ActiveMatches, WithinIdleWindow
<1>8. wk[w].at <= now
  BY DEF SplitInv
<1> QED
  BY <1>1, <1>3, <1>6, <1>7, <1>8

(* Rows keep their time; a new row of a customer's message is stamped      *)
(* together with its ticket.                                               *)
LEMMA RowTimes ==
  ASSUME TypeInv, PlaceInv, [Next]_vars, NEW u \in Updates, NEW t \in Tickets,
         Stored(u, t)', sent'[u] # None
  PROVE  \/ Stored(u, t) /\ sent[u] # None /\ rowAt'[u][t] = rowAt[u][t]
         \/ rowAt'[u][t] = now' /\ ticket'[t].updatedAt = now' /\ \E w \in Workers : Record(w)
<1> USE DEF telegramVars, exclusionVars, tableVars, historyVars
<1>0. rowAt \in [Updates -> [Tickets -> Times \union {None}]]
  BY DEF TypeInv, TypeOK
<1>1. CASE Stored(u, t)
  <2>1. sent[u] # None
    BY <1>1, NewSent DEF PlaceInv, Used
  <2>2. ASSUME NEW v \in Updates, OutboundConfirm(v) PROVE rowAt'[u][t] = rowAt[u][t]
    BY <1>0, <1>1, <2>2 DEF OutboundConfirm, Stored
  <2>3. ASSUME NEW w \in Workers, Record(w) PROVE rowAt'[u][t] = rowAt[u][t]
    <3>1. Upd(w) \in Updates
      BY <2>3, WorkerTyped DEF Record, TypeInv, WorkerInv, Upd
    <3>2. rowAt[Upd(w)][wk[w].tkt] = None \/ UNCHANGED rowAt
      BY <2>3, <3>1 DEF Record, AlreadyStored
    <3> QED
      BY <1>0, <1>1, <2>3, <3>1, <3>2 DEF Record, Stored
  <2>4. ASSUME Telegram \/ Admin \/ Agent \/ Tick \/ UNCHANGED vars PROVE rowAt'[u][t] = rowAt[u][t]
    BY <2>2, <2>4
    DEF vars, Tick, Telegram, Admin, Agent, Send, Redeliver, Webhook, Evict, OutboundSend,
        ExcludeById, ExcludeByName, SetActive, RemoveById, RemoveByName,
        AgentPatch, AgentTouch, MarkExclude, MarkClose, MarkAbort
  <2>5. ASSUME NEW w \in Workers, Step(w) PROVE rowAt'[u][t] = rowAt[u][t]
    BY <2>3, <2>5
    DEF Step, Classify, FindChat, CreateChat, FindCustomer, CreateCustomer, Rule1, Rule2, Revive,
        Create, AckRow, AckEnqueue, Finish
  <2>6. rowAt'[u][t] = rowAt[u][t]
    BY <2>4, <2>5 DEF Next, Worker, Take, AckHiccup, StepFails, Crash
  <2> QED
    BY <1>1, <2>1, <2>6
<1>2. CASE ~Stored(u, t)
  <2>1. outgoing[u] # t
    BY <1>2, NewRow DEF PlaceInv
  <2>2. PICK w \in Workers : Record(w) /\ wk[w].upd = u /\ wk[w].tkt = t
    BY <1>2, <2>1, NewRow
  <2>3. /\ rowAt' = [rowAt EXCEPT ![u][t] = now] /\ UNCHANGED now
        /\ ticket' = [ticket EXCEPT ![t] = [@ EXCEPT !.lastClient = u[2], !.updatedAt = now]]
    BY <1>2, <2>2 DEF Record, Upd, Stored
  <2>4. rowAt'[u][t] = now'
    BY <1>0, <2>3
  <2>5. ticket[t] \in TicketRow /\ ticket \in [Tickets -> TicketRow \union {None}]
    BY <2>2, WorkerTyped DEF Record, TypeInv, TypeOK, WorkerInv, HoldsTicket
  <2>6. ticket'[t] = [ticket[t] EXCEPT !.lastClient = u[2], !.updatedAt = now]
    BY <2>3, <2>5
  <2>7. ticket'[t].updatedAt = now'
    BY <2>3, <2>5, <2>6 DEF TicketRow
  <2> QED
    BY <2>2, <2>4, <2>7
<1> QED
  BY <1>1, <1>2

(* The clock a handler has read is in the past. *)
LEMMA ReadClock ==
  ASSUME TypeInv, SplitInv, [Next]_vars, NEW w \in Workers
  PROVE  wk'[w].at <= now'
<1> USE DEF telegramVars, exclusionVars, tableVars, historyVars
<1>1. wk[w] \in WorkerState /\ wk \in [Workers -> WorkerState] /\ now \in Nat
  BY DEF TypeInv, TypeOK, Times
<1>2. wk[w].at \in Nat /\ wk[w].at <= now /\ now <= now'
  BY <1>1, Stamped DEF WorkerState, Times, SplitInv
<1>3. wk'[w].at = wk[w].at \/ wk'[w].at = 0 \/ wk'[w].at = now
  <2>1. ASSUME NEW v \in Workers, NEW r, wk' = [wk EXCEPT ![v] = r],
               r.at = wk[v].at \/ r.at = 0 \/ r.at = now
        PROVE  wk'[w].at = wk[w].at \/ wk'[w].at = 0 \/ wk'[w].at = now
    BY <1>1, <2>1
  <2> DEFINE Clock == wk'[w].at = wk[w].at \/ wk'[w].at = 0 \/ wk'[w].at = now
  <2>2. ASSUME UNCHANGED wk PROVE Clock
    BY <2>2
  <2>3. \A v \in Workers : wk[v] \in WorkerState
    BY <1>1
  <2>4. ASSUME NEW v \in Workers, wk' = [wk EXCEPT ![v] = IdleWorker] PROVE Clock
    BY <2>1, <2>4 DEF IdleWorker
  <2>5. ASSUME NEW v \in Workers, NEW pc, Goto(v, pc) PROVE Clock
    <3>1. [wk[v] EXCEPT !.pc = pc].at = wk[v].at
      BY <2>3 DEF WorkerState
    <3> QED
      BY <2>1, <2>5, <3>1 DEF Goto
  <2>6. ASSUME NEW v \in Workers, StartGrouping(v) PROVE Clock
    <3>1. \A pc : [wk[v] EXCEPT !.pc = pc, !.at = now].at = now
      BY <2>3 DEF WorkerState
    <3> QED
      BY <2>1, <2>6, <3>1 DEF StartGrouping
  <2>7. ASSUME NEW v \in Workers, NEW t, wk' = [wk EXCEPT ![v] = Attach(v, t)] PROVE Clock
    <3>1. Attach(v, t).at = 0
      BY <2>3 DEF WorkerState, Attach
    <3> QED
      BY <2>1, <2>7, <3>1
  <2>8. ASSUME NEW v \in Workers, Rule1(v) \/ Rule2(v) PROVE Clock
    <3>1. \/ \E t : wk' = [wk EXCEPT ![v] = Attach(v, t)]
          \/ Goto(v, "rule2")
          \/ wk' = [wk EXCEPT ![v] = [wk[v] EXCEPT !.pc = "create", !.at = 0]]
      BY <2>8 DEF Rule1, Rule2, Goto
    <3>2. [wk[v] EXCEPT !.pc = "create", !.at = 0].at = 0
      BY <2>3 DEF WorkerState
    <3> QED
      BY <2>1, <2>5, <2>7, <3>1, <3>2
  <2>9. ASSUME NEW v \in Workers, Create(v) PROVE Clock
    <3>1. \A t : [wk[v] EXCEPT !.pc = "record", !.tkt = t, !.isNew = TRUE].at = wk[v].at
      BY <2>3 DEF WorkerState
    <3>2. \E t : wk' = [wk EXCEPT ![v] = [wk[v] EXCEPT !.pc = "record", !.tkt = t, !.isNew = TRUE]]
      BY <2>9 DEF Create
    <3> QED
      BY <2>1, <3>1, <3>2
  <2>10. ASSUME NEW v \in Workers, NEW u, Take(v, u) PROVE Clock
    <3>1. [IdleWorker EXCEPT !.pc = "classify", !.upd = u].at = 0
      BY DEF IdleWorker
    <3> QED
      BY <2>1, <2>10, <3>1 DEF Take
  <2> HIDE DEF Clock
  <2>11. ASSUME NEW v \in Workers, Step(v) PROVE Clock
    BY <2>4, <2>5, <2>6, <2>8, <2>9, <2>11
    DEF Step, Classify, FindChat, CreateChat, FindCustomer, CreateCustomer, Revive, Record, AckRow,
        AckEnqueue, Finish, Throw
  <2>12. ASSUME NEW v \in Workers, AckHiccup(v) \/ StepFails(v) \/ Crash(v) PROVE Clock
    BY <2>4, <2>5, <2>12 DEF AckHiccup, StepFails, Crash, Throw
  <2>13. ASSUME Telegram \/ Admin \/ Agent \/ Tick \/ UNCHANGED vars PROVE UNCHANGED wk
    BY <2>13
    DEF vars, Tick, Telegram, Admin, Agent, Send, Redeliver, Webhook, Evict, OutboundSend,
        OutboundConfirm, ExcludeById, ExcludeByName, SetActive, RemoveById, RemoveByName,
        AgentPatch, AgentTouch, MarkExclude, MarkClose, MarkAbort
  <2>14. Clock
    BY <2>2, <2>10, <2>11, <2>12, <2>13 DEF Next, Worker
  <2> QED
    BY <2>14 DEF Clock
<1>4. now' \in Nat
  BY TypeStep DEF TypeInv, TypeOK, Times
<1> QED
  BY <1>1, <1>2, <1>3, <1>4

(* While the only handler is about to create, nobody adds to a thread, and *)
(* no closed thread becomes live.                                          *)
LEMMA SplitStep ==
  ASSUME TypeInv, TypeInv', PlaceInv, SplitInv, [Next]_vars,
         ~AgentsReopen, \A v, w \in Workers : v = w
  PROVE  SplitInv'
<1>0. Lasting /\ OwnersKept
  BY StepLasting DEF Lasting
<1>1. /\ now \in Nat /\ now' \in Nat /\ now <= now'
      /\ \A t \in Tickets : ticket'[t] = ticket[t] \/ ticket'[t].updatedAt = now'
  BY Stamped DEF TypeInv, TypeOK, Times
<1>2. \A t \in Tickets : ticket[t] # None => ticket[t].updatedAt \in Nat
  <2>1. \A t \in Tickets : ticket[t] # None => ticket[t] \in TicketRow
    BY DEF TypeInv, TypeOK
  <2> QED
    BY <2>1 DEF TicketRow, Times
<1>3. \A t \in Tickets : ticket'[t] # None => ticket'[t].updatedAt <= now'
  BY <1>1, <1>2 DEF SplitInv
<1>4. ASSUME NEW u \in Updates, NEW t \in Tickets, Stored(u, t)', sent'[u] # None
      PROVE  rowAt'[u][t] <= ticket'[t].updatedAt
  <2>1. CASE Stored(u, t) /\ sent[u] # None /\ rowAt'[u][t] = rowAt[u][t]
    <3>1. rowAt[u][t] <= ticket[t].updatedAt /\ ticket[t].updatedAt <= now /\ ticket[t].updatedAt \in Nat
      BY <1>2, <2>1 DEF SplitInv, PlaceInv
    <3>2. rowAt[u][t] \in Nat
      BY <2>1 DEF TypeInv, TypeOK, Times, Stored
    <3> QED
      BY <1>1, <2>1, <3>1, <3>2
  <2>2. CASE rowAt'[u][t] = now' /\ ticket'[t].updatedAt = now'
    BY <1>1, <2>2
  <2> QED
    BY <1>4, <2>1, <2>2, RowTimes
<1>5. ASSUME NEW w \in Workers, wk'[w].pc = "create", NEW t \in Tickets, NEW u \in Updates, Live(t)',
             ticket'[t].chat = ChatOf(w)', ticket'[t].customer = Message(w)'.from,
             Stored(u, t)', sent'[u] # None
      PROVE  ~ (now' - rowAt'[u][t] < IdleWindow)
  <2>1. \A v \in Workers : ~Revive(v) /\ ~Create(v) /\ ~Record(v)
    <3>1. ASSUME Revive(w) PROVE FALSE
      BY <1>5, <3>1, GotoResult DEF Revive
    <3>2. ASSUME Create(w) PROVE FALSE
      BY <1>5, <3>2, CreateResult DEF CreatedFor
    <3>3. ASSUME Record(w) PROVE FALSE
      BY <1>5, <3>3, GotoResult DEF Record
    <3> QED
      BY <3>1, <3>2, <3>3
  <2>2. Live(t) /\ ticket[t] # None
    BY <1>5, <2>1, BackToLife DEF Live
  <2>3. Stored(u, t) /\ sent[u] # None /\ rowAt'[u][t] = rowAt[u][t]
    BY <1>5, <2>1, RowTimes
  <2>4. ticket'[t].chat = ticket[t].chat /\ ticket'[t].customer = ticket[t].customer
    BY <1>0, <2>2 DEF OwnersKept
  <2>5. rowAt[u][t] \in Nat /\ ticket[t].updatedAt \in Nat /\ rowAt[u][t] <= ticket[t].updatedAt
    BY <1>2, <2>2, <2>3 DEF SplitInv, TypeInv, TypeOK, Times, Stored
  <2>6. wk'[w].upd = wk[w].upd /\ wk[w].upd \in Updates
    BY <1>5, CreateCases DEF TypeInv, WorkerInv
  <2>7. sent'[wk[w].upd] = sent[wk[w].upd]
    BY <1>0, <1>5, <2>6, CreateCases DEF TypeInv, WorkerInv, JobInv, Lasting, Rule2, telegramVars
  <2>8. ticket[t].chat = ChatOf(w) /\ ticket[t].customer = Message(w).from
    BY <1>5, <2>4, <2>6, <2>7 DEF ChatOf, Message, Upd
  <2>9. CASE wk[w].pc = "create"
    <3>1. ~ (now - rowAt[u][t] < IdleWindow)
      BY <2>2, <2>3, <2>8, <2>9 DEF SplitInv, NoSplitThread, WithinIdleWindow
    <3> QED
      BY <1>1, <2>3, <2>5, <3>1
  <2>10. CASE Rule2(w)
    <3>1. ticket[t].updatedAt + IdleWindow <= now
      BY <1>5, <2>2, <2>8, <2>10, AllIdle
    <3> QED
      BY <1>1, <2>3, <2>5, <3>1
  <2> QED
    BY <1>5, <2>9, <2>10, CreateCases
<1>6. NoSplitThread'
  BY <1>5 DEF NoSplitThread, WithinIdleWindow
<1> QED
  BY <1>3, <1>4, <1>6, ReadClock DEF SplitInv

(* With one ingest worker, and agents who do not reopen closed threads,    *)
(* no new ticket is created beside a live thread of the same customer that *)
(* had a message within the idle window, however long the handler takes.   *)
THEOREM NoSplitThreadHolds ==
  ASSUME \A v, w \in Workers : v = w, ~AgentsReopen
  PROVE  Spec => []NoSplitThread
<1>1. Init => SplitInv
  BY DEF Init, SplitInv, NoSplitThread, Stored, IdleWorker
<1>2. SplitInv => NoSplitThread
  BY DEF SplitInv
<1>3. TypeInv /\ TypeInv' /\ PlaceInv /\ SplitInv /\ [Next]_vars => SplitInv'
  BY SplitStep
<1> QED
  BY <1>1, <1>2, <1>3, PlaceInvariant, TypeStep, PTL DEF Spec
=============================================================================
