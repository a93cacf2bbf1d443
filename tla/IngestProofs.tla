---------------------------- MODULE IngestProofs ----------------------------
(* Machine-checked proofs about Ingest, for every value of its constants. *)
EXTENDS Ingest, TLAPS

-----------------------------------------------------------------------------
(* The rows the two repository queries can return. *)

LEMMA AnchorFound ==
  ASSUME NEW tk, NEW ra, NEW c, NEW g, NEW t \in FindTicketByAnchorMessage(tk, ra, c, g)
  PROVE  /\ t \in DOMAIN tk /\ tk[t] # None /\ tk[t].chat = c
         /\ \E v \in DOMAIN ra : v[2] = g /\ ra[v][t] # None
BY DEF FindTicketByAnchorMessage, AnchorRows, Latest

LEMMA ActiveFound ==
  ASSUME NEW tk, NEW c, NEW x, NEW t \in FindMostRecentActiveTicket(tk, c, x)
  PROVE  /\ t \in DOMAIN tk /\ tk[t] # None
         /\ tk[t].chat = c /\ tk[t].customer = x /\ tk[t].status \notin Terminal
BY DEF FindMostRecentActiveTicket, ActiveTickets, Latest

-----------------------------------------------------------------------------
(* The bookkeeping of jobs and workers that types rest on. *)

HoldsTicket == {"revive", "record", "ackRow", "ackEnqueue"}

Undecided == {"idle", "classify", "findChat", "createChat", "findCustomer", "createCustomer",
              "rule1", "rule2", "create"}

(* A job that can still run has an attempt left, and only posted messages  *)
(* are due or have a job.                                                  *)
JobInv ==
  \A u \in Updates :
    /\ job[u].state \in {"none", "waiting", "active"} => job[u].made < Attempts
    /\ job[u].state # "none" \/ u \in due \/ u \in muted => sent[u] # None

(* A busy worker holds an active job no other worker holds; the ticket it  *)
(* decided on exists.                                                      *)
WorkerInv ==
  \A w \in Workers :
    /\ wk[w].pc # "idle" => wk[w].upd \in Updates /\ job[wk[w].upd].state = "active"
    /\ wk[w].pc = "rule1" => sent[wk[w].upd].replyTo # None
    /\ wk[w].tkt # None => ticket[wk[w].tkt] # None
    /\ wk[w].pc \in HoldsTicket => wk[w].tkt # None
    /\ wk[w].pc \in Undecided => wk[w].tkt = None
    /\ \A v \in Workers : v # w /\ wk[v].pc # "idle" /\ wk[w].pc # "idle" => wk[v].upd # wk[w].upd

(* A ticket being marked, or with a bot message in the chat, exists. *)
TicketInv ==
  /\ \A t \in marking : ticket[t] # None
  /\ \A u \in Updates : outgoing[u] # None => ticket[outgoing[u]] # None

TypeInv == TypeOK /\ JobInv /\ WorkerInv /\ TicketInv

USE ConstantsAssumption, NoneAssumption

LEMMA TypeInit == Init => TypeInv
BY DEF Init, TypeInv, TypeOK, JobInv, WorkerInv, TicketInv, NoJob, IdleWorker, WorkerState, PCs,
       JobStates, Times, HoldsTicket, Undecided, Job

(* What a step that replaces one ticket row, or one worker's record, does. *)
LEMMA RowReplaced ==
  ASSUME TypeInv, NEW t \in Tickets, NEW r \in TicketRow, ticket' = [ticket EXCEPT ![t] = r]
  PROVE  /\ ticket' \in [Tickets -> TicketRow \union {None}]
         /\ ticket'[t] = r /\ ticket'[t] # None
         /\ \A s \in Tickets : s # t => ticket'[s] = ticket[s]
         /\ \A s \in Tickets : ticket[s] # None => ticket'[s] # None
BY DEF TypeInv, TypeOK

LEMMA WorkerReplaced ==
  ASSUME TypeInv, NEW w \in Workers, NEW r \in WorkerState, wk' = [wk EXCEPT ![w] = r]
  PROVE  /\ wk' \in [Workers -> WorkerState]
         /\ wk'[w] = r
         /\ \A v \in Workers : v # w => wk'[v] = wk[v]
BY DEF TypeInv, TypeOK

LEMMA IdleTyped == IdleWorker \in WorkerState /\ IdleWorker.pc = "idle" /\ IdleWorker.tkt = None
BY DEF IdleWorker, WorkerState, PCs, Times

LEMMA WorkerTyped ==
  ASSUME TypeInv, NEW w \in Workers
  PROVE  wk[w] \in WorkerState /\ (wk[w].tkt # None => wk[w].tkt \in Tickets)
BY DEF TypeInv, TypeOK, WorkerState

(* A step of w that moves on with the same message, the jobs as they were. *)
LEMMA WorkerMoves ==
  ASSUME TypeInv, NEW w \in Workers, wk[w].pc # "idle", NEW r \in WorkerState,
         wk' = [wk EXCEPT ![w] = r], UNCHANGED <<job, sent>>,
         r.pc # "idle", r.upd = wk[w].upd,
         r.pc = "rule1" => sent[r.upd].replyTo # None,
         r.tkt # None => r.tkt \in Tickets /\ ticket'[r.tkt] # None,
         r.pc \in HoldsTicket => r.tkt # None, r.pc \in Undecided => r.tkt = None,
         \A t \in Tickets : ticket[t] # None => ticket'[t] # None
  PROVE  wk' \in [Workers -> WorkerState] /\ WorkerInv'
<1>1. wk' \in [Workers -> WorkerState] /\ wk'[w] = r /\ \A v \in Workers : v # w => wk'[v] = wk[v]
  BY WorkerReplaced
<1>2. \A v \in Workers : wk[v].tkt # None => wk[v].tkt \in Tickets
  BY WorkerTyped
<1> QED
  BY <1>1, <1>2 DEF TypeInv, WorkerInv

LEMMA Goes ==
  ASSUME TypeInv, NEW w \in Workers, NEW pc \in PCs \ {"idle", "rule1"},
         wk[w].pc # "idle", pc \in HoldsTicket => wk[w].tkt # None,
         pc \in Undecided => wk[w].tkt = None,
         Goto(w, pc), UNCHANGED <<job, sent>>,
         \A t \in Tickets : ticket[t] # None => ticket'[t] # None
  PROVE  wk' \in [Workers -> WorkerState] /\ WorkerInv'
<1> DEFINE r == [wk[w] EXCEPT !.pc = pc]
<1>1. r \in WorkerState /\ r.pc = pc /\ r.upd = wk[w].upd /\ r.tkt = wk[w].tkt
  BY WorkerTyped DEF WorkerState
<1>2. wk' = [wk EXCEPT ![w] = r]
  BY DEF Goto
<1>3. wk[w].tkt # None => wk[w].tkt \in Tickets /\ ticket[wk[w].tkt] # None
  BY WorkerTyped DEF TypeInv, WorkerInv
<1> HIDE DEF r
<1> QED
  BY <1>1, <1>2, <1>3, WorkerMoves

LEMMA Attaches ==
  ASSUME TypeInv, NEW w \in Workers, wk[w].pc # "idle", NEW t \in Tickets, ticket[t] # None,
         wk' = [wk EXCEPT ![w] = Attach(w, t)], UNCHANGED <<job, sent, ticket>>
  PROVE  wk' \in [Workers -> WorkerState] /\ WorkerInv'
<1> DEFINE pc == IF ticket[t].status # "open" THEN "revive" ELSE "record"
           r == [wk[w] EXCEPT !.pc = pc, !.tkt = t, !.isNew = FALSE, !.at = 0]
<1>1. pc \in PCs /\ pc \in {"revive", "record"} /\ 0 \in Times
  BY DEF PCs, Times
<1>2. wk' = [wk EXCEPT ![w] = r]
  BY DEF Attach
<1> HIDE DEF pc
<1>3. r \in WorkerState /\ r.pc = pc /\ r.upd = wk[w].upd /\ r.tkt = t
  BY <1>1, WorkerTyped DEF WorkerState
<1> HIDE DEF r
<1> QED
  BY <1>1, <1>2, <1>3, WorkerMoves DEF Undecided

(* A step that gives up w's job, in whatever inactive state it leaves it. *)
LEMMA WorkerReleases ==
  ASSUME TypeInv, NEW w \in Workers, wk[w].pc # "idle",
         NEW j \in Job, job' = [job EXCEPT ![wk[w].upd] = j],
         j.state \in {"none", "waiting", "active"} => j.made < Attempts,
         wk' = [wk EXCEPT ![w] = IdleWorker],
         UNCHANGED <<sent, due, muted, ticket>>
  PROVE  wk' \in [Workers -> WorkerState] /\ WorkerInv' /\ job' \in [Updates -> Job] /\ JobInv'
<1>1. IdleWorker \in WorkerState /\ IdleWorker.pc = "idle" /\ IdleWorker.tkt = None
  BY IdleTyped
<1>2. /\ wk' \in [Workers -> WorkerState]
      /\ wk'[w] = IdleWorker
      /\ \A v \in Workers : v # w => wk'[v] = wk[v]
  BY <1>1, WorkerReplaced
<1>3. wk[w].upd \in Updates /\ job[wk[w].upd].state = "active" /\ sent[wk[w].upd] # None
  BY DEF TypeInv, WorkerInv, JobInv
<1>4. /\ job' \in [Updates -> Job]
      /\ job'[wk[w].upd] = j
      /\ \A u \in Updates : u # wk[w].upd => job'[u] = job[u]
  BY <1>3 DEF TypeInv, TypeOK
<1>5. JobInv'
  BY <1>3, <1>4 DEF TypeInv, JobInv
<1>6. WorkerInv'
  BY <1>1, <1>2, <1>3, <1>4 DEF TypeInv, WorkerInv, HoldsTicket
<1> QED
  BY <1>2, <1>4, <1>5, <1>6

LEMMA Throws ==
  ASSUME TypeInv, NEW w \in Workers, wk[w].pc # "idle", Throw(w), UNCHANGED <<sent, due, muted, ticket>>
  PROVE  wk' \in [Workers -> WorkerState] /\ WorkerInv' /\ job' \in [Updates -> Job] /\ JobInv'
<1> DEFINE i == job[wk[w].upd]
           n == i.made + 1
           st == IF i.made + 1 < Attempts THEN "waiting" ELSE "failed"
           j == [i EXCEPT !.made = n, !.state = st]
<1>1. wk[w].upd \in Updates /\ i.state = "active" /\ i.made < Attempts
  BY DEF TypeInv, WorkerInv, JobInv
<1>2. i \in Job
  BY <1>1 DEF TypeInv, TypeOK
<1>3. n \in 0 .. Attempts /\ st \in JobStates /\ (st = "waiting" => n < Attempts)
  BY <1>1, <1>2 DEF Job, JobStates
<1>4. job' = [job EXCEPT ![wk[w].upd] = j] /\ wk' = [wk EXCEPT ![w] = IdleWorker]
  BY DEF Throw, Upd, AfterFailure
<1>5. st \in {"waiting", "failed"}
  OBVIOUS
<1> HIDE DEF i, n, st
<1>6. j \in Job /\ j.state = st /\ j.made = n
  BY <1>2, <1>3 DEF Job
<1> HIDE DEF j
<1> QED
  BY <1>3, <1>4, <1>5, <1>6, WorkerReleases

LEMMA Groups ==
  ASSUME TypeInv, NEW w \in Workers, wk[w].pc # "idle", wk[w].tkt = None, StartGrouping(w),
         UNCHANGED <<job, sent, ticket>>
  PROVE  wk' \in [Workers -> WorkerState] /\ WorkerInv'
<1> DEFINE pc == IF Message(w).replyTo = None THEN "rule2" ELSE "rule1"
           r == [wk[w] EXCEPT !.pc = pc, !.at = now]
<1>1. pc \in PCs /\ pc \in {"rule1", "rule2"} /\ now \in Times
  BY DEF PCs, TypeInv, TypeOK
<1>2. pc = "rule1" => sent[wk[w].upd].replyTo # None
  BY DEF Message, Upd
<1>3. wk' = [wk EXCEPT ![w] = r]
  BY DEF StartGrouping
<1> HIDE DEF pc
<1>4. r \in WorkerState /\ r.pc = pc /\ r.upd = wk[w].upd /\ r.tkt = None
  BY <1>1, WorkerTyped DEF WorkerState
<1> HIDE DEF r
<1> QED
  BY <1>1, <1>2, <1>3, <1>4, WorkerMoves DEF HoldsTicket

(* A step that changes ticket rows without removing any. *)
RowsKept ==
  /\ ticket' \in [Tickets -> TicketRow \union {None}]
  /\ \A t \in Tickets : ticket[t] # None => ticket'[t] # None

LEMMA Patches ==
  ASSUME TypeInv, NEW t \in Tickets, ticket[t] # None, NEW s \in Statuses,
         NEW for, SetStatus(t, s, for)
  PROVE  RowsKept /\ sealed' \subseteq sealed
<1> DEFINE r == [ticket[t] EXCEPT !.status = s, !.updatedAt = now]
<1>1. ticket[t] \in TicketRow /\ now \in Times
  BY DEF TypeInv, TypeOK
<1>2. r \in TicketRow
  BY <1>1 DEF TicketRow
<1>3. ticket' = [ticket EXCEPT ![t] = r]
  BY DEF SetStatus
<1> HIDE DEF r
<1> QED
  BY <1>2, <1>3, RowReplaced DEF RowsKept, SetStatus

LEMMA Touches ==
  ASSUME TypeInv, NEW t \in Tickets, ticket[t] # None,
         ticket' = [ticket EXCEPT ![t] = [@ EXCEPT !.updatedAt = now]]
  PROVE  RowsKept
<1> DEFINE r == [ticket[t] EXCEPT !.updatedAt = now]
<1>1. ticket[t] \in TicketRow /\ now \in Times
  BY DEF TypeInv, TypeOK
<1>2. r \in TicketRow
  BY <1>1 DEF TicketRow
<1>3. ticket' = [ticket EXCEPT ![t] = r]
  OBVIOUS
<1> HIDE DEF r
<1> QED
  BY <1>2, <1>3, RowReplaced DEF RowsKept

LEMMA PatchKeeps ==
  ASSUME TypeInv, RowsKept, UNCHANGED <<job, sent, wk, outgoing>>, marking' \subseteq marking
  PROVE  WorkerInv' /\ TicketInv'
<1>1. \A v \in Workers : wk[v].tkt # None => wk[v].tkt \in Tickets
  BY WorkerTyped
<1> QED
  BY <1>1 DEF RowsKept, TypeInv, TypeOK, WorkerInv, TicketInv

LEMMA TypeStep == TypeInv /\ [Next]_vars => TypeInv'
<1> SUFFICES ASSUME TypeInv, [Next]_vars PROVE TypeInv'
  OBVIOUS
<1> USE DEF telegramVars, exclusionVars, tableVars, historyVars
<1>0. CASE UNCHANGED vars
  BY <1>0 DEF vars, TypeInv, TypeOK, JobInv, WorkerInv, TicketInv
<1>1. CASE Tick
  BY <1>1 DEF Tick, TypeInv, TypeOK, JobInv, WorkerInv, TicketInv, Times
<1>2. ASSUME NEW u \in Updates, NEW x \in Users, NEW r \in TgIds \union {None}, Send(u, x, r)
      PROVE  TypeInv'
  <2>1. [from |-> x, replyTo |-> r] \in Sent
    BY DEF Sent
  <2>2. sent[u] = None
    BY <1>2 DEF Send, NextId, Used
  <2>3. /\ sent' \in [Updates -> Sent \union {None}]
        /\ \A v \in Updates : sent[v] # None => sent'[v] = sent[v]
        /\ sent'[u] # None
    BY <1>2, <2>1, <2>2 DEF Send, TypeInv, TypeOK
  <2>4. JobInv'
    BY <1>2, <2>3 DEF Send, TypeInv, JobInv
  <2>5. WorkerInv'
    BY <1>2, <2>3 DEF Send, TypeInv, WorkerInv, JobInv
  <2> QED
    BY <1>2, <2>3, <2>4, <2>5 DEF Send, TypeInv, TypeOK, TicketInv
<1>3. ASSUME NEW u \in Updates, Redeliver(u) PROVE TypeInv'
  BY <1>3 DEF Redeliver, TypeInv, TypeOK, JobInv, WorkerInv, TicketInv
<1>4. ASSUME NEW u \in Updates, Webhook(u) PROVE TypeInv'
  BY <1>4 DEF Webhook, TypeInv, TypeOK, JobInv, WorkerInv, TicketInv, Job, JobStates
<1>5. ASSUME NEW u \in Updates, Evict(u) PROVE TypeInv'
  BY <1>5 DEF Evict, TypeInv, TypeOK, JobInv, WorkerInv, TicketInv, Job, JobStates, NoJob
<1>6. ASSUME NEW u \in Updates, NEW t \in Tickets, OutboundSend(t, u) PROVE TypeInv'
  BY <1>6 DEF OutboundSend, TypeInv, TypeOK, JobInv, WorkerInv, TicketInv
<1>7. ASSUME NEW u \in Updates, OutboundConfirm(u) PROVE TypeInv'
  BY <1>7 DEF OutboundConfirm, TypeInv, TypeOK, JobInv, WorkerInv, TicketInv
<1>8. ASSUME NEW x \in Users, ExcludeById(x) PROVE TypeInv'
  BY <1>8 DEF ExcludeById, TypeInv, TypeOK, JobInv, WorkerInv, TicketInv
<1>9. ASSUME NEW x \in Users, ExcludeByName(x) PROVE TypeInv'
  BY <1>9 DEF ExcludeByName, TypeInv, TypeOK, JobInv, WorkerInv, TicketInv
<1>10. ASSUME NEW x \in Users, NEW s \in {"active", "inactive"}, SetActive(x, s) PROVE TypeInv'
  BY <1>10 DEF SetActive, StillMuted, TypeInv, TypeOK, JobInv, WorkerInv, TicketInv
<1>11. ASSUME NEW x \in Users, RemoveById(x) PROVE TypeInv'
  BY <1>11 DEF RemoveById, StillMuted, TypeInv, TypeOK, JobInv, WorkerInv, TicketInv
<1>12. ASSUME NEW x \in Users, RemoveByName(x) PROVE TypeInv'
  BY <1>12 DEF RemoveByName, StillMuted, TypeInv, TypeOK, JobInv, WorkerInv, TicketInv
<1>13. ASSUME NEW t \in Tickets, NEW s \in PatchStatuses, AgentPatch(t, s) PROVE TypeInv'
  <2>1. RowsKept /\ sealed' \subseteq sealed
    BY <1>13, Patches DEF AgentPatch
  <2> QED
    BY <1>13, <2>1, PatchKeeps DEF AgentPatch, RowsKept, TypeInv, TypeOK, JobInv
<1>14. ASSUME NEW t \in Tickets, AgentTouch(t) PROVE TypeInv'
  <2>1. RowsKept
    BY <1>14, Touches DEF AgentTouch
  <2> QED
    BY <1>14, <2>1, PatchKeeps DEF AgentTouch, RowsKept, TypeInv, TypeOK, JobInv
<1>15. ASSUME NEW t \in Tickets, MarkExclude(t) PROVE TypeInv'
  BY <1>15 DEF MarkExclude, TypeInv, TypeOK, JobInv, WorkerInv, TicketInv, TicketRow
<1>16. ASSUME NEW t \in Tickets, MarkClose(t) PROVE TypeInv'
  <2>1. RowsKept /\ sealed' \subseteq sealed
    BY <1>16, Patches DEF MarkClose, TypeInv, TicketInv, Statuses, Terminal
  <2> QED
    BY <1>16, <2>1, PatchKeeps DEF MarkClose, RowsKept, TypeInv, TypeOK, JobInv
<1>17. ASSUME NEW t \in Tickets, MarkAbort(t) PROVE TypeInv'
  BY <1>17 DEF MarkAbort, TypeInv, TypeOK, JobInv, WorkerInv, TicketInv
<1>20. ASSUME NEW w \in Workers, NEW u \in Updates, Take(w, u) PROVE TypeInv'
  <2> DEFINE r == [IdleWorker EXCEPT !.pc = "classify", !.upd = u]
  <2>0. "classify" \in PCs
    BY DEF PCs
  <2>1. r \in WorkerState /\ r.pc = "classify" /\ r.upd = u /\ r.tkt = None
    BY <2>0, IdleTyped DEF WorkerState
  <2>2. wk' = [wk EXCEPT ![w] = r]
    BY <1>20 DEF Take
  <2> HIDE DEF r
  <2>3. wk' \in [Workers -> WorkerState] /\ wk'[w] = r /\ \A v \in Workers : v # w => wk'[v] = wk[v]
    BY <2>1, <2>2, WorkerReplaced
  <2> DEFINE j == [job[u] EXCEPT !.state = "active"]
  <2>7. job[u] \in Job /\ "active" \in JobStates
    BY DEF TypeInv, TypeOK, JobStates
  <2>8. j \in Job /\ j.state = "active" /\ j.made = job[u].made
    BY <2>7 DEF Job
  <2>9. job' = [job EXCEPT ![u] = j] /\ job[u].state = "waiting" /\ wk[w].pc = "idle"
    BY <1>20 DEF Take
  <2>10. UNCHANGED <<sent, due, muted, ticket>>
    BY <1>20 DEF Take
  <2> HIDE DEF j
  <2>4. /\ job' \in [Updates -> Job]
        /\ job'[u].state = "active" /\ job'[u].made = job[u].made
        /\ \A v \in Updates : v # u => job'[v] = job[v]
    BY <2>8, <2>9 DEF TypeInv, TypeOK
  <2>5. JobInv'
    BY <2>4, <2>9, <2>10 DEF TypeInv, JobInv
  <2>6. WorkerInv'
    BY <2>1, <2>3, <2>4, <2>9, <2>10 DEF TypeInv, WorkerInv, HoldsTicket, Undecided
  <2> QED
    BY <1>20, <2>3, <2>4, <2>5, <2>6 DEF Take, TypeInv, TypeOK, TicketInv
<1>21. ASSUME NEW w \in Workers, Classify(w) PROVE TypeInv'
  <2> DEFINE x == Message(w).from
  <2>1. wk[w].pc # "idle" /\ wk[w].tkt = None
    BY <1>21 DEF Classify, TypeInv, WorkerInv, Undecided
  <2>2. x \in Users
    BY <2>1 DEF TypeInv, TypeOK, JobInv, WorkerInv, Message, Upd, Sent
  <2>3. UNCHANGED <<now, telegramVars, marking, tableVars, historyVars>>
    BY <1>21 DEF Classify
  <2>4. /\ byId' \in [Users -> {"absent", "active", "inactive"}]
        /\ byName' \subseteq Users
    BY <1>21, <2>2 DEF Classify, TypeInv, TypeOK
  <2>5. CASE Throw(w)
    BY <2>1, <2>3, <2>4, <2>5, Throws DEF TypeInv, TypeOK, TicketInv
  <2>6. CASE UNCHANGED job /\ (Goto(w, "finish") \/ Goto(w, "findChat"))
    <3>1. wk' \in [Workers -> WorkerState] /\ WorkerInv'
      BY <2>1, <2>3, <2>6, Goes DEF PCs, HoldsTicket
    <3> QED
      BY <2>3, <2>4, <2>6, <3>1 DEF TypeInv, TypeOK, TicketInv, JobInv
  <2> QED
    BY <1>21, <2>5, <2>6 DEF Classify
<1>22. ASSUME NEW w \in Workers, FindChat(w) PROVE TypeInv'
  <2>1. wk' \in [Workers -> WorkerState] /\ WorkerInv'
    BY <1>22, Goes DEF FindChat, PCs, HoldsTicket, TypeInv, WorkerInv, Undecided
  <2> QED
    BY <1>22, <2>1 DEF FindChat, TypeInv, TypeOK, TicketInv, JobInv
<1>23. ASSUME NEW w \in Workers, CreateChat(w) PROVE TypeInv'
  <2>1. wk[w].pc # "idle" /\ wk[w].tkt = None
    BY <1>23 DEF CreateChat, TypeInv, WorkerInv, Undecided
  <2>2. chatRows' \subseteq Chats
    BY <1>23, <2>1 DEF CreateChat, ChatOf, Upd, TypeInv, TypeOK, WorkerInv
  <2>3. CASE Throw(w)
    BY <1>23, <2>1, <2>2, <2>3, Throws DEF CreateChat, TypeInv, TypeOK, TicketInv
  <2>4. CASE UNCHANGED job /\ Goto(w, "findCustomer")
    <3>1. wk' \in [Workers -> WorkerState] /\ WorkerInv'
      BY <1>23, <2>1, <2>4, Goes DEF CreateChat, PCs, HoldsTicket
    <3> QED
      BY <1>23, <2>2, <2>4, <3>1 DEF CreateChat, TypeInv, TypeOK, TicketInv, JobInv
  <2> QED
    BY <1>23, <2>3, <2>4 DEF CreateChat
<1>24. ASSUME NEW w \in Workers, FindCustomer(w) PROVE TypeInv'
  <2>1. wk[w].pc # "idle" /\ wk[w].tkt = None
    BY <1>24 DEF FindCustomer, TypeInv, WorkerInv, Undecided
  <2>2. wk' \in [Workers -> WorkerState] /\ WorkerInv'
    BY <1>24, <2>1, Goes, Groups DEF FindCustomer, PCs, HoldsTicket
  <2> QED
    BY <1>24, <2>2 DEF FindCustomer, TypeInv, TypeOK, TicketInv, JobInv
<1>25. ASSUME NEW w \in Workers, CreateCustomer(w) PROVE TypeInv'
  <2>1. wk[w].pc # "idle" /\ wk[w].tkt = None
    BY <1>25 DEF CreateCustomer, TypeInv, WorkerInv, Undecided
  <2>2. Message(w).from \in Users
    BY <2>1 DEF TypeInv, TypeOK, JobInv, WorkerInv, Message, Upd, Sent
  <2>3. customerRows' \subseteq Users
    BY <1>25, <2>2 DEF CreateCustomer, TypeInv, TypeOK
  <2>4. CASE Throw(w)
    BY <1>25, <2>1, <2>3, <2>4, Throws DEF CreateCustomer, TypeInv, TypeOK, TicketInv
  <2>5. CASE UNCHANGED job /\ StartGrouping(w)
    <3>1. wk' \in [Workers -> WorkerState] /\ WorkerInv'
      BY <1>25, <2>1, <2>5, Groups DEF CreateCustomer
    <3> QED
      BY <1>25, <2>3, <2>5, <3>1 DEF CreateCustomer, TypeInv, TypeOK, TicketInv, JobInv
  <2> QED
    BY <1>25, <2>4, <2>5 DEF CreateCustomer
<1>26. ASSUME NEW w \in Workers, Rule1(w) PROVE TypeInv'
  <2>1. wk[w].pc # "idle" /\ wk[w].tkt = None
    BY <1>26 DEF Rule1, TypeInv, WorkerInv, Undecided
  <2>2. \/ Goto(w, "rule2")
        \/ \E t \in Tickets : ticket[t] # None /\ wk' = [wk EXCEPT ![w] = Attach(w, t)]
    <3>1. DOMAIN ticket = Tickets
      BY DEF TypeInv, TypeOK
    <3> QED
      BY <1>26, <3>1, AnchorFound DEF Rule1, Goto
  <2>3. wk' \in [Workers -> WorkerState] /\ WorkerInv'
    BY <1>26, <2>1, <2>2, Goes, Attaches DEF Rule1, PCs, HoldsTicket
  <2> QED
    BY <1>26, <2>3 DEF Rule1, TypeInv, TypeOK, TicketInv, JobInv
<1>27. ASSUME NEW w \in Workers, Rule2(w) PROVE TypeInv'
  <2> DEFINE r == [wk[w] EXCEPT !.pc = "create", !.at = 0]
  <2>1. wk[w].pc # "idle" /\ wk[w].tkt = None
    BY <1>27 DEF Rule2, TypeInv, WorkerInv, Undecided
  <2>2. \/ wk' = [wk EXCEPT ![w] = r]
        \/ \E t \in Tickets : ticket[t] # None /\ wk' = [wk EXCEPT ![w] = Attach(w, t)]
    <3>1. DOMAIN ticket = Tickets
      BY DEF TypeInv, TypeOK
    <3> QED
      BY <1>27, <3>1, ActiveFound DEF Rule2
  <2>5. "create" \in PCs /\ 0 \in Times
    BY DEF PCs, Times
  <2>3. r \in WorkerState /\ r.pc = "create" /\ r.upd = wk[w].upd /\ r.tkt = None
    BY <2>1, <2>5, WorkerTyped DEF WorkerState
  <2> HIDE DEF r
  <2>4. wk' \in [Workers -> WorkerState] /\ WorkerInv'
    BY <1>27, <2>1, <2>2, <2>3, WorkerMoves, Attaches DEF Rule2, HoldsTicket
  <2> QED
    BY <1>27, <2>4 DEF Rule2, TypeInv, TypeOK, TicketInv, JobInv
<1>28. ASSUME NEW w \in Workers, Revive(w) PROVE TypeInv'
  <2>1. wk[w].tkt \in Tickets /\ ticket[wk[w].tkt] # None
    BY <1>28, WorkerTyped DEF Revive, TypeInv, WorkerInv, HoldsTicket
  <2>2. RowsKept /\ sealed' \subseteq sealed
    BY <1>28, <2>1, Patches DEF Revive, Statuses, Reopenable
  <2>3. wk' \in [Workers -> WorkerState] /\ WorkerInv'
    BY <1>28, <2>1, <2>2, Goes DEF Revive, RowsKept, PCs, Undecided
  <2> QED
    BY <1>28, <2>2, <2>3 DEF Revive, RowsKept, TypeInv, TypeOK, TicketInv, JobInv
<1>29. ASSUME NEW w \in Workers, Create(w) PROVE TypeInv'
  <2> DEFINE n == [chat |-> ChatOf(w), customer |-> Message(w).from, status |-> "open",
                   anchor |-> Upd(w)[2], lastClient |-> Upd(w)[2], updatedAt |-> now]
  <2>1. wk[w].pc # "idle" /\ wk[w].tkt = None /\ Upd(w) \in Updates /\ Message(w) \in Sent
    BY <1>29 DEF Create, TypeInv, TypeOK, JobInv, WorkerInv, Undecided, Message, Upd
  <2>2. n \in TicketRow
    <3>1. ChatOf(w) \in Chats /\ Upd(w)[2] \in TgIds /\ Message(w).from \in Users
      BY <2>1 DEF ChatOf, TgIds, Sent
    <3>2. "open" \in Statuses /\ now \in Times
      BY DEF Statuses, Reopenable, TypeInv, TypeOK
    <3> QED
      BY <3>1, <3>2 DEF TicketRow
  <2>3. PICK t \in Tickets : /\ ticket[t] = None
                             /\ ticket' = [ticket EXCEPT ![t] = n]
                             /\ wk' = [wk EXCEPT ![w] = [@ EXCEPT !.pc = "record", !.tkt = t,
                                                                  !.isNew = TRUE]]
    BY <1>29 DEF Create
  <2> HIDE DEF n
  <2>4. RowsKept /\ ticket'[t] # None
    BY <2>2, <2>3, RowReplaced DEF RowsKept
  <2> DEFINE r == [wk[w] EXCEPT !.pc = "record", !.tkt = t, !.isNew = TRUE]
  <2>5. r \in WorkerState /\ r.pc = "record" /\ r.upd = wk[w].upd /\ r.tkt = t
    BY WorkerTyped DEF WorkerState, PCs
  <2>6. wk' = [wk EXCEPT ![w] = r]
    BY <2>3
  <2> HIDE DEF r
  <2>7. wk' \in [Workers -> WorkerState] /\ WorkerInv'
    BY <1>29, <2>1, <2>4, <2>5, <2>6, WorkerMoves DEF Create, RowsKept, HoldsTicket, Undecided
  <2> QED
    BY <1>29, <2>4, <2>7 DEF Create, RowsKept, TypeInv, TypeOK, TicketInv, JobInv
<1>30. ASSUME NEW w \in Workers, Record(w) PROVE TypeInv'
  <2> DEFINE t == wk[w].tkt
  <2>1. t \in Tickets /\ ticket[t] # None /\ t # None /\ Upd(w) \in Updates
    BY <1>30, WorkerTyped DEF Record, TypeInv, WorkerInv, HoldsTicket, Upd
  <2>2. RowsKept
    <3> DEFINE r == [ticket[t] EXCEPT !.lastClient = Upd(w)[2], !.updatedAt = now]
    <3>1. ticket[t] \in TicketRow /\ now \in Times /\ Upd(w)[2] \in TgIds
      BY <2>1 DEF TypeInv, TypeOK, TgIds
    <3>2. r \in TicketRow
      BY <3>1 DEF TicketRow
    <3>3. UNCHANGED ticket \/ ticket' = [ticket EXCEPT ![t] = r]
      BY <1>30 DEF Record
    <3> HIDE DEF r
    <3> QED
      BY <2>1, <3>2, <3>3, RowReplaced DEF RowsKept, TypeInv, TypeOK
  <2>3. wk' \in [Workers -> WorkerState] /\ WorkerInv'
    BY <1>30, <2>1, <2>2, Goes DEF Record, RowsKept, PCs, HoldsTicket, Undecided
  <2>4. rowAt' \in [Updates -> [Tickets -> Times \union {None}]]
    <3> DEFINE f == [rowAt[Upd(w)] EXCEPT ![t] = now]
               Row == [Tickets -> Times \union {None}]
    <3>1. f \in Row /\ rowAt \in [Updates -> Row]
      BY <2>1 DEF TypeInv, TypeOK
    <3>2. UNCHANGED rowAt \/ rowAt' = [rowAt EXCEPT ![Upd(w)] = f]
      BY <1>30 DEF Record
    <3>3. SUFFICES rowAt' \in [Updates -> Row]
      OBVIOUS
    <3> HIDE DEF f, Row
    <3> QED
      BY <2>1, <3>1, <3>2
  <2> QED
    BY <1>30, <2>2, <2>3, <2>4 DEF Record, RowsKept, TypeInv, TypeOK, TicketInv, JobInv
<1>31. ASSUME NEW w \in Workers, AckRow(w) \/ AckEnqueue(w) \/ AckHiccup(w) PROVE TypeInv'
  <2>1. wk[w].pc # "idle" /\ wk[w].tkt # None /\ wk[w].tkt \in Tickets
    BY <1>31, WorkerTyped DEF AckRow, AckEnqueue, AckHiccup, TypeInv, WorkerInv, HoldsTicket
  <2>2. wk' \in [Workers -> WorkerState] /\ WorkerInv'
    BY <1>31, <2>1, Goes DEF AckRow, AckEnqueue, AckHiccup, PCs, Undecided
  <2>3. ack' \in [Tickets -> [rows : Nat, sends : Nat]]
    <3> DEFINE a == ack[wk[w].tkt]
    <3>1. a \in [rows : Nat, sends : Nat]
      BY <2>1 DEF TypeInv, TypeOK
    <3> DEFINE b == [a EXCEPT !.rows = a.rows + 1]
               c == [a EXCEPT !.sends = a.sends + 1]
    <3>2. b \in [rows : Nat, sends : Nat] /\ c \in [rows : Nat, sends : Nat]
      BY <3>1
    <3>3. \/ ack' = [ack EXCEPT ![wk[w].tkt] = b]
          \/ ack' = [ack EXCEPT ![wk[w].tkt] = c]
          \/ UNCHANGED ack
      BY <1>31 DEF AckRow, AckEnqueue, AckHiccup
    <3>4. ack \in [Tickets -> [rows : Nat, sends : Nat]]
      BY DEF TypeInv, TypeOK
    <3> HIDE DEF a, b, c
    <3> QED
      BY <2>1, <3>2, <3>3, <3>4
  <2> QED
    BY <1>31, <2>2, <2>3 DEF AckRow, AckEnqueue, AckHiccup, TypeInv, TypeOK, TicketInv, JobInv
<1>33. ASSUME NEW w \in Workers, Finish(w) PROVE TypeInv'
  <2> DEFINE j == [job[wk[w].upd] EXCEPT !.state = "completed"]
  <2>1. wk[w].pc # "idle" /\ wk[w].upd \in Updates /\ job[wk[w].upd] \in Job
    BY <1>33 DEF Finish, TypeInv, TypeOK, WorkerInv
  <2>2. j \in Job /\ j.state = "completed"
    BY <2>1 DEF Job, JobStates
  <2>3. job' = [job EXCEPT ![wk[w].upd] = j] /\ wk' = [wk EXCEPT ![w] = IdleWorker]
    BY <1>33 DEF Finish, Upd
  <2> HIDE DEF j
  <2>4. wk' \in [Workers -> WorkerState] /\ WorkerInv' /\ job' \in [Updates -> Job] /\ JobInv'
    BY <1>33, <2>1, <2>2, <2>3, WorkerReleases DEF Finish
  <2> QED
    BY <1>33, <2>1, <2>4 DEF Finish, Upd, TypeInv, TypeOK, TicketInv
<1>34. ASSUME NEW w \in Workers, StepFails(w) PROVE TypeInv'
  BY <1>34, Throws DEF StepFails, TypeInv, TypeOK, TicketInv
<1>35. ASSUME NEW w \in Workers, Crash(w) PROVE TypeInv'
  <2> DEFINE i == job[wk[w].upd]
             j == AfterStall(i)
  <2>1. wk[w].pc # "idle" /\ wk[w].upd \in Updates /\ i \in Job /\ i.made < Attempts
    BY <1>35 DEF Crash, TypeInv, TypeOK, WorkerInv, JobInv
  <2>2. j \in Job /\ j.made < Attempts
    <3>1. CASE i.stalled < MaxStalls
      <4> DEFINE n == i.stalled + 1
      <4>1. n \in 0 .. MaxStalls /\ "waiting" \in JobStates
        BY <2>1, <3>1 DEF Job, JobStates
      <4>2. j = [i EXCEPT !.state = "waiting", !.stalled = n]
        BY <3>1 DEF AfterStall
      <4> HIDE DEF n
      <4> QED
        BY <2>1, <4>1, <4>2 DEF Job
    <3>2. CASE ~(i.stalled < MaxStalls)
      BY <2>1, <3>2 DEF Job, JobStates, AfterStall
    <3> QED
      BY <3>1, <3>2
  <2>3. job' = [job EXCEPT ![wk[w].upd] = j] /\ wk' = [wk EXCEPT ![w] = IdleWorker]
    BY <1>35 DEF Crash, Upd
  <2> HIDE DEF j
  <2>4. wk' \in [Workers -> WorkerState] /\ WorkerInv' /\ job' \in [Updates -> Job] /\ JobInv'
    BY <1>35, <2>1, <2>2, <2>3, WorkerReleases DEF Crash
  <2> QED
    BY <1>35, <2>4 DEF Crash, TypeInv, TypeOK, TicketInv
<1> QED
  <2>1. ASSUME Telegram PROVE TypeInv'
    BY <2>1, <1>2, <1>3, <1>4, <1>5, <1>6, <1>7 DEF Telegram
  <2>2. ASSUME Admin PROVE TypeInv'
    BY <2>2, <1>8, <1>9, <1>10, <1>11, <1>12 DEF Admin
  <2>3. ASSUME Agent PROVE TypeInv'
    BY <2>3, <1>13, <1>14, <1>15, <1>16, <1>17 DEF Agent
  <2>4. ASSUME Worker PROVE TypeInv'
    BY <2>4, <1>20, <1>21, <1>22, <1>23, <1>24, <1>25, <1>26, <1>27, <1>28, <1>29, <1>30, <1>31,
       <1>33, <1>34, <1>35 DEF Worker, Step
  <2> QED
    BY <1>0, <1>1, <2>1, <2>2, <2>3, <2>4 DEF Next

(* Every reachable state of the pipeline is well typed, for any number of  *)
(* chats, messages, users, tickets, workers, attempts and any faults.      *)
THEOREM TypeCorrect == Spec => []TypeOK
<1>1. TypeInv => TypeOK
  BY DEF TypeInv
<1> QED
  BY <1>1, TypeInit, TypeStep, PTL DEF Spec
=============================================================================
