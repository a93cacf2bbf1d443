------------------------------- MODULE Ingest -------------------------------
(***************************************************************************)
(* The ingest pipeline: a Telegram group message becomes a row of a        *)
(* ticket.                                                                 *)
(*                                                                         *)
(*   Telegram -> webhook controller -> BullMQ ingest queue -> worker:      *)
(*   classify the sender -> find or create the chat and the customer ->    *)
(*   thread-grouping rules -> revive or create a ticket -> record the      *)
(*   message -> auto-acknowledge a new ticket.                             *)
(*                                                                         *)
(* Every `await` of the worker's handler is a point where agents, admins,  *)
(* Telegram and the other workers run, so the handler is cut into one      *)
(* action per database or queue call and a worker carries what it read in  *)
(* wk[w].  A failed call fails the attempt and BullMQ retries it; a crash  *)
(* of the worker process leaves the job to BullMQ's stalled-job check.     *)
(*                                                                         *)
(* Assumed of BullMQ: a job is held by one worker at a time (its lock is   *)
(* renewed while the handler awaits), and add() with a jobId that exists   *)
(* in any state is dropped.                                                *)
(***************************************************************************)
EXTENDS ThreadGrouping, FiniteSets

CONSTANTS
  Chats,           \* Telegram group chats
  Updates,         \* Telegram messages <<chat, message id>>; also the jobIds
  Users,           \* Telegram users writing in the chats
  Staff,           \* the users who are active agents
  Excludable,      \* the users whom agents ever exclude as "not a customer"
  Tickets,         \* ticket rows that can be created (bound)
  Workers,         \* ingest workers
  Attempts,        \* the queue's `attempts`
  MaxStalls,       \* BullMQ's maxStalledCount
  IdleWindow,      \* THREAD_IDLE_WINDOW_MINUTES, in clock ticks
  MaxTime,         \* last clock tick (bound)
  MaxRedeliveries, \* how often Telegram delivers an update again (bound)
  PatchStatuses,   \* statuses agents set in this instance
  AgentsReopen,    \* whether agents reopen closed or archived tickets
  Faults           \* the faults that happen: "step", "crash", "hiccup"

TgIds == {u[2] : u \in Updates}
Times == 0 .. MaxTime

(* A ticket row, as far as the pipeline reads or writes it. *)
TicketRow == [chat : Chats, customer : Users, status : Statuses,
              anchor : TgIds, lastClient : TgIds, updatedAt : Times]
Sent == [from : Users, replyTo : TgIds \union {None}]

ASSUME ConstantsAssumption ==
  /\ Updates \subseteq Chats \X (Nat \ {0})
  /\ Staff \subseteq Users
  /\ Excludable \subseteq Users
  /\ Attempts \in Nat \ {0}
  /\ MaxStalls \in Nat
  /\ IdleWindow \in Nat
  /\ MaxTime \in Nat
  /\ MaxRedeliveries \in Nat
  /\ PatchStatuses \subseteq Statuses
  /\ AgentsReopen \in BOOLEAN
  /\ Faults \subseteq {"step", "crash", "hiccup"}
ASSUME NoneAssumption ==
  /\ None \notin TicketRow
  /\ None \notin Sent
  /\ None \notin Tickets
  /\ None \notin Updates
  /\ None \notin Nat

VARIABLES
  now,          \* wall clock, in ticks
  sent,         \* [Updates -> None or who wrote it and what it replies to]
  outgoing,     \* [Updates -> None or the ticket whose bot message has this id]
  due,          \* updates Telegram still has to deliver (no 200 yet)
  redelivered,  \* number of repeated deliveries so far
  job,          \* [Updates -> BullMQ job of the ingest queue]
  byId,         \* [Users -> excluded_senders row with this telegramUserId]
  byName,       \* users with an active row holding only their username
  marking,      \* tickets being marked "not a customer", not closed yet
  chatRows,     \* chats with a row
  customerRows, \* users with a customer row
  ticket,       \* [Tickets -> None or a TicketRow]
  rowAt,        \* [Updates -> [Tickets -> None or message row's createdAt]]
  ack,          \* [Tickets -> bot acknowledgement rows and queued sends]
  wk,           \* [Workers -> handler state]
  ignored,      \* history: updates whose job ended as ignored-*
  muted,        \* history: updates sent by a sender excluded ever since
  sealed        \* history: <<u, t>> with t terminal since before u was sent

telegramVars == <<sent, outgoing, due, redelivered>>
exclusionVars == <<byId, byName, marking>>
tableVars == <<chatRows, customerRows, ticket, rowAt, ack>>
historyVars == <<ignored, muted, sealed>>
vars == <<now, telegramVars, job, exclusionVars, tableVars, wk, historyVars>>

-----------------------------------------------------------------------------
JobStates == {"none", "waiting", "active", "completed", "failed"}
Job == [state : JobStates, made : 0 .. Attempts, stalled : 0 .. MaxStalls]
NoJob == [state |-> "none", made |-> 0, stalled |-> 0]

(* Mutants of AfterFailure: one attempt too many; the error swallowed by a *)
(* catch in the processor; the failed attempt never released.              *)
AfterFailureOffByOne(j) ==
  [j EXCEPT !.made = @ + 1,
            !.state = IF j.made < Attempts THEN "waiting" ELSE "failed"]
AfterFailureSwallowed(j) == [j EXCEPT !.made = @ + 1, !.state = "completed"]
AfterFailureKept(j) == [j EXCEPT !.made = @ + 1]

(* A failed attempt: retried until `attempts` have been made. *)
AfterFailure(j) ==
  [j EXCEPT !.made = @ + 1,
            !.state = IF j.made + 1 < Attempts THEN "waiting" ELSE "failed"]

(* A stalled job goes back to the queue, maxStalledCount times at most. *)
AfterStall(j) ==
  IF j.stalled < MaxStalls
  THEN [j EXCEPT !.state = "waiting", !.stalled = @ + 1]
  ELSE [j EXCEPT !.state = "failed"]

PCs == {"idle", "classify", "findChat", "createChat", "findCustomer",
        "createCustomer", "rule1", "rule2", "revive", "create", "record",
        "ackRow", "ackEnqueue", "finish"}
IdleWorker == [pc |-> "idle", upd |-> None, tkt |-> None, isNew |-> FALSE,
               at |-> 0]

Init ==
  /\ now = 0
  /\ sent = [u \in Updates |-> None]
  /\ outgoing = [u \in Updates |-> None]
  /\ due = {}
  /\ redelivered = 0
  /\ job = [u \in Updates |-> NoJob]
  /\ byId = [x \in Users |-> "absent"]
  /\ byName = {}
  /\ marking = {}
  /\ chatRows = {}
  /\ customerRows = {}
  /\ ticket = [t \in Tickets |-> None]
  /\ rowAt = [u \in Updates |-> [t \in Tickets |-> None]]
  /\ ack = [t \in Tickets |-> [rows |-> 0, sends |-> 0]]
  /\ wk = [w \in Workers |-> IdleWorker]
  /\ ignored = {}
  /\ muted = {}
  /\ sealed = {}

-----------------------------------------------------------------------------
(* Telegram and the clock. *)

Tick ==
  /\ now < MaxTime
  /\ now' = now + 1
  /\ UNCHANGED <<telegramVars, job, exclusionVars, tableVars, wk, historyVars>>

Used(u) == sent[u] # None \/ outgoing[u] # None

(* Telegram numbers the messages of a chat in sending order. *)
NextId(u) == ~Used(u) /\ \A v \in Updates : v[1] = u[1] /\ v[2] < u[2] => Used(v)

Excluded(x) == byId[x] = "active" \/ x \in byName

Live(t) == ticket[t] # None /\ ticket[t].status \notin Terminal

(* A user posts in a group, possibly as a reply to an earlier message. *)
Send(u, x, r) ==
  /\ NextId(u)
  /\ r = None \/ \E v \in Updates : v[1] = u[1] /\ v[2] = r /\ Used(v)
  /\ sent' = [sent EXCEPT ![u] = [from |-> x, replyTo |-> r]]
  /\ due' = due \union {u}
  /\ muted' = IF Excluded(x) THEN muted \union {u} ELSE muted
  /\ sealed' = sealed \union {<<u, t>> : t \in {s \in Tickets : ticket[s] # None /\ ~Live(s)}}
  /\ UNCHANGED <<now, outgoing, redelivered, job, exclusionVars, tableVars, wk, ignored>>

(***************************************************************************)
(* Telegram delivers an update again: the 200 was lost, or the user edited *)
(* the message (an edited_message carries the same chat and message id).   *)
(***************************************************************************)
Redeliver(u) ==
  /\ sent[u] # None
  /\ u \notin due
  /\ redelivered < MaxRedeliveries
  /\ due' = due \union {u}
  /\ redelivered' = redelivered + 1
  /\ UNCHANGED <<now, sent, outgoing, job, exclusionVars, tableVars, wk, historyVars>>

(***************************************************************************)
(* POST /telegram/webhook: normalise, enqueue under jobId chat_message,    *)
(* answer 200.  An existing job with that id, whatever its state, wins.    *)
(***************************************************************************)
Webhook(u) ==
  /\ u \in due
  /\ due' = due \ {u}
  /\ job' = IF job[u].state = "none"
            THEN [job EXCEPT ![u].state = "waiting"] ELSE job
  /\ UNCHANGED <<now, sent, outgoing, redelivered, exclusionVars, tableVars, wk, historyVars>>

(* removeOnComplete / removeOnFail forget an old job and with it its jobId. *)
Evict(u) ==
  /\ job[u].state \in {"completed", "failed"}
  /\ job' = [job EXCEPT ![u] = NoJob]
  /\ UNCHANGED <<now, telegramVars, exclusionVars, tableVars, wk, historyVars>>

(* The outbound worker has a bot message of ticket t delivered by Telegram. *)
OutboundSend(t, u) ==
  /\ ticket[t] # None
  /\ ticket[t].chat = u[1]
  /\ NextId(u)
  /\ outgoing' = [outgoing EXCEPT ![u] = t]
  /\ UNCHANGED <<now, sent, due, redelivered, job, exclusionVars, tableVars, wk, historyVars>>

(* confirmOutgoingSent: only now can a reply to that message find the ticket. *)
OutboundConfirm(u) ==
  /\ outgoing[u] # None
  /\ rowAt[u][outgoing[u]] = None
  /\ rowAt' = [rowAt EXCEPT ![u][outgoing[u]] = now]
  /\ UNCHANGED <<now, telegramVars, job, exclusionVars, chatRows, customerRows,
                 ticket, ack, wk, historyVars>>

-----------------------------------------------------------------------------
(* Admins: the excluded-senders directory. *)

(* Forget the mutes of a sender who is no longer excluded. *)
StillMuted(id, name) ==
  {u \in muted : id[sent[u].from] = "active" \/ sent[u].from \in name}

(* POST /excluded-senders with a telegram_user_id (unique: one row per id). *)
ExcludeById(x) ==
  /\ x \in Excludable
  /\ byId[x] = "absent"
  /\ byId' = [byId EXCEPT ![x] = "active"]
  /\ UNCHANGED <<now, telegramVars, job, byName, marking, tableVars, wk, historyVars>>

(* POST /excluded-senders with only a username. *)
ExcludeByName(x) ==
  /\ x \in Excludable
  /\ byName' = byName \union {x}
  /\ UNCHANGED <<now, telegramVars, job, byId, marking, tableVars, wk, historyVars>>

(* PATCH is_active on the row that has the id. *)
SetActive(x, state) ==
  /\ byId[x] # "absent"
  /\ byId' = [byId EXCEPT ![x] = state]
  /\ muted' = StillMuted(byId', byName)
  /\ UNCHANGED <<now, telegramVars, job, byName, marking, tableVars, wk, ignored, sealed>>

(* DELETE of either row. *)
RemoveById(x) ==
  /\ byId[x] # "absent"
  /\ byId' = [byId EXCEPT ![x] = "absent"]
  /\ muted' = StillMuted(byId', byName)
  /\ UNCHANGED <<now, telegramVars, job, byName, marking, tableVars, wk, ignored, sealed>>

RemoveByName(x) ==
  /\ x \in byName
  /\ byName' = byName \ {x}
  /\ muted' = StillMuted(byId, byName')
  /\ UNCHANGED <<now, telegramVars, job, byId, marking, tableVars, wk, ignored, sealed>>

-----------------------------------------------------------------------------
(* Agents. *)

(* for: the message a worker is handling, None for an agent.  What reopens *)
(* a ticket unseals it for all messages but the one that is the reason.    *)
SetStatus(t, s, for) ==
  /\ ticket' = [ticket EXCEPT ![t] = [@ EXCEPT !.status = s, !.updatedAt = now]]
  /\ sealed' = IF s \in Terminal THEN sealed ELSE {p \in sealed : p[2] # t \/ p[1] = for}

(* patch / close / reopen / snooze with a status; none looks at the old one. *)
AgentPatch(t, s) ==
  /\ ticket[t] # None
  /\ Live(t) \/ s \in Terminal \/ AgentsReopen
  /\ SetStatus(t, s, None)
  /\ UNCHANGED <<now, telegramVars, job, exclusionVars, chatRows, customerRows,
                 rowAt, ack, wk, ignored, muted>>

(* assign, claim, a patch without a status: the row's updatedAt moves too. *)
AgentTouch(t) ==
  /\ ticket[t] # None
  /\ ticket' = [ticket EXCEPT ![t] = [@ EXCEPT !.updatedAt = now]]
  /\ UNCHANGED <<now, telegramVars, job, exclusionVars, chatRows, customerRows,
                 rowAt, ack, wk, historyVars>>

(***************************************************************************)
(* markTicketSenderAsNotCustomer: upsert the exclusion, then, in a second  *)
(* statement and no transaction, close the ticket.                         *)
(***************************************************************************)
MarkExclude(t) ==
  /\ ticket[t] # None
  /\ ticket[t].customer \in Excludable
  /\ byId' = [byId EXCEPT ![ticket[t].customer] = "active"]
  /\ marking' = marking \union {t}
  /\ UNCHANGED <<now, telegramVars, job, byName, tableVars, wk, historyVars>>

MarkClose(t) ==
  /\ t \in marking
  /\ SetStatus(t, "closed", None)
  /\ marking' = marking \ {t}
  /\ UNCHANGED <<now, telegramVars, job, byId, byName, chatRows, customerRows,
                 rowAt, ack, wk, ignored, muted>>

(* The API process dies or the second statement fails. *)
MarkAbort(t) ==
  /\ t \in marking
  /\ Faults # {}
  /\ marking' = marking \ {t}
  /\ UNCHANGED <<now, telegramVars, job, byId, byName, tableVars, wk, historyVars>>

-----------------------------------------------------------------------------
(* An ingest worker: IngestOrchestratorService.process, one call at a time. *)

Upd(w) == wk[w].upd
Message(w) == sent[Upd(w)]
ChatOf(w) == Upd(w)[1]

Goto(w, pc) == wk' = [wk EXCEPT ![w] = [@ EXCEPT !.pc = pc]]

(* Mutant: isNewTicket left at true on the attach path. *)
AttachAsNew(w, t) ==
  [wk[w] EXCEPT !.pc = IF ticket[t].status # "open" THEN "revive" ELSE "record",
                !.tkt = t, !.isNew = TRUE, !.at = 0]

(* Decision 'attach', which never counts as a new ticket. *)
Attach(w, t) ==
  [wk[w] EXCEPT !.pc = IF ticket[t].status # "open" THEN "revive" ELSE "record",
                !.tkt = t, !.isNew = FALSE, !.at = 0]

(* The handler throws: BullMQ fails the attempt. *)
Throw(w) ==
  /\ job' = [job EXCEPT ![Upd(w)] = AfterFailure(@)]
  /\ wk' = [wk EXCEPT ![w] = IdleWorker]

Take(w, u) ==
  /\ wk[w].pc = "idle"
  /\ job[u].state = "waiting"
  /\ job' = [job EXCEPT ![u].state = "active"]
  /\ wk' = [wk EXCEPT ![w] = [IdleWorker EXCEPT !.pc = "classify", !.upd = u]]
  /\ UNCHANGED <<now, telegramVars, exclusionVars, tableVars, historyVars>>

(* Mutant: classify looks for a row by username only. *)
ExcludedByIdUnchecked(x) == FALSE

ExcludedById(x) == byId[x] = "active"

(***************************************************************************)
(* ClientDetectionService.classify.  A username-only exclusion gets the    *)
(* sender's id written into it; when an inactive row already holds that id *)
(* the unique index refuses the write and the attempt fails.               *)
(***************************************************************************)
Classify(w) ==
  LET x == Message(w).from
  IN  /\ wk[w].pc = "classify"
      /\ \/ /\ x \in Staff \/ ExcludedById(x)
            /\ Goto(w, "finish")
            /\ UNCHANGED <<byId, byName, job>>
         \/ /\ x \notin Staff /\ byId[x] = "absent" /\ x \in byName
            /\ byId' = [byId EXCEPT ![x] = "active"]
            /\ byName' = byName \ {x}
            /\ Goto(w, "finish")
            /\ UNCHANGED job
         \/ /\ x \notin Staff /\ byId[x] = "inactive" /\ x \in byName
            /\ Throw(w)
            /\ UNCHANGED <<byId, byName>>
         \/ /\ x \notin Staff /\ ~ExcludedById(x) /\ x \notin byName
            /\ Goto(w, "findChat")
            /\ UNCHANGED <<byId, byName, job>>
      /\ UNCHANGED <<now, telegramVars, marking, tableVars, historyVars>>

FindChat(w) ==
  /\ wk[w].pc = "findChat"
  /\ Goto(w, IF ChatOf(w) \in chatRows THEN "findCustomer" ELSE "createChat")
  /\ UNCHANGED <<now, telegramVars, job, exclusionVars, tableVars, historyVars>>

(* telegramChatId is unique: losing the race to create the row throws. *)
CreateChat(w) ==
  /\ wk[w].pc = "createChat"
  /\ \/ /\ ChatOf(w) \notin chatRows
        /\ chatRows' = chatRows \union {ChatOf(w)}
        /\ Goto(w, "findCustomer")
        /\ UNCHANGED job
     \/ /\ ChatOf(w) \in chatRows
        /\ Throw(w)
        /\ UNCHANGED chatRows
  /\ UNCHANGED <<now, telegramVars, exclusionVars, customerRows, ticket, rowAt,
                 ack, historyVars>>

(* decide() is called with `now: new Date()` once the customer is known. *)
StartGrouping(w) ==
  wk' = [wk EXCEPT ![w] =
           [@ EXCEPT !.pc = IF Message(w).replyTo = None THEN "rule2" ELSE "rule1",
                     !.at = now]]

FindCustomer(w) ==
  /\ wk[w].pc = "findCustomer"
  /\ IF Message(w).from \in customerRows
     THEN StartGrouping(w) ELSE Goto(w, "createCustomer")
  /\ UNCHANGED <<now, telegramVars, job, exclusionVars, tableVars, historyVars>>

CreateCustomer(w) ==
  /\ wk[w].pc = "createCustomer"
  /\ \/ /\ Message(w).from \notin customerRows
        /\ customerRows' = customerRows \union {Message(w).from}
        /\ StartGrouping(w)
        /\ UNCHANGED job
     \/ /\ Message(w).from \in customerRows
        /\ Throw(w)
        /\ UNCHANGED customerRows
  /\ UNCHANGED <<now, telegramVars, exclusionVars, chatRows, ticket, rowAt, ack,
                 historyVars>>

(* Rule 1: a reply to a message of a thread that is not closed. *)
Rule1(w) ==
  LET found == FindTicketByAnchorMessage(ticket, rowAt, ChatOf(w), Message(w).replyTo)
  IN  /\ wk[w].pc = "rule1"
      /\ \/ \E t \in found :
              wk' = [wk EXCEPT ![w] = IF AnchorMatches(ticket[t].status)
                                      THEN Attach(w, t)
                                      ELSE [@ EXCEPT !.pc = "rule2"]]
         \/ found = {} /\ Goto(w, "rule2")
      /\ UNCHANGED <<now, telegramVars, job, exclusionVars, tableVars, historyVars>>

(* Rule 2: the customer's freshest live ticket here, if it is not idle.    *)
(* Rule 3: otherwise a new ticket.                                         *)
Rule2(w) ==
  LET found == FindMostRecentActiveTicket(ticket, ChatOf(w), Message(w).from)
      New == [wk[w] EXCEPT !.pc = "create", !.at = 0]
  IN  /\ wk[w].pc = "rule2"
      /\ \/ \E t \in found :
              wk' = [wk EXCEPT ![w] =
                       IF ActiveMatches(ticket[t], wk[w].at, IdleWindow)
                       THEN Attach(w, t) ELSE New]
         \/ found = {} /\ wk' = [wk EXCEPT ![w] = New]
      /\ UNCHANGED <<now, telegramVars, job, exclusionVars, tableVars, historyVars>>

(* tickets.patch(ticketId, { status: 'open' }, null): unconditional. *)
Revive(w) ==
  /\ wk[w].pc = "revive"
  /\ SetStatus(wk[w].tkt, "open", wk[w].upd)
  /\ Goto(w, "record")
  /\ UNCHANGED <<now, telegramVars, job, exclusionVars, chatRows, customerRows,
                 rowAt, ack, ignored, muted>>

(* createForNewThread: status takes its column default. *)
Create(w) ==
  /\ wk[w].pc = "create"
  /\ \E t \in Tickets :
       /\ ticket[t] = None
       /\ ticket' = [ticket EXCEPT ![t] =
            [chat |-> ChatOf(w), customer |-> Message(w).from, status |-> "open",
             anchor |-> Upd(w)[2], lastClient |-> Upd(w)[2], updatedAt |-> now]]
       /\ wk' = [wk EXCEPT ![w] = [@ EXCEPT !.pc = "record", !.tkt = t, !.isNew = TRUE]]
  /\ UNCHANGED <<now, telegramVars, job, exclusionVars, chatRows, customerRows,
                 rowAt, ack, historyVars>>

(* The unique index (tgMessageId, ticketId). *)
AlreadyStored(t, tg) == \E v \in Updates : v[2] = tg /\ rowAt[v][t] # None

(***************************************************************************)
(* recordIncoming: row and lastClientMessageTgId in one transaction; a     *)
(* duplicate key means "already processed" and skips the acknowledgement.  *)
(***************************************************************************)
Record(w) ==
  LET t == wk[w].tkt
  IN  /\ wk[w].pc = "record"
      /\ \/ /\ AlreadyStored(t, Upd(w)[2])
            /\ Goto(w, "finish")
            /\ UNCHANGED <<rowAt, ticket>>
         \/ /\ ~AlreadyStored(t, Upd(w)[2])
            /\ rowAt' = [rowAt EXCEPT ![Upd(w)][t] = now]
            /\ ticket' = [ticket EXCEPT ![t] =
                          [@ EXCEPT !.lastClient = Upd(w)[2], !.updatedAt = now]]
            /\ Goto(w, IF wk[w].isNew THEN "ackRow" ELSE "finish")
      /\ UNCHANGED <<now, telegramVars, job, exclusionVars, chatRows, customerRows,
                     ack, historyVars>>

(* sendAutoAcknowledgement: a bot row, then the outbound job. *)
AckRow(w) ==
  /\ wk[w].pc = "ackRow"
  /\ ack' = [ack EXCEPT ![wk[w].tkt].rows = @ + 1]
  /\ Goto(w, "ackEnqueue")
  /\ UNCHANGED <<now, telegramVars, job, exclusionVars, chatRows, customerRows,
                 ticket, rowAt, historyVars>>

AckEnqueue(w) ==
  /\ wk[w].pc = "ackEnqueue"
  /\ ack' = [ack EXCEPT ![wk[w].tkt].sends = @ + 1]
  /\ Goto(w, "finish")
  /\ UNCHANGED <<now, telegramVars, job, exclusionVars, chatRows, customerRows,
                 ticket, rowAt, historyVars>>

(* An error while acknowledging is logged and swallowed. *)
AckHiccup(w) ==
  /\ "hiccup" \in Faults
  /\ wk[w].pc \in {"ackRow", "ackEnqueue"}
  /\ Goto(w, "finish")
  /\ UNCHANGED <<now, telegramVars, job, exclusionVars, tableVars, historyVars>>

(* The handler returns; without a ticket the outcome was ignored-*. *)
Finish(w) ==
  /\ wk[w].pc = "finish"
  /\ job' = [job EXCEPT ![Upd(w)].state = "completed"]
  /\ ignored' = IF wk[w].tkt = None THEN ignored \union {Upd(w)} ELSE ignored
  /\ wk' = [wk EXCEPT ![w] = IdleWorker]
  /\ UNCHANGED <<now, telegramVars, exclusionVars, tableVars, muted, sealed>>

(* A database or Redis call of the handler rejects before it took effect. *)
StepFails(w) ==
  /\ "step" \in Faults
  /\ wk[w].pc \notin {"idle", "ackRow", "ackEnqueue", "finish"}
  /\ Throw(w)
  /\ UNCHANGED <<now, telegramVars, exclusionVars, tableVars, historyVars>>

(* The worker process dies anywhere in the handler; the job stalls. *)
Crash(w) ==
  /\ "crash" \in Faults
  /\ wk[w].pc # "idle"
  /\ job' = [job EXCEPT ![Upd(w)] = AfterStall(@)]
  /\ wk' = [wk EXCEPT ![w] = IdleWorker]
  /\ UNCHANGED <<now, telegramVars, exclusionVars, tableVars, historyVars>>

-----------------------------------------------------------------------------
Telegram ==
  \E u \in Updates :
    \/ \E x \in Users, r \in TgIds \union {None} : Send(u, x, r)
    \/ Redeliver(u)
    \/ Webhook(u)
    \/ Evict(u)
    \/ \E t \in Tickets : OutboundSend(t, u)
    \/ OutboundConfirm(u)

Admin ==
  \E x \in Users :
    \/ ExcludeById(x)
    \/ ExcludeByName(x)
    \/ \E s \in {"active", "inactive"} : SetActive(x, s)
    \/ RemoveById(x)
    \/ RemoveByName(x)

Agent ==
  \E t \in Tickets :
    \/ \E s \in PatchStatuses : AgentPatch(t, s)
    \/ AgentTouch(t)
    \/ MarkExclude(t)
    \/ MarkClose(t)
    \/ MarkAbort(t)

(* The steps of a handler that runs. *)
Step(w) ==
  \/ Classify(w)
  \/ FindChat(w)
  \/ CreateChat(w)
  \/ FindCustomer(w)
  \/ CreateCustomer(w)
  \/ Rule1(w)
  \/ Rule2(w)
  \/ Revive(w)
  \/ Create(w)
  \/ Record(w)
  \/ AckRow(w)
  \/ AckEnqueue(w)
  \/ Finish(w)

Worker ==
  \E w \in Workers :
    \/ \E u \in Updates : Take(w, u)
    \/ Step(w)
    \/ AckHiccup(w)
    \/ StepFails(w)
    \/ Crash(w)

Next == Tick \/ Telegram \/ Admin \/ Agent \/ Worker

Spec == Init /\ [][Next]_vars

(***************************************************************************)
(* Telegram keeps delivering an update until it gets a 200, a free worker  *)
(* takes a waiting job, and a running handler goes on (Node's event loop). *)
(* Nothing is assumed of users, agents, admins, the clock or the faults.   *)
(***************************************************************************)
Fairness ==
  /\ \A u \in Updates : WF_vars(Webhook(u))
  /\ \A w \in Workers : WF_vars(\E u \in Updates : Take(w, u)) /\ WF_vars(Step(w))

FairSpec == Spec /\ Fairness

-----------------------------------------------------------------------------
(* Properties. *)

WorkerState == [pc : PCs, upd : Updates \union {None}, tkt : Tickets \union {None},
                isNew : BOOLEAN, at : Times]

(* Every variable has its type; no job is attempted more often than the    *)
(* queue's `attempts` allow, however failures and stalls are interleaved.  *)
TypeOK ==
  /\ now \in Times
  /\ sent \in [Updates -> Sent \union {None}]
  /\ outgoing \in [Updates -> Tickets \union {None}]
  /\ due \subseteq Updates
  /\ redelivered \in 0 .. MaxRedeliveries
  /\ job \in [Updates -> Job]
  /\ byId \in [Users -> {"absent", "active", "inactive"}]
  /\ byName \subseteq Users
  /\ marking \subseteq Tickets
  /\ chatRows \subseteq Chats
  /\ customerRows \subseteq Users
  /\ ticket \in [Tickets -> TicketRow \union {None}]
  /\ rowAt \in [Updates -> [Tickets -> Times \union {None}]]
  /\ ack \in [Tickets -> [rows : Nat, sends : Nat]]
  /\ wk \in [Workers -> WorkerState]
  /\ ignored \subseteq Updates
  /\ muted \subseteq Updates
  /\ sealed \subseteq Updates \X Tickets

Stored(u, t) == rowAt[u][t] # None

(* No customer message is lost by a job that reports success: a completed  *)
(* ingest job has its message in some ticket, or its sender is an agent or *)
(* someone the admins excluded.  Retries, crashes between the ticket and   *)
(* the message, lost creation races and forgotten jobIds are all in play.  *)
CompletedIsAccountedFor ==
  \A u \in Updates : job[u].state = "completed" =>
    \/ \E t \in Tickets : Stored(u, t)
    \/ u \in ignored /\ sent[u].from \in Staff \union Excludable

(* "Never create a ticket, never reach one": no message of an active agent *)
(* is in a ticket, and neither is a message sent when its sender was       *)
(* excluded and who stayed excluded, even while "mark as not customer" and *)
(* older messages of the same sender are in flight.                        *)
NonCustomersNeverTicketed ==
  \A u \in Updates, t \in Tickets : Stored(u, t) /\ sent[u] # None =>
    sent[u].from \notin Staff /\ u \notin muted

(* A ticket is acknowledged to the customer at most once, whatever is      *)
(* retried, redelivered or evicted from the queue.                         *)
AckOnce == \A t \in Tickets : ack[t].rows <= 1 /\ ack[t].sends <= ack[t].rows

(* Telegram numbers messages per chat, and a message row keeps no chat:    *)
(* still no message ends up in a ticket of another chat.                   *)
RowsStayInChat ==
  \A u \in Updates, t \in Tickets : Stored(u, t) =>
    ticket[t] # None /\ ticket[t].chat = u[1]

(* The message a row of ticket t stores is what u replies to. *)
RepliesInto(u, t) ==
  \E v \in Updates : v[1] = u[1] /\ v[2] = sent[u].replyTo /\ Stored(v, t)

(* A message of somebody else than the ticket's customer is in the ticket  *)
(* only as a reply to a message of that very ticket (rule 1), although the *)
(* rule looks rows up by a message id that other chats use as well.        *)
StrangersOnlyByReply ==
  \A u \in Updates, t \in Tickets : Stored(u, t) /\ sent[u] # None =>
    sent[u].from = ticket[t].customer \/ RepliesInto(u, t)

(* A message sent after a ticket was closed or archived is never added to  *)
(* that ticket, and does not reopen it either: not until an agent, or the  *)
(* revive of another message, has made it a live thread again.             *)
ClosedGetsNothingNew ==
  \A u \in Updates, t \in Tickets : <<u, t>> \in sealed => ~Stored(u, t)

(* A worker about to open a new ticket overlooks no live thread of the     *)
(* same customer in the same chat that got a client message within the     *)
(* idle window.                                                            *)
NoSplitThread ==
  \A w \in Workers : wk[w].pc = "create" =>
    ~\E t \in Tickets, u \in Updates :
       /\ Live(t)
       /\ ticket[t].chat = ChatOf(w)
       /\ ticket[t].customer = Message(w).from
       /\ Stored(u, t) /\ sent[u] # None
       /\ WithinIdleWindow(rowAt[u][t], now, IdleWindow)

(* Every update Telegram holds for delivery, and every ingest job, is      *)
(* eventually settled: completed, or failed with its attempts exhausted.   *)
(* None is left waiting or running, whatever fails or crashes on the way.  *)
EveryUpdateSettles ==
  \A u \in Updates : u \in due \/ job[u].state \in {"waiting", "active"}
                       ~> job[u].state \in {"completed", "failed"}

(* Ingest never takes a closed or archived ticket back to a live status:   *)
(* closing is final for the pipeline and only agents reopen.               *)
IngestNeverReopens ==
  [][\A t \in Tickets, w \in Workers :
       wk'[w] # wk[w] /\ ticket[t] # None /\ ~Live(t) => ~Live(t)']_vars
=============================================================================
