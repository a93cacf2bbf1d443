------------------------------ MODULE Replies ------------------------------
(***************************************************************************)
(* Agent replies: from POST /tickets/:id/reply to the messages that appear *)
(* in the Telegram chat.                                                   *)
(*                                                                         *)
(*   MessagesService.recordOutgoingReply (API process)                     *)
(*     -> BullMQ outbound queue                                            *)
(*     -> OutboundProcessor (worker process): TelegramService.sendReply,   *)
(*        then confirmOutgoingSent.                                        *)
(*                                                                         *)
(* The bot's acknowledgement of a new ticket travels the same way and      *)
(* shares the ticket's message log, so the ingest handler's part in it is  *)
(* here too.  One chat; a message's Telegram id is its position in it, a   *)
(* row's database id its position in the table, which is also its          *)
(* createdAt order.                                                        *)
(***************************************************************************)
EXTENDS Integers, Sequences, FiniteSets

CONSTANTS
  Tickets,    \* tickets of the chat
  Requests,   \* reply requests the API handles at a time
  Senders,    \* outbound jobs in progress at a time
  Modes,      \* how agents set asReply: "auto", "force", "never"
  MaxParts,   \* most attachments of a reply; 1 also stands for plain text (bound)
  MaxClient,  \* client messages (bound)
  MaxReplies, \* agent replies and acknowledgements (bound)
  Attempts,   \* the outbound queue's `attempts`
  MaxStalls,  \* BullMQ's maxStalledCount
  Faults,     \* "request", "refused", "lost", "crash"
  None        \* SQL NULL, undefined

ASSUME ConstantsAssumption ==
  /\ Modes \subseteq {"auto", "force", "never"}
  /\ MaxParts \in Nat \ {0}
  /\ MaxClient \in Nat
  /\ MaxReplies \in Nat
  /\ Attempts \in Nat \ {0}
  /\ MaxStalls \in Nat
  /\ Faults \subseteq {"request", "refused", "lost", "crash"}
  /\ IsFiniteSet(Requests)

MaxRows == MaxClient + MaxReplies
RowIds == 1 .. MaxRows

Row == [ticket : Tickets, sender : {"customer", "agent", "bot"}, tg : Nat \union {None},
        parts : 1 .. MaxParts]
TicketRow == [anchor : Nat, lastClient : Nat, firstResponse : 0 .. MaxRows]

ASSUME NoneAssumption == None \notin Nat /\ None \notin Tickets /\ None \notin TicketRow

VARIABLES
  chat,    \* messages Telegram shows, in order: by whom, and what they quote
  rows,    \* the messages table, in createdAt order
  ticket,  \* [Tickets -> None or anchor, last client message, first response]
  opening, \* [Tickets -> what ingest has still to do for a new ticket]
  req,     \* [Requests -> state of a recordOutgoingReply call]
  job,     \* [RowIds -> outbound job of that row]
  out,     \* [Senders -> state of an OutboundProcessor.process call]
  rejected \* history: replies persisted by a request that failed afterwards

vars == <<chat, rows, ticket, opening, req, job, out, rejected>>

-----------------------------------------------------------------------------
TgIds == 1 .. Len(chat)

(* A message in the chat: row 0 is a client's, of which ticket t. *)
ClientPost(t) == [row |-> 0, part |-> 1, quote |-> None, ticket |-> t]
BotPost(m, part, quote) ==
  [row |-> m, part |-> part, quote |-> quote, ticket |-> rows[m].ticket]

NoJob == [state |-> "none", made |-> 0, stalled |-> 0, quote |-> None]
IdleRequest == [pc |-> "idle", ticket |-> None, mode |-> "auto", parts |-> 1,
                quote |-> None, responded |-> FALSE, row |-> 0]
IdleSender == [pc |-> "idle", row |-> 0, part |-> 1, first |-> None]

Init ==
  /\ chat = <<>>
  /\ rows = <<>>
  /\ ticket = [t \in Tickets |-> None]
  /\ opening = [t \in Tickets |-> "none"]
  /\ req = [r \in Requests |-> IdleRequest]
  /\ job = [m \in RowIds |-> NoJob]
  /\ out = [s \in Senders |-> IdleSender]
  /\ rejected = {}

RowsOf(t) == {m \in DOMAIN rows : rows[m].ticket = t}
FromClient(m) == rows[m].sender = "customer"
FromAgent(m) == rows[m].sender = "agent"

ClientRow(t, id) ==
  [ticket |-> t, sender |-> "customer", tg |-> id, parts |-> 1]
BotRow(t) ==
  [ticket |-> t, sender |-> "bot", tg |-> None, parts |-> 1]
AgentRow(t, parts) ==
  [ticket |-> t, sender |-> "agent", tg |-> None, parts |-> parts]

(* enqueueReply: no jobId, so every call is a job of its own. *)
Queued(m, quote) == job' = [job EXCEPT ![m] = [NoJob EXCEPT !.state = "waiting", !.quote = quote]]

-----------------------------------------------------------------------------
(* The ingest handler, as far as the ticket's log shows it. *)

ClientMessages == {i \in DOMAIN chat : chat[i].row = 0}
RepliesMade == {m \in DOMAIN rows : ~FromClient(m)}
Persisting == {r \in Requests : req[r].pc \in {"readLast", "persist"}}

(* The bound on replies, those about to be persisted included. *)
RoomForReply == Cardinality(RepliesMade) + Cardinality(Persisting) < MaxReplies

(* A client writes; t is the ticket the message will turn out to be of.    *)
ClientWrites(t) ==
  /\ Cardinality(ClientMessages) < MaxClient
  /\ chat' = Append(chat, ClientPost(t))
  /\ UNCHANGED <<rows, ticket, opening, req, job, out, rejected>>

(* Messages of ticket t that ingest has not stored: its jobs run in any     *)
(* order, retried ones last.                                                *)
Unstored(t) ==
  {i \in ClientMessages : /\ chat[i].ticket = t
                          /\ ~\E m \in DOMAIN rows : FromClient(m) /\ rows[m].tg = i}

(* createForNewThread: the ticket exists before its first message row. *)
CreateTicket(t, i) ==
  /\ ticket[t] = None
  /\ i \in Unstored(t)
  /\ ticket' = [ticket EXCEPT ![t] = [anchor |-> i, lastClient |-> i, firstResponse |-> 0]]
  /\ opening' = [opening EXCEPT ![t] = "record"]
  /\ UNCHANGED <<chat, rows, req, job, out, rejected>>

(* recordIncoming of the message that opened the ticket. *)
RecordFirst(t) ==
  /\ opening[t] = "record"
  /\ rows' = Append(rows, ClientRow(t, ticket[t].anchor))
  /\ ticket' = [ticket EXCEPT ![t].lastClient = ticket[t].anchor]
  /\ opening' = [opening EXCEPT ![t] = "ackRow"]
  /\ UNCHANGED <<chat, req, job, out, rejected>>

(* sendAutoAcknowledgement: the bot's row, then its outbound job. *)
AckRow(t) ==
  /\ opening[t] = "ackRow"
  /\ RoomForReply
  /\ rows' = Append(rows, BotRow(t))
  /\ opening' = [opening EXCEPT ![t] = "ackEnqueue"]
  /\ UNCHANGED <<chat, ticket, req, job, out, rejected>>

AckEnqueue(t) ==
  /\ opening[t] = "ackEnqueue"
  /\ \E m \in RowsOf(t) :
       /\ rows[m].sender = "bot"
       /\ Queued(m, ticket[t].anchor)
  /\ opening' = [opening EXCEPT ![t] = "done"]
  /\ UNCHANGED <<chat, rows, ticket, req, out, rejected>>

(* A failed acknowledgement is swallowed; after a crash the retried job     *)
(* attaches to its own ticket and no longer acknowledges.                   *)
AckDropped(t) ==
  /\ "crash" \in Faults
  /\ opening[t] \in {"ackRow", "ackEnqueue"}
  /\ opening' = [opening EXCEPT ![t] = "done"]
  /\ UNCHANGED <<chat, rows, ticket, req, job, out, rejected>>

(* recordIncoming of a message attached to the ticket: the one stored last  *)
(* becomes the last client message, even if it is older.                    *)
RecordLater(t, i) ==
  /\ ticket[t] # None
  /\ i \in Unstored(t)
  /\ opening[t] = "record" => i # ticket[t].anchor
  /\ rows' = Append(rows, ClientRow(t, i))
  /\ ticket' = [ticket EXCEPT ![t].lastClient = i]
  /\ UNCHANGED <<chat, opening, req, job, out, rejected>>

-----------------------------------------------------------------------------
(* recordOutgoingReply, one database or queue call at a time. *)

(* The ticket is read with its first response and last client message. *)
Reply(r, t, mode, parts) ==
  /\ req[r].pc = "idle"
  /\ ticket[t] # None
  /\ RoomForReply
  /\ req' = [req EXCEPT ![r] =
       [pc |-> IF mode = "auto" THEN "readLast" ELSE "persist",
        ticket |-> t, mode |-> mode, parts |-> parts,
        quote |-> IF mode = "never" THEN None ELSE ticket[t].lastClient,
        responded |-> ticket[t].firstResponse # 0, row |-> 0]]
  /\ UNCHANGED <<chat, rows, ticket, opening, job, out, rejected>>

(* Mutant: the newest row is quoted whoever wrote it. *)
AutoQuoteOfAnyone(last, anchor) ==
  IF last = {} THEN anchor ELSE rows[CHOOSE m \in last : TRUE].tg

(* Quote the newest message if it is the client's, the anchor if there is   *)
(* no message yet, and nothing otherwise.                                   *)
AutoQuote(last, anchor) ==
  IF last = {} THEN anchor
  ELSE LET m == CHOOSE n \in last : TRUE
       IN  IF FromClient(m) THEN rows[m].tg ELSE None

ReadLast(r) ==
  LET mine == RowsOf(req[r].ticket)
  IN  /\ req[r].pc = "readLast"
      /\ req' = [req EXCEPT ![r].pc = "persist",
                            ![r].quote = AutoQuote({m \in mine : \A n \in mine : n <= m}, @)]
      /\ UNCHANGED <<chat, rows, ticket, opening, job, out, rejected>>

(* Mutant: the bot's acknowledgement already counts as a first response. *)
StillUnansweredByAnyone(r) == \A m \in RowsOf(req[r].ticket) : FromClient(m)

(* `!ticket.firstResponseAt`, of the ticket as it was read. *)
StillUnanswered(r) == ~req[r].responded

(* One transaction: the row and, for a first reply, firstResponseAt. *)
Persist(r) ==
  LET t == req[r].ticket
      m == Len(rows) + 1
  IN  /\ req[r].pc = "persist"
      /\ rows' = Append(rows, AgentRow(t, req[r].parts))
      /\ ticket' = IF StillUnanswered(r)
                   THEN [ticket EXCEPT ![t].firstResponse = m] ELSE ticket
      /\ req' = [req EXCEPT ![r].pc = "enqueue", ![r].row = m]
      /\ UNCHANGED <<chat, opening, job, out, rejected>>

(* Mutant: a failed enqueue is swallowed, as the acknowledgement's is. *)
EnqueueSwallowed(r) ==
  /\ req[r].pc = "enqueue"
  /\ \/ Queued(req[r].row, req[r].quote)
     \/ UNCHANGED job
  /\ req' = [req EXCEPT ![r] = IdleRequest]
  /\ UNCHANGED <<chat, rows, ticket, opening, out, rejected>>

Enqueue(r) ==
  /\ req[r].pc = "enqueue"
  /\ Queued(req[r].row, req[r].quote)
  /\ req' = [req EXCEPT ![r] = IdleRequest]
  /\ UNCHANGED <<chat, rows, ticket, opening, out, rejected>>

(* A call of the handler rejects or the API process dies: the agent gets an *)
(* error; what was persisted stays, without a job.                          *)
RequestFails(r) ==
  /\ "request" \in Faults
  /\ req[r].pc # "idle"
  /\ rejected' = IF req[r].pc = "enqueue" THEN rejected \union {req[r].row} ELSE rejected
  /\ req' = [req EXCEPT ![r] = IdleRequest]
  /\ UNCHANGED <<chat, rows, ticket, opening, job, out>>

-----------------------------------------------------------------------------
(* OutboundProcessor.process. *)

Take(s, m) ==
  /\ out[s].pc = "idle"
  /\ job[m].state = "waiting"
  /\ job' = [job EXCEPT ![m].state = "active"]
  /\ out' = [out EXCEPT ![s] = [IdleSender EXCEPT !.pc = "send", !.row = m]]
  /\ UNCHANGED <<chat, rows, ticket, opening, req, rejected>>

(* reply_parameters go with the first part only. *)
QuoteOf(m, part) == IF part = 1 THEN job[m].quote ELSE None

Shown(m, part) == Append(chat, BotPost(m, part, QuoteOf(m, part)))

(* Mutant: sendReply returns the id of the part sent last. *)
LastTgMessageId(s) == Len(chat')

(* `if (index === 0) firstTgMessageId = ...` *)
FirstTgMessageId(s) == IF out[s].part = 1 THEN Len(chat') ELSE out[s].first

(* Telegram shows the part and answers with its id. *)
SendPart(s) ==
  LET m == out[s].row
      last == out[s].part = rows[m].parts
  IN  /\ out[s].pc = "send"
      /\ chat' = Shown(m, out[s].part)
      /\ out' = [out EXCEPT ![s] =
           [pc |-> IF last THEN "confirm" ELSE "send", row |-> m,
            part |-> IF last THEN @.part ELSE @.part + 1, first |-> FirstTgMessageId(s)]]
      /\ UNCHANGED <<rows, ticket, opening, req, job, rejected>>

(* Mutants of AfterFailure: one attempt too many; the error swallowed. *)
AfterFailureOffByOne(j) ==
  [j EXCEPT !.made = @ + 1,
            !.state = IF j.made < Attempts THEN "waiting" ELSE "failed"]
AfterFailureSwallowed(j) == [j EXCEPT !.made = @ + 1, !.state = "completed"]
AfterFailureKept(j) == [j EXCEPT !.made = @ + 1]

(* A failed attempt: retried until `attempts` have been made. *)
AfterFailure(j) ==
  [j EXCEPT !.made = @ + 1,
            !.state = IF j.made + 1 < Attempts THEN "waiting" ELSE "failed"]

AfterStall(j) ==
  IF j.stalled < MaxStalls
  THEN [j EXCEPT !.state = "waiting", !.stalled = @ + 1]
  ELSE [j EXCEPT !.state = "failed"]

Throw(s) ==
  /\ job' = [job EXCEPT ![out[s].row] = AfterFailure(@)]
  /\ out' = [out EXCEPT ![s] = IdleSender]

(* Telegram refuses the call, or it never arrives: nothing is shown. *)
SendRefused(s) ==
  /\ "refused" \in Faults
  /\ out[s].pc = "send"
  /\ Throw(s)
  /\ UNCHANGED <<chat, rows, ticket, opening, req, rejected>>

(* Telegram shows the part, but its answer is lost. *)
SendLost(s) ==
  /\ "lost" \in Faults
  /\ out[s].pc = "send"
  /\ chat' = Shown(out[s].row, out[s].part)
  /\ Throw(s)
  /\ UNCHANGED <<rows, ticket, opening, req, rejected>>

(* confirmOutgoingSent. *)
Confirm(s) ==
  /\ out[s].pc = "confirm"
  /\ rows' = [rows EXCEPT ![out[s].row].tg = out[s].first]
  /\ out' = [out EXCEPT ![s].pc = "complete"]
  /\ UNCHANGED <<chat, ticket, opening, req, job, rejected>>

ConfirmFails(s) ==
  /\ "refused" \in Faults
  /\ out[s].pc = "confirm"
  /\ Throw(s)
  /\ UNCHANGED <<chat, rows, ticket, opening, req, rejected>>

(* The handler returns and BullMQ completes the job. *)
Complete(s) ==
  /\ out[s].pc = "complete"
  /\ job' = [job EXCEPT ![out[s].row].state = "completed"]
  /\ out' = [out EXCEPT ![s] = IdleSender]
  /\ UNCHANGED <<chat, rows, ticket, opening, req, rejected>>

(* The worker process dies; the job stalls and is handed out again. *)
Crash(s) ==
  /\ "crash" \in Faults
  /\ out[s].pc # "idle"
  /\ job' = [job EXCEPT ![out[s].row] = AfterStall(@)]
  /\ out' = [out EXCEPT ![s] = IdleSender]
  /\ UNCHANGED <<chat, rows, ticket, opening, req, rejected>>

-----------------------------------------------------------------------------
IngestStep ==
  \E t \in Tickets :
    \/ ClientWrites(t)
    \/ \E i \in TgIds : CreateTicket(t, i) \/ RecordLater(t, i)
    \/ RecordFirst(t)
    \/ AckRow(t)
    \/ AckEnqueue(t)
    \/ AckDropped(t)

(* One step of a request that runs, whatever its outcome. *)
HandlerStep(r) ==
  \/ ReadLast(r)
  \/ Persist(r)
  \/ Enqueue(r)
  \/ RequestFails(r)

RequestStep ==
  \E r \in Requests :
    \/ \E t \in Tickets, mode \in Modes, parts \in 1 .. MaxParts : Reply(r, t, mode, parts)
    \/ HandlerStep(r)

(* One step of an outbound job that runs, whatever its outcome. *)
SenderStep(s) ==
  \/ SendPart(s)
  \/ SendRefused(s)
  \/ SendLost(s)
  \/ Confirm(s)
  \/ ConfirmFails(s)
  \/ Complete(s)

Outbound ==
  \E s \in Senders :
    \/ \E m \in RowIds : Take(s, m)
    \/ SenderStep(s)
    \/ Crash(s)

Next == IngestStep \/ RequestStep \/ Outbound

Spec == Init /\ [][Next]_vars

(* A free outbound worker takes a waiting job, and a running job or request *)
(* goes on: every awaited call settles, one way or the other.               *)
Fairness ==
  /\ \A r \in Requests : WF_vars(HandlerStep(r))
  /\ \A s \in Senders : WF_vars(\E m \in RowIds : Take(s, m)) /\ WF_vars(SenderStep(s))

FairSpec == Spec /\ Fairness

-----------------------------------------------------------------------------
(* Properties. *)

(* Every variable has its type; every row is in the bounded table, every    *)
(* active job is held by one sender and every busy sender holds its job.    *)
TypeOK ==
  /\ chat \in Seq([row : 0 .. MaxRows, part : 1 .. MaxParts,
                   quote : Nat \union {None}, ticket : Tickets])
  /\ rows \in Seq(Row) /\ Len(rows) <= MaxRows
  /\ ticket \in [Tickets -> {None} \union TicketRow]
  /\ opening \in [Tickets -> {"none", "record", "ackRow", "ackEnqueue", "done"}]
  /\ req \in [Requests -> [pc : {"idle", "readLast", "persist", "enqueue"},
                           ticket : Tickets \union {None}, mode : {"auto", "force", "never"},
                           parts : 1 .. MaxParts, quote : Nat \union {None},
                           responded : BOOLEAN, row : 0 .. MaxRows]]
  /\ job \in [RowIds -> [state : {"none", "waiting", "active", "completed", "failed"},
                         made : 0 .. Attempts, stalled : 0 .. MaxStalls,
                         quote : Nat \union {None}]]
  /\ out \in [Senders -> [pc : {"idle", "send", "confirm", "complete"}, row : 0 .. MaxRows,
                          part : 1 .. MaxParts, first : Nat \union {None}]]
  /\ \A m \in RowIds : job[m].state = "active" <=> \E s \in Senders : out[s].row = m
  /\ \A s, q \in Senders : out[s].row = out[q].row /\ out[s].row # 0 => s = q
  /\ \A m \in rejected : m \in DOMAIN rows /\ FromAgent(m) /\ job[m].state = "none"

Copies(m, part) == {i \in TgIds : chat[i].row = m /\ chat[i].part = part}

(* An outbound job that reports success has delivered every attachment of   *)
(* the reply and recorded the Telegram id, whatever failed before.          *)
CompletedIsDelivered ==
  \A m \in DOMAIN rows : job[m].state = "completed" =>
    /\ rows[m].tg # None
    /\ \A part \in 1 .. rows[m].parts : Copies(m, part) # {}

(* The Telegram id a reply's row gets is that of its own first part: a      *)
(* client's reply to it finds the right ticket (rule 1 of the grouping).    *)
ConfirmedIsFirstPart ==
  \A m \in DOMAIN rows : ~FromClient(m) /\ rows[m].tg # None => rows[m].tg \in Copies(m, 1)

(* Retries repeat a part, but never more often than the queue has attempts  *)
(* and stalls, whether the answer, the worker or a later part was lost.     *)
BoundedCopies ==
  \A m \in DOMAIN rows, part \in 1 .. MaxParts :
    Cardinality(Copies(m, part)) <= Attempts + MaxStalls

(* Whatever is quoted is a client's message of the same ticket, with other  *)
(* tickets of the chat, bot rows and unconfirmed replies around.            *)
QuotesOwnClient ==
  \A i \in TgIds : chat[i].quote # None =>
    LET q == chat[i].quote
    IN  q < i /\ chat[q].row = 0 /\ chat[q].ticket = chat[i].ticket

(* firstResponseAt is set exactly when an agent has answered; the bot's     *)
(* acknowledgement never counts, concurrent or failed requests included.    *)
FirstResponseIffAnswered ==
  \A t \in Tickets : ticket[t] # None =>
    (ticket[t].firstResponse # 0 <=> \E m \in RowsOf(t) : FromAgent(m))

(* No reply is forgotten: one that is in the ticket's history, or has a     *)
(* job, is eventually delivered and confirmed, or given up with its job     *)
(* failed, or its agent got an error though the row is there -- the one way *)
(* a reply shown to all agents is never sent.                               *)
Pending(m) ==
  \/ m \in DOMAIN rows /\ FromAgent(m)
  \/ job[m].state \in {"waiting", "active"}
Settled(m) == job[m].state \in {"completed", "failed"}
ReplySettles == \A m \in RowIds : Pending(m) ~> Settled(m) \/ m \in rejected
=============================================================================
