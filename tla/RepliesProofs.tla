--------------------------- MODULE RepliesProofs ---------------------------
(* Machine-checked proofs about Replies, for every value of its constants. *)
EXTENDS Replies, FiniteSetTheorems, TLAPS

USE ConstantsAssumption, NoneAssumption

PostType == [row : 0 .. MaxRows, part : 1 .. MaxParts, quote : Nat \union {None},
             ticket : Tickets]
ReqType == [pc : {"idle", "readLast", "persist", "enqueue"}, ticket : Tickets \union {None},
            mode : {"auto", "force", "never"}, parts : 1 .. MaxParts,
            quote : Nat \union {None}, responded : BOOLEAN, row : 0 .. MaxRows]
JobType == [state : {"none", "waiting", "active", "completed", "failed"},
            made : 0 .. Attempts, stalled : 0 .. MaxStalls, quote : Nat \union {None}]
OutType == [pc : {"idle", "send", "confirm", "complete"}, row : 0 .. MaxRows,
            part : 1 .. MaxParts, first : Nat \union {None}]

(* Appending, once for all the sequences of the model. *)
LEMMA Appended ==
  ASSUME NEW S, NEW s \in Seq(S), NEW x \in S
  PROVE  /\ Append(s, x) \in Seq(S)
         /\ Len(Append(s, x)) = Len(s) + 1
         /\ DOMAIN Append(s, x) = 1 .. Len(s) + 1
         /\ DOMAIN s = 1 .. Len(s) /\ Len(s) \in Nat
         /\ \A i \in DOMAIN s : Append(s, x)[i] = s[i]
         /\ Append(s, x)[Len(s) + 1] = x
OBVIOUS

-----------------------------------------------------------------------------
(* The inductive invariant, part by part.                                  *)

(* i is a client's message of ticket t. *)
ClientMsg(i, t) == i \in DOMAIN chat /\ chat[i].row = 0 /\ chat[i].ticket = t

(* The messages table, the tickets and the chat: client rows are distinct  *)
(* client messages of their own ticket.                                    *)
LogInv ==
  /\ chat \in Seq(PostType)
  /\ rows \in Seq(Row) /\ Len(rows) <= MaxRows
  /\ ticket \in [Tickets -> {None} \union TicketRow]
  /\ opening \in [Tickets -> {"none", "record", "ackRow", "ackEnqueue", "done"}]
  /\ \A t \in Tickets : opening[t] = "none" <=> ticket[t] = None
  /\ \A t \in Tickets : ticket[t] # None =>
        ClientMsg(ticket[t].anchor, t) /\ ClientMsg(ticket[t].lastClient, t)
  /\ \A t \in Tickets, m \in DOMAIN rows :
        opening[t] = "record" /\ FromClient(m) => rows[m].tg # ticket[t].anchor
  /\ \A m \in DOMAIN rows : FromClient(m) => ClientMsg(rows[m].tg, rows[m].ticket)
  /\ \A m, n \in DOMAIN rows :
        FromClient(m) /\ FromClient(n) /\ rows[m].tg = rows[n].tg => m = n
  /\ \A m \in DOMAIN rows : ticket[rows[m].ticket] # None
  /\ \A m \in DOMAIN rows :
        rows[m].sender = "bot" => opening[rows[m].ticket] \in {"ackEnqueue", "done"}
  /\ FirstResponseIffAnswered

(* The bounds of the model. *)
RoomInv ==
  /\ Cardinality(ClientMessages) <= MaxClient
  /\ Cardinality(RepliesMade) + Cardinality(Persisting) <= MaxReplies

(* Jobs are of replies and quote a client's message of the same ticket; a  *)
(* reply whose enqueue is still to come has none.                          *)
JobInv ==
  /\ job \in [RowIds -> JobType]
  /\ \A m \in RowIds : job[m].state = "none" => job[m] = NoJob
  /\ \A m \in RowIds : job[m].state # "none" =>
        /\ m \in DOMAIN rows /\ ~FromClient(m)
        /\ job[m].quote # None => ClientMsg(job[m].quote, rows[m].ticket)
  /\ \A m \in RowIds : job[m].state \in {"waiting", "active"} => job[m].made < Attempts
  /\ \A m \in DOMAIN rows :
        rows[m].sender = "bot" /\ opening[rows[m].ticket] = "ackEnqueue" => job[m].state = "none"
  /\ \A m \in rejected : m \in DOMAIN rows /\ FromAgent(m) /\ job[m].state = "none"

ReqInv ==
  /\ req \in [Requests -> ReqType]
  /\ \A r \in Requests : req[r].pc # "idle" =>
        /\ req[r].ticket \in Tickets /\ ticket[req[r].ticket] # None
        /\ req[r].quote # None => ClientMsg(req[r].quote, req[r].ticket)
        /\ req[r].responded => ticket[req[r].ticket].firstResponse # 0
  /\ \A r \in Requests : req[r].pc = "enqueue" =>
        /\ req[r].row \in DOMAIN rows /\ FromAgent(req[r].row)
        /\ rows[req[r].row].ticket = req[r].ticket
        /\ job[req[r].row].state = "none" /\ req[r].row \notin rejected
  /\ \A r, q \in Requests :
        req[r].pc = "enqueue" /\ req[q].pc = "enqueue" /\ req[r].row = req[q].row => r = q

(* What sender s has done of its job. *)
Progress(s) ==
  /\ out[s].row \in RowIds /\ job[out[s].row].state = "active"
  /\ out[s].part <= rows[out[s].row].parts
  /\ \A p \in 1 .. MaxParts : p < out[s].part => Copies(out[s].row, p) # {}
  /\ out[s].pc \in {"confirm", "complete"} =>
       out[s].part = rows[out[s].row].parts /\ Copies(out[s].row, out[s].part) # {}
  /\ out[s].pc \in {"confirm", "complete"} \/ out[s].part > 1 =>
       out[s].first \in Copies(out[s].row, 1)
  /\ out[s].pc = "complete" => rows[out[s].row].tg # None

OutInv ==
  /\ out \in [Senders -> OutType]
  /\ \A s \in Senders : out[s].pc = "idle" <=> out[s].row = 0
  /\ \A s \in Senders : out[s].pc # "idle" => Progress(s)
  /\ \A s, q \in Senders : out[s].row = out[q].row /\ out[s].row # 0 => s = q
  /\ \A m \in RowIds : job[m].state = "active" => \E s \in Senders : out[s].row = m

QuotesInv ==
  \A i \in TgIds : chat[i].quote # None =>
    chat[i].quote < i /\ ClientMsg(chat[i].quote, chat[i].ticket)

DeliveryInv == CompletedIsDelivered /\ ConfirmedIsFirstPart /\ QuotesInv

(* The attempt in progress has shown part p. *)
Underway(m, p) ==
  \E s \in Senders : out[s].row = m /\ (out[s].pc \in {"confirm", "complete"} \/ p < out[s].part)

CopiesInv ==
  \A m \in RowIds, p \in 1 .. MaxParts :
    Cardinality(Copies(m, p)) <=
      IF job[m].state \in {"completed", "failed"} THEN Attempts + MaxStalls
      ELSE job[m].made + job[m].stalled + (IF Underway(m, p) THEN 1 ELSE 0)

Inv == LogInv /\ RoomInv /\ JobInv /\ ReqInv /\ OutInv /\ DeliveryInv /\ CopiesInv

(* The sets that are counted are finite. *)
LEMMA Finite ==
  ASSUME chat \in Seq(PostType), rows \in Seq(Row)
  PROVE  /\ IsFiniteSet(ClientMessages) /\ Cardinality(ClientMessages) \in Nat
         /\ IsFiniteSet(RepliesMade) /\ Cardinality(RepliesMade) \in Nat
         /\ IsFiniteSet(Persisting) /\ Cardinality(Persisting) \in Nat
         /\ \A m, p : IsFiniteSet(Copies(m, p)) /\ Cardinality(Copies(m, p)) \in Nat
<1>1. IsFiniteSet(DOMAIN chat) /\ IsFiniteSet(DOMAIN rows) /\ IsFiniteSet(TgIds)
  <2>1. Len(chat) \in Int /\ Len(rows) \in Int /\ 1 \in Int
    OBVIOUS
  <2>2. IsFiniteSet(1 .. Len(chat)) /\ IsFiniteSet(1 .. Len(rows))
    BY <2>1, FS_Interval
  <2>3. DOMAIN chat = 1 .. Len(chat) /\ DOMAIN rows = 1 .. Len(rows)
    OBVIOUS
  <2> QED
    BY <2>2, <2>3 DEF TgIds
<1>2. ClientMessages \in SUBSET DOMAIN chat /\ RepliesMade \in SUBSET DOMAIN rows
      /\ Persisting \in SUBSET Requests /\ \A m, p : Copies(m, p) \in SUBSET TgIds
  BY DEF ClientMessages, RepliesMade, Persisting, Copies
<1>3. /\ IsFiniteSet(ClientMessages) /\ IsFiniteSet(RepliesMade) /\ IsFiniteSet(Persisting)
      /\ \A m, p : IsFiniteSet(Copies(m, p))
  BY <1>1, <1>2, FS_Subset
<1> QED
  BY <1>3, FS_CardinalityType

(* As many client rows as there are messages they may be of. *)
LEMMA RowsCount ==
  ASSUME LogInv, NEW T \in SUBSET ClientMessages,
         \A m \in DOMAIN rows : FromClient(m) => rows[m].tg \in T
  PROVE  Len(rows) <= Cardinality(T) + Cardinality(RepliesMade)
<1> DEFINE C == {m \in DOMAIN rows : FromClient(m)}
           f == [m \in C |-> rows[m].tg]
<1>1. chat \in Seq(PostType) /\ rows \in Seq(Row) /\ Len(rows) \in Nat
      /\ DOMAIN rows = 1 .. Len(rows)
  BY DEF LogInv
<1>2. /\ IsFiniteSet(ClientMessages) /\ IsFiniteSet(RepliesMade)
      /\ Cardinality(RepliesMade) \in Nat
  BY <1>1, Finite
<1>3. IsFiniteSet(T) /\ Cardinality(T) \in Nat
  BY <1>2, FS_Subset, FS_CardinalityType
<1>4. f \in Injection(C, T)
  BY DEF LogInv, Injection, IsInjective
<1>5. IsFiniteSet(C) /\ Cardinality(C) <= Cardinality(T)
  BY <1>3, <1>4, FS_Injection
<1> HIDE DEF f
<1>6. DOMAIN rows = C \union RepliesMade /\ C \cap RepliesMade = {}
  BY DEF RepliesMade
<1> HIDE DEF C
<1>7. Cardinality(C \union RepliesMade) =
        Cardinality(C) + Cardinality(RepliesMade) - Cardinality({})
  BY <1>2, <1>5, <1>6, FS_Union
<1>8. Cardinality({}) = 0 /\ Cardinality(C) \in Nat
  BY <1>5, FS_EmptySet, FS_CardinalityType
<1>9. Cardinality(1 .. Len(rows)) = Len(rows)
  <2>1. 1 \in Int /\ Len(rows) \in Int
    BY <1>1
  <2>2. Cardinality(1 .. Len(rows)) = IF 1 > Len(rows) THEN 0 ELSE Len(rows) - 1 + 1
    BY <2>1, FS_Interval
  <2> QED
    BY <1>1, <2>2
<1> QED
  BY <1>1, <1>2, <1>3, <1>5, <1>6, <1>7, <1>8, <1>9

(* The invariant contains what the theorems state. *)
LEMMA InvImplies ==
  Inv => /\ TypeOK /\ CompletedIsDelivered /\ ConfirmedIsFirstPart /\ BoundedCopies
         /\ QuotesOwnClient /\ FirstResponseIffAnswered
<1> SUFFICES ASSUME Inv PROVE TypeOK /\ BoundedCopies
  BY DEF Inv, DeliveryInv, LogInv, QuotesInv, QuotesOwnClient, ClientMsg
<1>1. \A m \in RowIds : job[m].state = "active" <=> \E s \in Senders : out[s].row = m
  BY DEF Inv, OutInv, Progress, RowIds, MaxRows
<1>2. TypeOK
  BY <1>1 DEF Inv, LogInv, JobInv, ReqInv, OutInv, TypeOK, PostType, ReqType, JobType, OutType
<1>3. BoundedCopies
  <2> SUFFICES ASSUME NEW m \in DOMAIN rows, NEW p \in 1 .. MaxParts
               PROVE  Cardinality(Copies(m, p)) <= Attempts + MaxStalls
    BY DEF BoundedCopies
  <2>1. m \in RowIds /\ job[m] \in JobType
    BY DEF Inv, LogInv, JobInv, RowIds, MaxRows
  <2>2. job[m].state \in {"completed", "failed"} =>
          Cardinality(Copies(m, p)) <= Attempts + MaxStalls
    BY <2>1 DEF Inv, CopiesInv
  <2>3. job[m].state \notin {"completed", "failed"} =>
          Cardinality(Copies(m, p)) <= job[m].made + job[m].stalled + (IF Underway(m, p) THEN 1 ELSE 0)
    BY <2>1 DEF Inv, CopiesInv
  <2>4. Cardinality(Copies(m, p)) \in Nat
    BY Finite DEF Inv, LogInv
  <2>5. CASE job[m].state \in {"waiting", "active"}
    BY <2>1, <2>3, <2>4, <2>5 DEF Inv, JobInv, JobType
  <2>6. CASE job[m].state = "none"
    <3>1. job[m].made = 0 /\ job[m].stalled = 0 /\ Attempts >= 1
      BY <2>1, <2>6 DEF Inv, JobInv, NoJob
    <3> QED
      BY <2>3, <2>4, <2>6, <3>1
  <2> QED
    BY <2>1, <2>2, <2>5, <2>6 DEF JobType
<1> QED
  BY <1>2, <1>3

LEMMA InvInit == Init => Inv
<1> SUFFICES ASSUME Init PROVE Inv
  OBVIOUS
<1>1. Cardinality({}) = 0
  BY FS_EmptySet
<1>2. ClientMessages = {} /\ RepliesMade = {} /\ Persisting = {} /\ \A m, p : Copies(m, p) = {}
  BY DEF Init, ClientMessages, RepliesMade, Persisting, Copies, TgIds, IdleRequest
<1>3. LogInv
  BY DEF Init, LogInv, FirstResponseIffAnswered, MaxRows
<1>4. RoomInv
  BY <1>1, <1>2 DEF RoomInv
<1>5. NoJob \in JobType /\ NoJob.state = "none" /\ NoJob.made = 0 /\ NoJob.stalled = 0
  BY DEF NoJob, JobType
<1>6. JobInv
  BY <1>5 DEF Init, JobInv
<1>7. IdleRequest \in ReqType /\ IdleRequest.pc = "idle"
  BY DEF IdleRequest, ReqType, MaxRows
<1>8. ReqInv
  BY <1>7 DEF Init, ReqInv
<1>9. IdleSender \in OutType /\ IdleSender.pc = "idle" /\ IdleSender.row = 0
  BY DEF IdleSender, OutType, MaxRows
<1>10. OutInv
  BY <1>5, <1>9 DEF Init, OutInv
<1>11. DeliveryInv
  BY DEF Init, DeliveryInv, CompletedIsDelivered, ConfirmedIsFirstPart, QuotesInv, TgIds
<1>12. CopiesInv
  <2> SUFFICES ASSUME NEW m \in RowIds, NEW p \in 1 .. MaxParts
               PROVE  Cardinality(Copies(m, p)) <=
                        IF job[m].state \in {"completed", "failed"} THEN Attempts + MaxStalls
                        ELSE job[m].made + job[m].stalled + (IF Underway(m, p) THEN 1 ELSE 0)
    BY DEF CopiesInv
  <2>1. job[m] = NoJob /\ job[m].state = "none" /\ job[m].made = 0 /\ job[m].stalled = 0
    BY <1>5 DEF Init
  <2>2. Cardinality(Copies(m, p)) = 0
    BY <1>1, <1>2
  <2> QED
    BY <2>1, <2>2
<1> QED
  BY <1>3, <1>4, <1>6, <1>8, <1>10, <1>11, <1>12 DEF Inv

-----------------------------------------------------------------------------
(* What most steps do: the logs only grow.                                 *)

ChatGrows ==
  /\ chat' \in Seq(PostType)
  /\ DOMAIN chat \subseteq DOMAIN chat'
  /\ \A i \in DOMAIN chat : chat'[i] = chat[i]

(* Rows stay but for the Telegram id a reply gets. *)
RowsGrow ==
  /\ DOMAIN rows \subseteq DOMAIN rows'
  /\ \A m \in DOMAIN rows :
        /\ rows'[m].ticket = rows[m].ticket /\ rows'[m].sender = rows[m].sender
        /\ rows'[m].parts = rows[m].parts
        /\ rows[m].tg # None => rows'[m].tg # None

TicketsGrow ==
  \A t \in Tickets : ticket[t] # None =>
    ticket'[t] # None /\ (ticket[t].firstResponse # 0 => ticket'[t].firstResponse # 0)

(* A client's message stays one. *)
LEMMA ClientMsgLasts == ChatGrows => \A i, t : ClientMsg(i, t) => ClientMsg(i, t)'
BY DEF ChatGrows, ClientMsg

(* What was shown stays shown. *)
LEMMA CopiesLast ==
  ASSUME LogInv, ChatGrows
  PROVE  \A m, p : Copies(m, p) \subseteq Copies(m, p)'
<1>1. TgIds = DOMAIN chat /\ TgIds' = DOMAIN chat'
  BY DEF LogInv, ChatGrows, TgIds
<1> QED
  BY <1>1 DEF ChatGrows, Copies

(* A request is not disturbed by tables that grow. *)
LEMMA ReqKept ==
  ASSUME ReqInv, ChatGrows, RowsGrow, TicketsGrow, UNCHANGED <<req, rejected>>,
         \A m \in DOMAIN rows : FromAgent(m) /\ job[m].state = "none" => job'[m].state = "none"
  PROVE  ReqInv'
<1>1. \A r \in Requests : req[r].pc # "idle" => 
        /\ ticket'[req[r].ticket] # None
        /\ req[r].quote # None => ClientMsg(req[r].quote, req[r].ticket)'
        /\ req[r].responded => ticket'[req[r].ticket].firstResponse # 0
  BY ClientMsgLasts DEF ReqInv, TicketsGrow
<1>2. \A r \in Requests : req[r].pc = "enqueue" =>
        /\ req[r].row \in DOMAIN rows' /\ FromAgent(req[r].row)'
        /\ rows'[req[r].row].ticket = req[r].ticket
        /\ job'[req[r].row].state = "none" /\ req[r].row \notin rejected
  BY DEF ReqInv, RowsGrow, FromAgent
<1> QED
  BY <1>1, <1>2 DEF ReqInv

(* New posts are clients' messages, new rows theirs or not sent yet. *)
Quiet ==
  /\ ChatGrows /\ RowsGrow
  /\ \A i \in DOMAIN chat' \ DOMAIN chat : chat'[i].row = 0 /\ chat'[i].quote = None
  /\ \A m \in DOMAIN rows : rows'[m].tg = rows[m].tg
  /\ \A m \in DOMAIN rows' \ DOMAIN rows : FromClient(m)' \/ rows'[m].tg = None

(* Every stored row has its type. *)
LEMMA RowTyped == LogInv => \A m \in DOMAIN rows : rows[m] \in Row
<1> SUFFICES ASSUME LogInv, NEW m \in DOMAIN rows PROVE rows[m] \in Row
  OBVIOUS
<1>1. rows \in Seq(Row)
  BY DEF LogInv
<1> QED
  BY <1>1

(* Stored rows have ids within the bound. *)
LEMMA RowIdsOf == LogInv => DOMAIN rows \subseteq RowIds
BY DEF LogInv, RowIds, MaxRows

(* Jobs while the queue rests. *)
LEMMA QuietJob ==
  ASSUME Inv, LogInv', Quiet, UNCHANGED <<job, rejected>>,
         \A t \in Tickets : opening'[t] = "ackEnqueue" => opening[t] \in {"ackRow", "ackEnqueue"}
  PROVE  JobInv'
<1>1. \A m \in DOMAIN rows : /\ m \in DOMAIN rows' /\ FromClient(m)' = FromClient(m)
                             /\ FromAgent(m)' = FromAgent(m)
                             /\ rows'[m].ticket = rows[m].ticket /\ rows'[m].sender = rows[m].sender
  BY DEF Quiet, RowsGrow, FromClient, FromAgent
<1>2. ASSUME NEW m \in RowIds, job[m].state # "none"
      PROVE  /\ m \in DOMAIN rows' /\ ~FromClient(m)'
             /\ job[m].quote # None => ClientMsg(job[m].quote, rows[m].ticket)'
  <2>1. /\ m \in DOMAIN rows /\ ~FromClient(m)
        /\ job[m].quote # None => ClientMsg(job[m].quote, rows[m].ticket)
    BY <1>2 DEF Inv, JobInv
  <2>2. job[m].quote # None => ClientMsg(job[m].quote, rows[m].ticket)'
    BY <1>1, <2>1, ClientMsgLasts DEF Quiet, ChatGrows, ClientMsg
  <2> QED
    BY <1>1, <2>1, <2>2
<1>3. \A m \in DOMAIN rows' :
        rows'[m].sender = "bot" /\ opening'[rows'[m].ticket] = "ackEnqueue" => job[m].state = "none"
  <2> SUFFICES ASSUME NEW m \in DOMAIN rows',
                      rows'[m].sender = "bot", opening'[rows'[m].ticket] = "ackEnqueue"
               PROVE  job[m].state = "none"
    OBVIOUS
  <2>1. CASE m \in DOMAIN rows
    <3>1. rows[m].sender = "bot" /\ opening'[rows[m].ticket] = "ackEnqueue"
          /\ rows[m].ticket \in Tickets
      BY <1>1, <2>1, RowTyped DEF Inv, Row
    <3>2. opening[rows[m].ticket] = "ackEnqueue"
      BY <2>1, <3>1 DEF Inv, LogInv
    <3> QED
      BY <2>1, <3>1, <3>2 DEF Inv, JobInv
  <2>2. CASE m \notin DOMAIN rows
    BY <2>2, RowIdsOf DEF Inv, JobInv, LogInv, RowIds, MaxRows
  <2> QED
    BY <2>1, <2>2
<1>4. \A m \in rejected : m \in DOMAIN rows' /\ FromAgent(m)' /\ job[m].state = "none"
  BY <1>1 DEF Inv, JobInv
<1> QED
  BY <1>2, <1>3, <1>4 DEF Inv, JobInv

(* A sender at rest keeps what it has shown. *)
LEMMA ProgressKept ==
  ASSUME LogInv, ChatGrows, RowsGrow, NEW s \in Senders, out'[s] = out[s],
         Progress(s), out[s].row \in DOMAIN rows, job'[out[s].row].state = "active"
  PROVE  Progress(s)'
<1>1. \A m, p : Copies(m, p) \subseteq Copies(m, p)'
  BY CopiesLast
<1>2. \A p \in 1 .. MaxParts : p < out[s].part => Copies(out[s].row, p)' # {}
  BY <1>1 DEF Progress
<1>3. out[s].pc \in {"confirm", "complete"} =>
       out[s].part = rows'[out[s].row].parts /\ Copies(out[s].row, out[s].part)' # {}
  BY <1>1 DEF Progress, RowsGrow
<1>4. out[s].pc \in {"confirm", "complete"} \/ out[s].part > 1 =>
       out[s].first \in Copies(out[s].row, 1)'
  BY <1>1 DEF Progress
<1>5. out[s].pc = "complete" => rows'[out[s].row].tg # None
  BY DEF Progress, RowsGrow
<1>6. out[s].part <= rows'[out[s].row].parts
  BY DEF Progress, RowsGrow
<1> QED
  BY <1>2, <1>3, <1>4, <1>5, <1>6 DEF Progress

(* Senders at rest. *)
LEMMA OutKept ==
  ASSUME Inv, ChatGrows, RowsGrow, UNCHANGED out,
         \A m \in RowIds : job'[m].state = "active" <=> job[m].state = "active"
  PROVE  OutInv'
<1>1. ASSUME NEW s \in Senders, out[s].pc # "idle"
      PROVE  Progress(s)'
  <2>1. Progress(s) /\ out[s].row \in RowIds /\ job[out[s].row].state = "active"
    BY <1>1 DEF Inv, OutInv, Progress
  <2>2. out[s].row \in DOMAIN rows
    BY <2>1 DEF Inv, JobInv
  <2> QED
    BY <2>1, <2>2, ProgressKept DEF Inv
<1> QED
  BY <1>1 DEF Inv, OutInv

(* Posts of row m's part p are not touched by a post of another row. *)
LEMMA QuietCopies ==
  ASSUME Inv, Quiet
  PROVE  \A m \in RowIds : \A p : Copies(m, p)' = Copies(m, p)
<1>1. TgIds = DOMAIN chat /\ TgIds' = DOMAIN chat'
  BY DEF Inv, LogInv, Quiet, ChatGrows, TgIds
<1>2. 0 \notin RowIds
  BY DEF RowIds
<1> QED
  BY <1>1, <1>2 DEF Quiet, ChatGrows, Copies

(* Deliveries while the queue rests. *)
LEMMA QuietDelivery ==
  ASSUME Inv, LogInv', Quiet, UNCHANGED job
  PROVE  DeliveryInv'
<1>1. \A m \in DOMAIN rows : m \in RowIds /\ m \in DOMAIN rows' /\ FromClient(m)' = FromClient(m)
                             /\ rows'[m].tg = rows[m].tg /\ rows'[m].parts = rows[m].parts
  BY RowIdsOf DEF Inv, Quiet, RowsGrow, FromClient
<1>2. \A m \in DOMAIN rows' \ DOMAIN rows : m \in RowIds /\ job[m].state = "none"
  BY DEF Inv, JobInv, LogInv, RowIds, MaxRows
<1>3. CompletedIsDelivered'
  <2> SUFFICES ASSUME NEW m \in DOMAIN rows', job[m].state = "completed"
               PROVE  /\ rows'[m].tg # None
                      /\ \A part \in 1 .. rows'[m].parts : Copies(m, part)' # {}
    BY DEF CompletedIsDelivered
  <2>1. m \in DOMAIN rows
    BY <1>2
  <2> QED
    BY <1>1, <2>1, QuietCopies DEF Inv, DeliveryInv, CompletedIsDelivered
<1>4. ConfirmedIsFirstPart'
  <2> SUFFICES ASSUME NEW m \in DOMAIN rows', ~FromClient(m)', rows'[m].tg # None
               PROVE  rows'[m].tg \in Copies(m, 1)'
    BY DEF ConfirmedIsFirstPart
  <2>1. m \in DOMAIN rows
    BY DEF Quiet
  <2> QED
    BY <1>1, <2>1, QuietCopies DEF Inv, DeliveryInv, ConfirmedIsFirstPart
<1>5. QuotesInv'
  <2>1. TgIds = DOMAIN chat /\ TgIds' = DOMAIN chat'
    BY DEF Inv, LogInv, Quiet, ChatGrows, TgIds
  <2>2. \A i \in TgIds' : chat'[i].quote # None => i \in TgIds /\ chat'[i] = chat[i]
    BY <2>1 DEF Quiet, ChatGrows
  <2> QED
    BY <2>2, ClientMsgLasts DEF Inv, DeliveryInv, QuotesInv, Quiet, ChatGrows, ClientMsg
<1> QED
  BY <1>3, <1>4, <1>5 DEF DeliveryInv

(* All that concerns the queue, while it rests. *)
LEMMA QuietKept ==
  ASSUME Inv, LogInv', Quiet, UNCHANGED <<job, out, rejected>>,
         \A t \in Tickets : opening'[t] = "ackEnqueue" => opening[t] \in {"ackRow", "ackEnqueue"}
  PROVE  JobInv' /\ OutInv' /\ DeliveryInv' /\ CopiesInv'
<1>1. JobInv'
  BY QuietJob
<1>2. OutInv'
  BY OutKept DEF Quiet
<1>3. DeliveryInv'
  BY QuietDelivery
<1>4. \A m, p : Underway(m, p)' <=> Underway(m, p)
  BY DEF Underway
<1>5. CopiesInv'
  BY <1>4, QuietCopies DEF Inv, CopiesInv
<1> QED
  BY <1>1, <1>2, <1>3, <1>5

-----------------------------------------------------------------------------
(* Helpers for the steps of ingest and of requests.                        *)

(* The chat may stay as it is. *)
LEMMA ChatStays == LogInv /\ chat' = chat => ChatGrows
BY DEF LogInv, ChatGrows

(* One message more in the chat. *)
LEMMA ChatAppend ==
  ASSUME LogInv, NEW x \in PostType, chat' = Append(chat, x)
  PROVE  /\ ChatGrows
         /\ DOMAIN chat = 1 .. Len(chat) /\ Len(chat) \in Nat
         /\ DOMAIN chat' = 1 .. Len(chat) + 1 /\ Len(chat') = Len(chat) + 1
         /\ chat'[Len(chat) + 1] = x
<1>1. chat \in Seq(PostType)
  BY DEF LogInv
<1> QED
  BY <1>1, Appended DEF ChatGrows

(* The table may stay as it is. *)
LEMMA RowsStay == rows' = rows => RowsGrow
BY DEF RowsGrow

(* One row more in the table. *)
LEMMA RowsAppend ==
  ASSUME LogInv, Len(rows) < MaxRows, NEW x \in Row, rows' = Append(rows, x)
  PROVE  /\ RowsGrow /\ rows' \in Seq(Row) /\ Len(rows') <= MaxRows
         /\ DOMAIN rows = 1 .. Len(rows) /\ Len(rows) \in Nat
         /\ DOMAIN rows' = 1 .. Len(rows) + 1
         /\ \A m \in DOMAIN rows : rows'[m] = rows[m]
         /\ rows'[Len(rows) + 1] = x
<1>1. rows \in Seq(Row) /\ MaxRows \in Nat
  BY DEF LogInv, MaxRows
<1>2. /\ Append(rows, x) \in Seq(Row)
      /\ Len(Append(rows, x)) = Len(rows) + 1
      /\ DOMAIN Append(rows, x) = 1 .. Len(rows) + 1
      /\ DOMAIN rows = 1 .. Len(rows) /\ Len(rows) \in Nat
      /\ \A i \in DOMAIN rows : Append(rows, x)[i] = rows[i]
      /\ Append(rows, x)[Len(rows) + 1] = x
  BY <1>1, Appended
<1> QED
  BY <1>1, <1>2 DEF RowsGrow

(* The tables while messages are posted. *)
LEMMA LogKept ==
  ASSUME LogInv, ChatGrows, UNCHANGED <<rows, ticket, opening>>
  PROVE  LogInv'
<1>1. \A t \in Tickets : ticket[t] # None =>
        ClientMsg(ticket[t].anchor, t)' /\ ClientMsg(ticket[t].lastClient, t)'
  BY ClientMsgLasts DEF LogInv, ClientMsg, ChatGrows
<1>2. \A m \in DOMAIN rows : FromClient(m) => ClientMsg(rows[m].tg, rows[m].ticket)'
  BY ClientMsgLasts DEF LogInv, ClientMsg, ChatGrows
<1>3. FirstResponseIffAnswered'
  BY DEF LogInv, FirstResponseIffAnswered, RowsOf, FromAgent
<1>4. \A m : FromClient(m)' <=> FromClient(m)
  BY DEF FromClient
<1> QED
  BY <1>1, <1>2, <1>3, <1>4 DEF LogInv, ChatGrows

(* The bounds while nothing is counted anew. *)
LEMMA RoomKept ==
  ASSUME Inv, LogInv', ClientMessages' = ClientMessages, RepliesMade' = RepliesMade,
         Persisting' \subseteq Persisting
  PROVE  RoomInv'
<1>1. /\ IsFiniteSet(Persisting) /\ Cardinality(Persisting) \in Nat
      /\ Cardinality(RepliesMade) \in Nat
  BY Finite DEF Inv, LogInv
<1>2. Cardinality(Persisting') <= Cardinality(Persisting) /\ Cardinality(Persisting') \in Nat
  BY <1>1, FS_Subset, FS_CardinalityType
<1> QED
  BY <1>1, <1>2 DEF Inv, RoomInv

(* There is a row left for a client message that is not stored, and for a  *)
(* reply there is room for.                                                *)
LEMMA RoomForClientRow ==
  ASSUME Inv, NEW i \in ClientMessages, \A m \in DOMAIN rows : FromClient(m) => rows[m].tg # i
  PROVE  Len(rows) < MaxRows
<1> DEFINE T == ClientMessages \ {i}
<1>1. /\ IsFiniteSet(ClientMessages) /\ Cardinality(ClientMessages) \in Nat
      /\ Cardinality(RepliesMade) \in Nat /\ Cardinality(Persisting) \in Nat
  BY Finite DEF Inv, LogInv
<1>2. Cardinality(T) = Cardinality(ClientMessages) - 1
  BY <1>1, FS_RemoveElement
<1>3. \A m \in DOMAIN rows : FromClient(m) => rows[m].tg \in T
  BY DEF Inv, LogInv, ClientMsg, ClientMessages
<1> HIDE DEF T
<1>4. T \in SUBSET ClientMessages
  BY DEF T
<1>5. Len(rows) <= Cardinality(T) + Cardinality(RepliesMade)
  BY <1>3, <1>4, RowsCount DEF Inv
<1>6. Len(rows) \in Nat
  BY DEF Inv, LogInv
<1> QED
  BY <1>1, <1>2, <1>5, <1>6 DEF Inv, RoomInv, MaxRows

(* A reply within its bound finds room in the table: there is at most one  *)
(* row for each client message.                                            *)
LEMMA RoomForReplyRow ==
  ASSUME Inv, Cardinality(RepliesMade) < MaxReplies
  PROVE  Len(rows) < MaxRows
<1>1. /\ Cardinality(ClientMessages) \in Nat /\ Cardinality(RepliesMade) \in Nat
  BY Finite DEF Inv, LogInv
<1>2. \A m \in DOMAIN rows : FromClient(m) => rows[m].tg \in ClientMessages
  BY DEF Inv, LogInv, ClientMsg, ClientMessages
<1>3. Len(rows) <= Cardinality(ClientMessages) + Cardinality(RepliesMade)
  BY <1>2, RowsCount DEF Inv
<1>4. Len(rows) \in Nat
  BY DEF Inv, LogInv
<1> QED
  BY <1>1, <1>3, <1>4 DEF Inv, RoomInv, MaxRows

-----------------------------------------------------------------------------
(* The steps of ingest.                                                    *)

LEMMA ClientWritesStep ==
  ASSUME Inv, NEW t \in Tickets, ClientWrites(t)
  PROVE  Inv'
<1>1. ClientPost(t) \in PostType /\ ClientPost(t).row = 0 /\ ClientPost(t).quote = None
  BY DEF ClientPost, PostType, MaxRows
<1>2. UNCHANGED <<rows, ticket, opening, req, job, out, rejected>>
      /\ chat' = Append(chat, ClientPost(t)) /\ Cardinality(ClientMessages) < MaxClient
  BY DEF ClientWrites
<1>3. /\ ChatGrows
      /\ DOMAIN chat = 1 .. Len(chat) /\ Len(chat) \in Nat
      /\ DOMAIN chat' = 1 .. Len(chat) + 1
      /\ chat'[Len(chat) + 1] = ClientPost(t)
  BY <1>1, <1>2, ChatAppend DEF Inv
<1>4. LogInv'
  BY <1>2, <1>3, LogKept DEF Inv
<1>5. Quiet /\ TicketsGrow
  BY <1>1, <1>2, <1>3, RowsStay DEF Quiet, TicketsGrow
<1>6. RoomInv'
  <2>1. ClientMessages' = ClientMessages \union {Len(chat) + 1}
    <3>1. \A i \in DOMAIN chat' : chat'[i].row = 0 <=>
            (i \in DOMAIN chat /\ chat[i].row = 0) \/ i = Len(chat) + 1
      BY <1>1, <1>3 DEF ChatGrows
    <3>2. Len(chat) + 1 \in DOMAIN chat' /\ DOMAIN chat \subseteq DOMAIN chat'
      BY <1>3
    <3> QED
      BY <3>1, <3>2 DEF ClientMessages
  <2>2. RepliesMade' = RepliesMade /\ Persisting' = Persisting
    BY <1>2 DEF RepliesMade, Persisting, FromClient
  <2>3. IsFiniteSet(ClientMessages) /\ Cardinality(ClientMessages) \in Nat
    BY Finite DEF Inv, LogInv
  <2>4. Cardinality(ClientMessages') <= Cardinality(ClientMessages) + 1
        /\ Cardinality(ClientMessages') \in Nat
    <3>1. /\ IsFiniteSet(ClientMessages \union {Len(chat) + 1})
          /\ Cardinality(ClientMessages \union {Len(chat) + 1}) =
               IF Len(chat) + 1 \in ClientMessages THEN Cardinality(ClientMessages)
               ELSE Cardinality(ClientMessages) + 1
      BY <2>3, FS_AddElement
    <3> QED
      BY <2>1, <2>3, <3>1
  <2> QED
    BY <1>2, <2>2, <2>3, <2>4 DEF Inv, RoomInv
<1>7. JobInv' /\ OutInv' /\ DeliveryInv' /\ CopiesInv'
  BY <1>2, <1>4, <1>5, QuietKept
<1>8. ReqInv'
  BY <1>2, <1>5, ReqKept DEF Inv, Quiet
<1> QED
  BY <1>4, <1>6, <1>7, <1>8 DEF Inv

(* Steps that leave chat and rows alone and start no reply. *)
LEMMA TicketsOnly ==
  ASSUME Inv, LogInv', TicketsGrow, UNCHANGED <<chat, rows, req, job, out, rejected>>,
         \A t \in Tickets : opening'[t] = "ackEnqueue" => opening[t] \in {"ackRow", "ackEnqueue"}
  PROVE  Inv'
<1>1. Quiet
  BY ChatStays, RowsStay DEF Quiet, Inv
<1>2. JobInv' /\ OutInv' /\ DeliveryInv' /\ CopiesInv'
  BY <1>1, QuietKept
<1>3. ReqInv'
  BY <1>1, ReqKept DEF Inv, Quiet
<1>4. ClientMessages' = ClientMessages /\ RepliesMade' = RepliesMade /\ Persisting' = Persisting
  BY DEF ClientMessages, RepliesMade, Persisting, FromClient
<1>5. RoomInv'
  BY <1>4, RoomKept
<1> QED
  BY <1>2, <1>3, <1>5 DEF Inv

(* A message not yet stored is a client's, and no row has its id. *)
LEMMA UnstoredOf ==
  ASSUME LogInv, NEW t \in Tickets, NEW i \in Unstored(t)
  PROVE  /\ i \in ClientMessages /\ ClientMsg(i, t) /\ i \in Nat
         /\ \A m \in DOMAIN rows : FromClient(m) => rows[m].tg # i
<1>1. DOMAIN chat = 1 .. Len(chat) /\ Len(chat) \in Nat
  BY DEF LogInv
<1> QED
  BY <1>1 DEF Unstored, ClientMessages, ClientMsg

LEMMA CreateTicketStep ==
  ASSUME Inv, NEW t \in Tickets, NEW i, CreateTicket(t, i)
  PROVE  Inv'
<1> DEFINE new == [anchor |-> i, lastClient |-> i, firstResponse |-> 0]
<1>1. /\ UNCHANGED <<chat, rows, req, job, out, rejected>> /\ ticket[t] = None /\ i \in Unstored(t)
      /\ ticket' = [ticket EXCEPT ![t] = new] /\ opening' = [opening EXCEPT ![t] = "record"]
  BY DEF CreateTicket
<1>2. /\ ClientMsg(i, t) /\ i \in Nat
      /\ \A m \in DOMAIN rows : FromClient(m) => rows[m].tg # i
  BY <1>1, UnstoredOf DEF Inv
<1>3. new \in TicketRow /\ new # None /\ new.anchor = i /\ new.lastClient = i
      /\ new.firstResponse = 0
  BY <1>2 DEF TicketRow, MaxRows
<1> HIDE DEF new
<1>4. /\ ticket' \in [Tickets -> {None} \union TicketRow] /\ ticket'[t] = new
      /\ \A u \in Tickets \ {t} : ticket'[u] = ticket[u] /\ opening'[u] = opening[u]
      /\ opening' \in [Tickets -> {"none", "record", "ackRow", "ackEnqueue", "done"}]
      /\ opening'[t] = "record" /\ opening[t] = "none"
  BY <1>1, <1>3 DEF Inv, LogInv
<1>5. \A m \in DOMAIN rows : rows[m].ticket # t /\ rows[m].ticket \in Tickets
  BY <1>1, RowTyped DEF Inv, LogInv, Row
<1>6. LogInv'
  <2>1. \A u \in Tickets : opening'[u] = "none" <=> ticket'[u] = None
    BY <1>3, <1>4 DEF Inv, LogInv
  <2>2. \A u \in Tickets : ticket'[u] # None =>
          ClientMsg(ticket[u].anchor, u)' /\ ClientMsg(ticket[u].lastClient, u)'
    BY <1>1, <1>2, <1>3, <1>4 DEF Inv, LogInv, ClientMsg
  <2>3. \A u \in Tickets, m \in DOMAIN rows :
          opening'[u] = "record" /\ FromClient(m) => rows[m].tg # ticket'[u].anchor
    BY <1>2, <1>3, <1>4 DEF Inv, LogInv
  <2>4. \A m \in DOMAIN rows : ticket'[rows[m].ticket] # None
    BY <1>4, <1>5 DEF Inv, LogInv
  <2>5. \A m \in DOMAIN rows :
          rows[m].sender = "bot" => opening'[rows[m].ticket] \in {"ackEnqueue", "done"}
    BY <1>4, <1>5 DEF Inv, LogInv
  <2>6. FirstResponseIffAnswered'
    BY <1>1, <1>3, <1>4, <1>5 DEF Inv, LogInv, FirstResponseIffAnswered, RowsOf, FromAgent
  <2>7. \A m, j, u : (FromClient(m)' <=> FromClient(m)) /\ (ClientMsg(j, u)' <=> ClientMsg(j, u))
    BY <1>1 DEF FromClient, ClientMsg
  <2>8. \A m \in DOMAIN rows : FromClient(m) => ClientMsg(rows[m].tg, rows[m].ticket)'
    BY <1>1 DEF Inv, LogInv, ClientMsg
  <2> QED
    BY <1>1, <1>4, <2>1, <2>2, <2>3, <2>4, <2>5, <2>6, <2>7, <2>8 DEF Inv, LogInv
<1>7. TicketsGrow
  BY <1>1, <1>4 DEF TicketsGrow
<1> QED
  BY <1>1, <1>4, <1>6, <1>7, TicketsOnly

(* A row is added; what is left to show is in the messages table. *)
LEMMA RowAdded ==
  ASSUME Inv, LogInv', NEW x \in Row, x.sender = "customer" \/ x.tg = None,
         Len(rows) < MaxRows, rows' = Append(rows, x), UNCHANGED <<chat, job, out, rejected>>,
         \A t \in Tickets : opening'[t] = "ackEnqueue" => opening[t] \in {"ackRow", "ackEnqueue"}
  PROVE  Quiet /\ JobInv' /\ OutInv' /\ DeliveryInv' /\ CopiesInv'
<1>1. /\ RowsGrow
      /\ DOMAIN rows = 1 .. Len(rows) /\ Len(rows) \in Nat
      /\ DOMAIN rows' = 1 .. Len(rows) + 1
      /\ \A m \in DOMAIN rows : rows'[m] = rows[m]
      /\ rows'[Len(rows) + 1] = x
  BY RowsAppend DEF Inv
<1>2. \A m \in DOMAIN rows' \ DOMAIN rows : FromClient(m)' \/ rows'[m].tg = None
  BY <1>1 DEF FromClient
<1>3. Quiet
  BY <1>1, <1>2, ChatStays DEF Quiet, Inv
<1> QED
  BY <1>3, QuietKept

(* recordIncoming of a message that was not stored. *)
LEMMA ClientRowStep ==
  ASSUME Inv, NEW t \in Tickets, ticket[t] # None, NEW i, ClientMsg(i, t), i \in Nat,
         \A m \in DOMAIN rows : FromClient(m) => rows[m].tg # i,
         rows' = Append(rows, ClientRow(t, i)),
         ticket' = [ticket EXCEPT ![t].lastClient = i],
         \/ opening' = opening /\ (opening[t] = "record" => i # ticket[t].anchor)
         \/ opening[t] = "record" /\ opening' = [opening EXCEPT ![t] = "ackRow"],
         UNCHANGED <<chat, req, job, out, rejected>>
  PROVE  Inv'
<1>1. i \in ClientMessages
  BY DEF ClientMsg, ClientMessages
<1>2. Len(rows) < MaxRows
  BY <1>1, RoomForClientRow
<1>3. ClientRow(t, i) \in Row /\ ClientRow(t, i).ticket = t /\ ClientRow(t, i).tg = i
      /\ ClientRow(t, i).sender = "customer"
  BY DEF ClientRow, Row
<1>4. /\ rows' \in Seq(Row) /\ Len(rows') <= MaxRows
      /\ DOMAIN rows = 1 .. Len(rows) /\ Len(rows) \in Nat
      /\ DOMAIN rows' = 1 .. Len(rows) + 1
      /\ \A m \in DOMAIN rows : rows'[m] = rows[m]
      /\ rows'[Len(rows) + 1] = ClientRow(t, i) /\ RowsGrow
  BY <1>2, <1>3, RowsAppend DEF Inv
<1>5. /\ ticket[t] \in TicketRow /\ ticket' \in [Tickets -> {None} \union TicketRow]
      /\ ticket'[t].anchor = ticket[t].anchor /\ ticket'[t].lastClient = i
      /\ ticket'[t].firstResponse = ticket[t].firstResponse /\ ticket'[t] # None
      /\ \A u \in Tickets \ {t} : ticket'[u] = ticket[u]
  <2>1. ticket[t] \in TicketRow /\ ticket \in [Tickets -> {None} \union TicketRow]
    BY DEF Inv, LogInv
  <2>2. [ticket[t] EXCEPT !.lastClient = i] \in TicketRow
    BY <2>1 DEF TicketRow
  <2>3. ticket'[t] = [ticket[t] EXCEPT !.lastClient = i]
    BY <2>1
  <2> QED
    BY <2>1, <2>2, <2>3 DEF TicketRow
<1>6. /\ opening' \in [Tickets -> {"none", "record", "ackRow", "ackEnqueue", "done"}]
      /\ \A u \in Tickets \ {t} : opening'[u] = opening[u]
      /\ \/ opening'[t] = opening[t] /\ (opening[t] = "record" => i # ticket[t].anchor)
         \/ opening[t] = "record" /\ opening'[t] = "ackRow"
  BY DEF Inv, LogInv
<1>7. LogInv'
  <2>1. \A u \in Tickets : opening'[u] = "none" <=> ticket'[u] = None
    BY <1>5, <1>6 DEF Inv, LogInv
  <2>2. \A j, u : ClientMsg(j, u)' <=> ClientMsg(j, u)
    BY DEF ClientMsg
  <2>3. \A u \in Tickets : ticket'[u] # None =>
          ClientMsg(ticket[u].anchor, u)' /\ ClientMsg(ticket[u].lastClient, u)'
    <3>1. ClientMsg(ticket[t].anchor, t)' /\ ClientMsg(ticket[t].lastClient, t)'
      BY <1>5 DEF Inv, LogInv, ClientMsg
    <3>2. ASSUME NEW u \in Tickets \ {t}, ticket'[u] # None
          PROVE  ClientMsg(ticket[u].anchor, u)' /\ ClientMsg(ticket[u].lastClient, u)'
      BY <1>5, <3>2 DEF Inv, LogInv, ClientMsg
    <3> QED
      BY <3>1, <3>2 DEF ClientMsg
  <2>4. /\ \A m \in DOMAIN rows : FromClient(m)' <=> FromClient(m)
        /\ \A m \in DOMAIN rows : FromAgent(m)' <=> FromAgent(m)
    BY <1>3, <1>4 DEF FromClient, FromAgent
  <2>5. \A u \in Tickets, m \in DOMAIN rows' :
          opening'[u] = "record" /\ FromClient(m)' => rows'[m].tg # ticket'[u].anchor
    <3> SUFFICES ASSUME NEW u \in Tickets, NEW m \in DOMAIN rows', opening'[u] = "record",
                        FromClient(m)'
                 PROVE  rows'[m].tg # ticket'[u].anchor
      OBVIOUS
    <3>1. opening[u] = "record" /\ ticket'[u].anchor = ticket[u].anchor /\ ticket[u] # None
      BY <1>5, <1>6 DEF Inv, LogInv
    <3>2. CASE m \in DOMAIN rows
      BY <1>4, <2>4, <3>1, <3>2 DEF Inv, LogInv
    <3>3. CASE m = Len(rows) + 1
      <4>1. rows'[m].tg = i
        BY <1>3, <1>4, <3>3
      <4>2. CASE u = t
        BY <1>6, <3>1, <4>1, <4>2
      <4>3. CASE u # t
        <5>1. ClientMsg(ticket[u].anchor, u)
          BY <3>1 DEF Inv, LogInv
        <5> QED
          BY <3>1, <4>1, <4>3, <5>1 DEF ClientMsg
      <4> QED
        BY <4>2, <4>3
    <3> QED
      BY <1>4, <3>2, <3>3
  <2>6. \A m \in DOMAIN rows' : FromClient(m)' => ClientMsg(rows[m].tg, rows[m].ticket)'
    <3> SUFFICES ASSUME NEW m \in DOMAIN rows', FromClient(m)'
                 PROVE  ClientMsg(rows[m].tg, rows[m].ticket)'
      OBVIOUS
    <3>1. CASE m \in DOMAIN rows
      BY <1>4, <2>4, <3>1 DEF Inv, LogInv, ClientMsg
    <3>2. CASE m = Len(rows) + 1
      BY <1>3, <1>4, <3>2 DEF ClientMsg
    <3> QED
      BY <1>4, <3>1, <3>2
  <2>7. \A m, n \in DOMAIN rows' :
          FromClient(m)' /\ FromClient(n)' /\ rows'[m].tg = rows'[n].tg => m = n
    <3>1. \A m \in DOMAIN rows : FromClient(m)' => rows'[m].tg # i
      BY <1>4, <2>4
    <3>2. rows'[Len(rows) + 1].tg = i
      BY <1>3, <1>4
    <3>3. \A m, n \in DOMAIN rows :
            FromClient(m)' /\ FromClient(n)' /\ rows'[m].tg = rows'[n].tg => m = n
      BY <1>4, <2>4 DEF Inv, LogInv
    <3>4. \A m \in DOMAIN rows' : m \in DOMAIN rows \/ m = Len(rows) + 1
      BY <1>4
    <3> QED
      BY <3>1, <3>2, <3>3, <3>4
  <2>8. \A m \in DOMAIN rows' : ticket'[rows'[m].ticket] # None
    <3>1. \A m \in DOMAIN rows : rows[m].ticket \in Tickets /\ ticket[rows[m].ticket] # None
      BY RowTyped DEF Inv, LogInv, Row
    <3>2. \A m \in DOMAIN rows' : m \in DOMAIN rows \/ m = Len(rows) + 1
      BY <1>4
    <3> QED
      BY <1>3, <1>4, <1>5, <3>1, <3>2
  <2>9. \A m \in DOMAIN rows' :
          rows'[m].sender = "bot" => opening'[rows'[m].ticket] \in {"ackEnqueue", "done"}
    <3>1. \A m \in DOMAIN rows' : m \in DOMAIN rows \/ m = Len(rows) + 1
      BY <1>4
    <3>2. ASSUME NEW m \in DOMAIN rows, rows[m].sender = "bot"
          PROVE  opening'[rows[m].ticket] \in {"ackEnqueue", "done"}
      <4>1. rows[m].ticket \in Tickets /\ opening[rows[m].ticket] \in {"ackEnqueue", "done"}
        BY <3>2, RowTyped DEF Inv, LogInv, Row
      <4> QED
        BY <1>6, <4>1
    <3> QED
      BY <1>3, <1>4, <3>1, <3>2
  <2>10. FirstResponseIffAnswered'
    <3>1. \A m \in DOMAIN rows' : m \in DOMAIN rows \/ m = Len(rows) + 1
      BY <1>4
    <3>2. \A u : (\E m \in RowsOf(u)' : FromAgent(m)') <=> (\E m \in RowsOf(u) : FromAgent(m))
      <4>1. \A m \in DOMAIN rows' : FromAgent(m)' => m \in DOMAIN rows
        BY <1>3, <1>4, <3>1 DEF FromAgent
      <4>2. \A m \in DOMAIN rows : m \in DOMAIN rows' /\ rows'[m] = rows[m]
        BY <1>4
      <4> QED
        BY <4>1, <4>2 DEF RowsOf, FromAgent
    <3>3. \A u \in Tickets : ticket'[u] # None =>
            ticket[u] # None /\ ticket'[u].firstResponse = ticket[u].firstResponse
      BY <1>5
    <3> QED
      BY <3>2, <3>3 DEF Inv, LogInv, FirstResponseIffAnswered
  <2> QED
    BY <1>4, <1>5, <1>6, <2>1, <2>3, <2>5, <2>6, <2>7, <2>8, <2>9, <2>10 DEF Inv, LogInv
<1>8. Quiet /\ JobInv' /\ OutInv' /\ DeliveryInv' /\ CopiesInv'
  <2>1. \A u \in Tickets : opening'[u] = "ackEnqueue" => opening[u] \in {"ackRow", "ackEnqueue"}
    BY <1>6
  <2> QED
    BY <1>2, <1>3, <1>7, <2>1, RowAdded
<1>9. TicketsGrow
  BY <1>5 DEF TicketsGrow
<1>10. ReqInv'
  BY <1>8, <1>9, ReqKept DEF Inv, Quiet
<1>11. RoomInv'
  <2>1. RepliesMade' = RepliesMade
    BY <1>3, <1>4 DEF RepliesMade, FromClient
  <2>2. ClientMessages' = ClientMessages /\ Persisting' = Persisting
    BY DEF ClientMessages, Persisting
  <2> QED
    BY <1>7, <2>1, <2>2, RoomKept
<1> QED
  BY <1>7, <1>8, <1>10, <1>11 DEF Inv

LEMMA RecordFirstStep ==
  ASSUME Inv, NEW t \in Tickets, RecordFirst(t)
  PROVE  Inv'
<1>1. ticket[t] # None /\ opening[t] = "record"
  BY DEF Inv, LogInv, RecordFirst
<1>2. ClientMsg(ticket[t].anchor, t) /\ ticket[t].anchor \in Nat
  BY <1>1 DEF Inv, LogInv, TicketRow
<1>3. \A m \in DOMAIN rows : FromClient(m) => rows[m].tg # ticket[t].anchor
  BY <1>1 DEF Inv, LogInv
<1> QED
  BY <1>1, <1>2, <1>3, ClientRowStep DEF RecordFirst

LEMMA RecordLaterStep ==
  ASSUME Inv, NEW t \in Tickets, NEW i, RecordLater(t, i)
  PROVE  Inv'
<1>1. /\ ClientMsg(i, t) /\ i \in Nat
      /\ \A m \in DOMAIN rows : FromClient(m) => rows[m].tg # i
  BY UnstoredOf DEF Inv, RecordLater
<1> QED
  BY <1>1, ClientRowStep DEF RecordLater

(* The bot's or an agent's row is added to ticket t. *)
LEMMA ReplyRowLog ==
  ASSUME Inv, NEW t \in Tickets, ticket[t] # None,
         NEW x \in Row, x.ticket = t, x.sender # "customer",
         Len(rows) < MaxRows, rows' = Append(rows, x), chat' = chat,
         ticket' \in [Tickets -> {None} \union TicketRow],
         \A u \in Tickets : ticket[u] = None <=> ticket'[u] = None,
         \A u \in Tickets : ticket[u] # None =>
           ticket'[u].anchor = ticket[u].anchor /\ ticket'[u].lastClient = ticket[u].lastClient,
         opening' \in [Tickets -> {"none", "record", "ackRow", "ackEnqueue", "done"}],
         \A u \in Tickets : /\ opening[u] = "none" <=> opening'[u] = "none"
                            /\ opening'[u] = "record" => opening[u] = "record"
                            /\ opening[u] \in {"ackEnqueue", "done"} =>
                                 opening'[u] \in {"ackEnqueue", "done"},
         x.sender = "bot" => opening'[t] \in {"ackEnqueue", "done"},
         FirstResponseIffAnswered'
  PROVE  LogInv' /\ RepliesMade' = RepliesMade \union {Len(rows) + 1}
<1>1. /\ rows' \in Seq(Row) /\ Len(rows') <= MaxRows
      /\ DOMAIN rows = 1 .. Len(rows) /\ Len(rows) \in Nat
      /\ DOMAIN rows' = 1 .. Len(rows) + 1
      /\ \A m \in DOMAIN rows : rows'[m] = rows[m]
      /\ rows'[Len(rows) + 1] = x /\ RowsGrow
  BY RowsAppend DEF Inv
<1>2. \A m \in DOMAIN rows' : FromClient(m)' => m \in DOMAIN rows /\ rows'[m] = rows[m]
  BY <1>1 DEF FromClient
<1>3. \A m \in DOMAIN rows : /\ m \in DOMAIN rows' /\ rows'[m] = rows[m]
                             /\ rows[m].ticket \in Tickets /\ (FromClient(m)' <=> FromClient(m))
  BY <1>1, RowTyped DEF Inv, FromClient, Row
<1>4. \A u \in Tickets : opening'[u] = "none" <=> ticket'[u] = None
  BY DEF Inv, LogInv
<1>5. \A u \in Tickets : ticket'[u] # None =>
        ClientMsg(ticket[u].anchor, u)' /\ ClientMsg(ticket[u].lastClient, u)'
  BY DEF Inv, LogInv, ClientMsg
<1>6. \A u \in Tickets, m \in DOMAIN rows' :
        opening'[u] = "record" /\ FromClient(m)' => rows'[m].tg # ticket'[u].anchor
  <2> SUFFICES ASSUME NEW u \in Tickets, NEW m \in DOMAIN rows', opening'[u] = "record",
                      FromClient(m)'
               PROVE  rows'[m].tg # ticket'[u].anchor
    OBVIOUS
  <2>1. opening[u] = "record" /\ ticket[u] # None /\ ticket'[u].anchor = ticket[u].anchor
    BY DEF Inv, LogInv
  <2>2. m \in DOMAIN rows /\ rows'[m] = rows[m] /\ FromClient(m)
    BY <1>2, <1>3
  <2> QED
    BY <2>1, <2>2 DEF Inv, LogInv
<1>7. \A m \in DOMAIN rows' : FromClient(m)' => ClientMsg(rows[m].tg, rows[m].ticket)'
  BY <1>2, <1>3 DEF Inv, LogInv, ClientMsg
<1>8. \A m, n \in DOMAIN rows' :
        FromClient(m)' /\ FromClient(n)' /\ rows'[m].tg = rows'[n].tg => m = n
  <2> SUFFICES ASSUME NEW m \in DOMAIN rows', NEW n \in DOMAIN rows',
                      FromClient(m)', FromClient(n)', rows'[m].tg = rows'[n].tg
               PROVE  m = n
    OBVIOUS
  <2>1. /\ m \in DOMAIN rows /\ n \in DOMAIN rows /\ rows[m].tg = rows[n].tg
        /\ FromClient(m) /\ FromClient(n)
    BY <1>2, <1>3
  <2> QED
    BY <2>1 DEF Inv, LogInv
<1>9. \A m \in DOMAIN rows' : m \in DOMAIN rows \/ m = Len(rows) + 1
  BY <1>1
<1>10. \A m \in DOMAIN rows' : ticket'[rows'[m].ticket] # None
  <2>1. \A m \in DOMAIN rows : ticket'[rows[m].ticket] # None
    BY <1>3 DEF Inv, LogInv
  <2> QED
    BY <1>1, <1>9, <2>1
<1>11. \A m \in DOMAIN rows' :
         rows'[m].sender = "bot" => opening'[rows'[m].ticket] \in {"ackEnqueue", "done"}
  <2>1. \A m \in DOMAIN rows :
          rows[m].sender = "bot" => opening[rows[m].ticket] \in {"ackEnqueue", "done"}
    BY DEF Inv, LogInv
  <2>2. \A m \in DOMAIN rows :
          rows[m].sender = "bot" => opening'[rows[m].ticket] \in {"ackEnqueue", "done"}
    BY <1>3, <2>1
  <2> QED
    BY <1>1, <1>9, <2>2
<1>12. LogInv'
  BY <1>1, <1>4, <1>5, <1>6, <1>7, <1>8, <1>10, <1>11 DEF Inv, LogInv
<1>13. RepliesMade' = RepliesMade \union {Len(rows) + 1}
  <2>1. \A m \in DOMAIN rows' : ~FromClient(m)' <=>
          (m \in DOMAIN rows /\ ~FromClient(m)) \/ m = Len(rows) + 1
    BY <1>1, <1>3, <1>9 DEF FromClient
  <2>2. Len(rows) + 1 \in DOMAIN rows' /\ DOMAIN rows \subseteq DOMAIN rows'
    BY <1>1
  <2> QED
    BY <2>1, <2>2 DEF RepliesMade
<1> QED
  BY <1>12, <1>13

(* One reply more is counted once. *)
LEMMA RepliesCount ==
  ASSUME Inv, RepliesMade' = RepliesMade \union {Len(rows) + 1}
  PROVE  /\ Cardinality(RepliesMade') \in Nat
         /\ Cardinality(RepliesMade') <= Cardinality(RepliesMade) + 1
<1>1. IsFiniteSet(RepliesMade) /\ Cardinality(RepliesMade) \in Nat
  BY Finite DEF Inv, LogInv
<1>2. Cardinality(RepliesMade \union {Len(rows) + 1}) =
        IF Len(rows) + 1 \in RepliesMade THEN Cardinality(RepliesMade)
        ELSE Cardinality(RepliesMade) + 1
  BY <1>1, FS_AddElement
<1> QED
  BY <1>1, <1>2

LEMMA AckRowStep ==
  ASSUME Inv, NEW t \in Tickets, AckRow(t)
  PROVE  Inv'
<1>1. /\ opening[t] = "ackRow" /\ RoomForReply /\ rows' = Append(rows, BotRow(t))
      /\ opening' = [opening EXCEPT ![t] = "ackEnqueue"]
      /\ UNCHANGED <<chat, ticket, req, job, out, rejected>>
  BY DEF AckRow
<1>2. ticket[t] # None
  BY <1>1 DEF Inv, LogInv
<1>3. BotRow(t) \in Row /\ BotRow(t).ticket = t /\ BotRow(t).sender = "bot" /\ BotRow(t).tg = None
  BY DEF BotRow, Row
<1>4. Cardinality(RepliesMade) < MaxReplies /\ Cardinality(RepliesMade) \in Nat
      /\ Cardinality(Persisting) \in Nat
      /\ Cardinality(RepliesMade) + Cardinality(Persisting) < MaxReplies
  BY <1>1, Finite DEF RoomForReply, Inv, LogInv
<1>5. Len(rows) < MaxRows
  BY <1>4, RoomForReplyRow
<1>6. /\ opening' \in [Tickets -> {"none", "record", "ackRow", "ackEnqueue", "done"}]
      /\ opening'[t] = "ackEnqueue" /\ \A u \in Tickets \ {t} : opening'[u] = opening[u]
  BY <1>1 DEF Inv, LogInv
<1>7. FirstResponseIffAnswered'
  <2>1. /\ DOMAIN rows = 1 .. Len(rows) /\ Len(rows) \in Nat
        /\ DOMAIN rows' = 1 .. Len(rows) + 1
        /\ \A m \in DOMAIN rows : rows'[m] = rows[m]
        /\ rows'[Len(rows) + 1] = BotRow(t)
    BY <1>1, <1>3, <1>5, RowsAppend DEF Inv
  <2>2. \A m \in DOMAIN rows' : FromAgent(m)' => m \in DOMAIN rows
    BY <1>3, <2>1 DEF FromAgent
  <2>3. \A u : (\E m \in RowsOf(u)' : FromAgent(m)') <=> (\E m \in RowsOf(u) : FromAgent(m))
    BY <2>1, <2>2 DEF RowsOf, FromAgent
  <2> QED
    BY <1>1, <2>3 DEF Inv, LogInv, FirstResponseIffAnswered
<1>8. LogInv' /\ RepliesMade' = RepliesMade \union {Len(rows) + 1}
  BY <1>1, <1>2, <1>3, <1>5, <1>6, <1>7, ReplyRowLog DEF Inv, LogInv
<1>9. Quiet /\ JobInv' /\ OutInv' /\ DeliveryInv' /\ CopiesInv'
  <2>1. \A u \in Tickets : opening'[u] = "ackEnqueue" => opening[u] \in {"ackRow", "ackEnqueue"}
    BY <1>1, <1>6
  <2> QED
    BY <1>1, <1>3, <1>5, <1>8, <2>1, RowAdded
<1>10. ReqInv'
  <2>1. TicketsGrow
    BY <1>1 DEF TicketsGrow
  <2> QED
    BY <1>1, <1>9, <2>1, ReqKept DEF Inv, Quiet
<1>11. RoomInv'
  <2>1. ClientMessages' = ClientMessages /\ Persisting' = Persisting
    BY <1>1 DEF ClientMessages, Persisting
  <2> QED
    BY <1>4, <1>8, <2>1, RepliesCount DEF Inv, RoomInv
<1> QED
  BY <1>8, <1>9, <1>10, <1>11 DEF Inv

(* Only what is left to do for a new ticket changes. *)
LEMMA OpeningDone ==
  ASSUME Inv, NEW t \in Tickets, opening[t] \in {"ackRow", "ackEnqueue"},
         opening' = [opening EXCEPT ![t] = "done"], UNCHANGED <<chat, rows, ticket>>
  PROVE  /\ LogInv'
         /\ \A u \in Tickets : opening'[u] = "ackEnqueue" => opening[u] = "ackEnqueue" /\ u # t
<1>1. /\ opening' \in [Tickets -> {"none", "record", "ackRow", "ackEnqueue", "done"}]
      /\ opening'[t] = "done" /\ \A u \in Tickets \ {t} : opening'[u] = opening[u]
  BY DEF Inv, LogInv
<1>2. /\ \A m : FromClient(m)' <=> FromClient(m)
      /\ \A i, u : ClientMsg(i, u)' <=> ClientMsg(i, u)
  BY DEF FromClient, ClientMsg
<1>3. \A u \in Tickets : opening'[u] = "none" <=> ticket[u] = None
  BY <1>1 DEF Inv, LogInv
<1>4. \A m \in DOMAIN rows :
        rows[m].sender = "bot" => opening'[rows[m].ticket] \in {"ackEnqueue", "done"}
  BY <1>1, RowTyped DEF Inv, LogInv, Row
<1>5. FirstResponseIffAnswered'
  BY DEF Inv, LogInv, FirstResponseIffAnswered, RowsOf, FromAgent
<1>6. \A u \in Tickets : ticket[u] # None =>
        ClientMsg(ticket[u].anchor, u)' /\ ClientMsg(ticket[u].lastClient, u)'
  BY DEF Inv, LogInv, ClientMsg
<1>7. \A m \in DOMAIN rows : FromClient(m) => ClientMsg(rows[m].tg, rows[m].ticket)'
  BY DEF Inv, LogInv, ClientMsg
<1>8. \A u \in Tickets, m \in DOMAIN rows :
        opening'[u] = "record" /\ FromClient(m) => rows[m].tg # ticket[u].anchor
  BY <1>1 DEF Inv, LogInv
<1>9. LogInv'
  BY <1>1, <1>2, <1>3, <1>4, <1>5, <1>6, <1>7, <1>8 DEF Inv, LogInv
<1> QED
  BY <1>1, <1>9

LEMMA AckDroppedStep ==
  ASSUME Inv, NEW t \in Tickets, AckDropped(t)
  PROVE  Inv'
<1>1. LogInv' /\ \A u \in Tickets : opening'[u] = "ackEnqueue" => opening[u] = "ackEnqueue"
  BY OpeningDone DEF AckDropped
<1>2. TicketsGrow
  BY DEF TicketsGrow, AckDropped
<1> QED
  BY <1>1, <1>2, TicketsOnly DEF AckDropped

-----------------------------------------------------------------------------
(* Jobs are enqueued, and the steps of requests.                           *)

(* Steps that touch neither the chat nor the table. *)
LEMMA SameLog ==
  ASSUME Inv, UNCHANGED <<chat, rows>>
  PROVE  /\ ChatGrows /\ RowsGrow
         /\ TgIds' = TgIds /\ \A m, p : Copies(m, p)' = Copies(m, p)
         /\ \A i, t : ClientMsg(i, t)' <=> ClientMsg(i, t)
         /\ \A m : (FromClient(m)' <=> FromClient(m)) /\ (FromAgent(m)' <=> FromAgent(m))
         /\ ClientMessages' = ClientMessages /\ RepliesMade' = RepliesMade
BY ChatStays, RowsStay DEF Inv, Copies, TgIds, ClientMsg, FromClient, FromAgent, ClientMessages,
   RepliesMade

(* The reply of row m, which had no job, gets one. *)
LEMMA QueueStep ==
  ASSUME Inv, NEW m \in DOMAIN rows, ~FromClient(m), job[m].state = "none", m \notin rejected,
         NEW q \in Nat \union {None}, q # None => ClientMsg(q, rows[m].ticket),
         Queued(m, q), UNCHANGED <<chat, rows, out, rejected>>,
         \A t \in Tickets : opening'[t] = "ackEnqueue" => opening[t] = "ackEnqueue",
         rows[m].sender = "bot" => opening'[rows[m].ticket] # "ackEnqueue",
         \A n \in DOMAIN rows \ {m} : rows[n].sender = "bot" => rows[n].ticket \in Tickets
  PROVE  /\ JobInv' /\ OutInv' /\ DeliveryInv' /\ CopiesInv'
         /\ \A n \in RowIds \ {m} : job'[n] = job[n]
<1> DEFINE new == [NoJob EXCEPT !.state = "waiting", !.quote = q]
<1>1. new \in JobType /\ new.state = "waiting" /\ new.made = 0 /\ new.stalled = 0 /\ new.quote = q
  <2>1. NoJob \in JobType /\ NoJob.made = 0 /\ NoJob.stalled = 0
    BY DEF NoJob, JobType
  <2> QED
    BY <2>1 DEF JobType
<1>2. job' = [job EXCEPT ![m] = new]
  BY DEF Queued
<1> HIDE DEF new
<1>3. m \in RowIds
  BY RowIdsOf DEF Inv
<1>4. /\ job' \in [RowIds -> JobType] /\ job'[m] = new
      /\ \A n \in RowIds \ {m} : job'[n] = job[n]
  BY <1>1, <1>2, <1>3 DEF Inv, JobInv
<1>5. job[m] = NoJob /\ NoJob.made = 0 /\ NoJob.stalled = 0
  BY <1>3 DEF Inv, JobInv, NoJob
<1>6. JobInv'
  <2>1. \A n \in RowIds : job'[n].state = "none" => job'[n] = NoJob
    BY <1>1, <1>4 DEF Inv, JobInv
  <2>2. ASSUME NEW n \in RowIds, job'[n].state # "none"
        PROVE  /\ n \in DOMAIN rows' /\ ~FromClient(n)'
               /\ job'[n].quote # None => ClientMsg(job[n].quote, rows[n].ticket)'
    <3>1. CASE n = m
      BY <1>1, <1>4, <3>1 DEF FromClient, ClientMsg
    <3>2. CASE n # m
      <4>1. job'[n] = job[n] /\ n \in DOMAIN rows /\ ~FromClient(n)
            /\ (job[n].quote # None => ClientMsg(job[n].quote, rows[n].ticket))
        BY <1>4, <2>2, <3>2 DEF Inv, JobInv
      <4> QED
        BY <4>1 DEF FromClient, ClientMsg
    <3> QED
      BY <3>1, <3>2
  <2>3. \A n \in RowIds : job'[n].state \in {"waiting", "active"} => job'[n].made < Attempts
    BY <1>1, <1>4 DEF Inv, JobInv
  <2>4. \A n \in DOMAIN rows :
          rows[n].sender = "bot" /\ opening'[rows[n].ticket] = "ackEnqueue" => job'[n].state = "none"
    <3> SUFFICES ASSUME NEW n \in DOMAIN rows, rows[n].sender = "bot",
                        opening'[rows[n].ticket] = "ackEnqueue"
                 PROVE  job'[n].state = "none"
      OBVIOUS
    <3>1. n # m /\ n \in RowIds /\ opening[rows[n].ticket] = "ackEnqueue"
      BY RowIdsOf DEF Inv
    <3> QED
      BY <1>4, <3>1 DEF Inv, JobInv
  <2>5. \A n \in rejected : n \in DOMAIN rows' /\ FromAgent(n)' /\ job'[n].state = "none"
    <3>1. \A n \in rejected : n # m /\ n \in RowIds
      BY RowIdsOf DEF Inv, JobInv
    <3> QED
      BY <1>4, <3>1 DEF Inv, JobInv, FromAgent
  <2> QED
    BY <1>4, <2>1, <2>2, <2>3, <2>4, <2>5 DEF JobInv
<1>7. OutInv'
  <2>1. \A n \in RowIds : job'[n].state = "active" <=> job[n].state = "active"
    BY <1>1, <1>4
  <2> QED
    BY <2>1, SameLog, OutKept
<1>8. DeliveryInv'
  <2>1. \A n \in DOMAIN rows : job'[n].state = "completed" => job[n].state = "completed"
    BY <1>1, <1>4, RowIdsOf DEF Inv
  <2>2. CompletedIsDelivered'
    BY <2>1, SameLog DEF Inv, DeliveryInv, CompletedIsDelivered
  <2>3. ConfirmedIsFirstPart'
    BY SameLog DEF Inv, DeliveryInv, ConfirmedIsFirstPart
  <2>4. QuotesInv'
    BY DEF Inv, DeliveryInv, QuotesInv, TgIds, ClientMsg
  <2> QED
    BY <2>2, <2>3, <2>4 DEF DeliveryInv
<1>9. CopiesInv'
  <2>1. \A n, p : Underway(n, p)' <=> Underway(n, p)
    BY DEF Underway
  <2> SUFFICES ASSUME NEW n \in RowIds, NEW p \in 1 .. MaxParts
               PROVE  Cardinality(Copies(n, p)) <=
                        IF job'[n].state \in {"completed", "failed"} THEN Attempts + MaxStalls
                        ELSE job'[n].made + job'[n].stalled + (IF Underway(n, p) THEN 1 ELSE 0)
    BY <2>1, SameLog DEF CopiesInv
  <2>2. CASE n = m
    <3>1. Cardinality(Copies(n, p)) <= 0 + 0 + (IF Underway(n, p) THEN 1 ELSE 0)
      BY <1>3, <1>5, <2>2 DEF Inv, CopiesInv
    <3> QED
      BY <1>1, <1>4, <2>2, <3>1
  <2>3. CASE n # m
    BY <1>4, <2>3 DEF Inv, CopiesInv
  <2> QED
    BY <2>2, <2>3
<1> QED
  BY <1>4, <1>6, <1>7, <1>8, <1>9

LEMMA AckEnqueueStep ==
  ASSUME Inv, NEW t \in Tickets, AckEnqueue(t)
  PROVE  Inv'
<1>1. /\ opening[t] = "ackEnqueue" /\ opening' = [opening EXCEPT ![t] = "done"]
      /\ UNCHANGED <<chat, rows, ticket, req, out, rejected>>
  BY DEF AckEnqueue
<1>2. PICK m \in RowsOf(t) : rows[m].sender = "bot" /\ Queued(m, ticket[t].anchor)
  BY DEF AckEnqueue
<1>3. m \in DOMAIN rows /\ rows[m].ticket = t /\ ~FromClient(m) /\ ~FromAgent(m)
  BY <1>2 DEF RowsOf, FromClient, FromAgent
<1>4. job[m].state = "none" /\ m \notin rejected
  BY <1>1, <1>2, <1>3 DEF Inv, JobInv
<1>5. ticket[t].anchor \in Nat /\ ClientMsg(ticket[t].anchor, t) /\ ticket[t] # None
  BY <1>1 DEF Inv, LogInv, TicketRow
<1>6. LogInv' /\ \A u \in Tickets : opening'[u] = "ackEnqueue" => opening[u] = "ackEnqueue" /\ u # t
  BY <1>1, OpeningDone
<1>7. \A n \in DOMAIN rows : rows[n].ticket \in Tickets
  BY RowTyped DEF Inv, Row
<1>8. /\ JobInv' /\ OutInv' /\ DeliveryInv' /\ CopiesInv'
      /\ \A n \in RowIds \ {m} : job'[n] = job[n]
  BY <1>1, <1>2, <1>3, <1>4, <1>5, <1>6, <1>7, QueueStep
<1>9. ReqInv'
  <2>1. \A n \in DOMAIN rows : FromAgent(n) /\ job[n].state = "none" => job'[n].state = "none"
    BY <1>3, <1>8, RowIdsOf DEF Inv
  <2>2. TicketsGrow
    BY <1>1 DEF TicketsGrow
  <2> QED
    BY <1>1, <2>1, <2>2, SameLog, ReqKept DEF Inv
<1>10. RoomInv'
  <2>1. Persisting' = Persisting
    BY <1>1 DEF Persisting
  <2> QED
    BY <1>1, <1>6, <2>1, SameLog, RoomKept
<1> QED
  BY <1>6, <1>8, <1>9, <1>10 DEF Inv

(* A request changes its own state only. *)
LEMMA RequestOnly ==
  ASSUME Inv, UNCHANGED <<chat, rows, ticket, opening, job, out, rejected>>, ReqInv',
         Cardinality(RepliesMade) + Cardinality(Persisting') <= MaxReplies
  PROVE  Inv'
<1>1. LogInv'
  BY LogKept, ChatStays DEF Inv
<1>2. Quiet
  BY ChatStays, RowsStay DEF Quiet, Inv
<1>3. JobInv' /\ OutInv' /\ DeliveryInv' /\ CopiesInv'
  <2>1. \A t \in Tickets : opening'[t] = "ackEnqueue" => opening[t] \in {"ackRow", "ackEnqueue"}
    OBVIOUS
  <2> QED
    BY <1>1, <1>2, <2>1, QuietKept
<1>4. RoomInv'
  BY SameLog DEF Inv, RoomInv
<1> QED
  BY <1>1, <1>3, <1>4 DEF Inv

LEMMA ReplyStep ==
  ASSUME Inv, NEW r \in Requests, NEW t \in Tickets, NEW mode \in Modes, NEW parts \in 1 .. MaxParts,
         Reply(r, t, mode, parts)
  PROVE  Inv'
<1> DEFINE q == [pc |-> IF mode = "auto" THEN "readLast" ELSE "persist",
                 ticket |-> t, mode |-> mode, parts |-> parts,
                 quote |-> IF mode = "never" THEN None ELSE ticket[t].lastClient,
                 responded |-> ticket[t].firstResponse # 0, row |-> 0]
<1>1. /\ req[r].pc = "idle" /\ ticket[t] # None /\ RoomForReply /\ req' = [req EXCEPT ![r] = q]
      /\ UNCHANGED <<chat, rows, ticket, opening, job, out, rejected>>
  BY DEF Reply
<1>2. ticket[t].lastClient \in Nat /\ ClientMsg(ticket[t].lastClient, t)
  BY <1>1 DEF Inv, LogInv, TicketRow
<1>3. q \in ReqType
  BY <1>2 DEF ReqType, MaxRows
<1>4. /\ q.pc \in {"readLast", "persist"} /\ q.ticket = t
      /\ (q.quote # None => ClientMsg(q.quote, t))
      /\ (q.responded => ticket[t].firstResponse # 0)
  BY <1>2
<1> HIDE DEF q
<1>5. /\ req' \in [Requests -> ReqType] /\ req'[r] = q
      /\ \A p \in Requests \ {r} : req'[p] = req[p]
  BY <1>1, <1>3 DEF Inv, ReqInv
<1>6. ReqInv'
  <2>1. ASSUME NEW p \in Requests, req'[p].pc # "idle"
        PROVE  /\ req'[p].ticket \in Tickets /\ ticket'[req'[p].ticket] # None
               /\ req'[p].quote # None => ClientMsg(req[p].quote, req[p].ticket)'
               /\ req'[p].responded => ticket'[req'[p].ticket].firstResponse # 0
    <3>1. CASE p = r
      BY <1>1, <1>4, <1>5, <3>1 DEF ClientMsg
    <3>2. CASE p # r
      BY <1>1, <1>5, <2>1, <3>2 DEF Inv, ReqInv, ClientMsg
    <3> QED
      BY <3>1, <3>2
  <2>2. \A p \in Requests : req'[p].pc = "enqueue" => p # r /\ req'[p] = req[p]
    BY <1>4, <1>5
  <2>3. \A p \in Requests : req'[p].pc = "enqueue" =>
          /\ req'[p].row \in DOMAIN rows' /\ FromAgent(req[p].row)'
          /\ rows'[req'[p].row].ticket = req'[p].ticket
          /\ job'[req'[p].row].state = "none" /\ req'[p].row \notin rejected'
    BY <1>1, <2>2 DEF Inv, ReqInv, FromAgent
  <2>4. \A p, s \in Requests :
          req'[p].pc = "enqueue" /\ req'[s].pc = "enqueue" /\ req'[p].row = req'[s].row => p = s
    BY <2>2 DEF Inv, ReqInv
  <2> QED
    BY <1>5, <2>1, <2>3, <2>4 DEF ReqInv
<1>7. Cardinality(RepliesMade) + Cardinality(Persisting') <= MaxReplies
  <2>1. /\ IsFiniteSet(Persisting) /\ Cardinality(Persisting) \in Nat
        /\ Cardinality(RepliesMade) \in Nat
    BY Finite DEF Inv, LogInv
  <2>2. Persisting' = Persisting \union {r}
    BY <1>4, <1>5 DEF Persisting
  <2>3. r \notin Persisting
    BY <1>1 DEF Persisting
  <2>4. Cardinality(Persisting \union {r}) = Cardinality(Persisting) + 1
    BY <2>1, <2>3, FS_AddElement
  <2> QED
    BY <1>1, <2>1, <2>2, <2>4 DEF RoomForReply
<1> QED
  BY <1>1, <1>6, <1>7, RequestOnly

(* Request r takes state q, the others are untouched. *)
LEMMA ReqSet ==
  ASSUME Inv, ChatGrows, RowsGrow, TicketsGrow, NEW r \in Requests, NEW q \in ReqType,
         req' = [req EXCEPT ![r] = q],
         \A n \in DOMAIN rows :
           FromAgent(n) /\ job[n].state = "none" /\ n \notin rejected
             /\ (req[r].pc = "enqueue" => n # req[r].row)
           => job'[n].state = "none" /\ n \notin rejected',
         q.pc # "idle" =>
           /\ q.ticket \in Tickets /\ ticket'[q.ticket] # None
           /\ q.quote # None => /\ q.quote \in DOMAIN chat' /\ chat'[q.quote].row = 0
                                /\ chat'[q.quote].ticket = q.ticket
           /\ q.responded => ticket'[q.ticket].firstResponse # 0,
         q.pc = "enqueue" =>
           /\ q.row \in DOMAIN rows' /\ q.row \notin DOMAIN rows
           /\ rows'[q.row].sender = "agent" /\ rows'[q.row].ticket = q.ticket
           /\ job'[q.row].state = "none" /\ q.row \notin rejected'
  PROVE  ReqInv'
<1>1. /\ req' \in [Requests -> ReqType] /\ req'[r] = q
      /\ \A p \in Requests \ {r} : req'[p] = req[p]
  BY DEF Inv, ReqInv
<1>2. ASSUME NEW p \in Requests, req'[p].pc # "idle"
      PROVE  /\ req'[p].ticket \in Tickets /\ ticket'[req'[p].ticket] # None
             /\ req'[p].quote # None => ClientMsg(req[p].quote, req[p].ticket)'
             /\ req'[p].responded => ticket'[req'[p].ticket].firstResponse # 0
  <2>1. CASE p = r
    BY <1>1, <1>2, <2>1 DEF ClientMsg
  <2>2. CASE p # r
    <3>1. req'[p] = req[p] /\ req[p].pc # "idle"
      BY <1>1, <1>2, <2>2
    <3>2. /\ req[p].ticket \in Tickets /\ ticket[req[p].ticket] # None
          /\ (req[p].quote # None => ClientMsg(req[p].quote, req[p].ticket))
          /\ (req[p].responded => ticket[req[p].ticket].firstResponse # 0)
      BY <3>1 DEF Inv, ReqInv
    <3>3. /\ ticket'[req[p].ticket] # None
          /\ (req[p].responded => ticket'[req[p].ticket].firstResponse # 0)
      BY <3>2 DEF TicketsGrow
    <3> QED
      BY <3>1, <3>2, <3>3 DEF ClientMsg, ChatGrows
  <2> QED
    BY <2>1, <2>2
<1>3. \A p \in Requests \ {r} : req'[p].pc = "enqueue" =>
        /\ req'[p] = req[p] /\ req[p].row \in DOMAIN rows /\ FromAgent(req[p].row)
        /\ rows[req[p].row].ticket = req[p].ticket
        /\ job[req[p].row].state = "none" /\ req[p].row \notin rejected
        /\ (req[r].pc = "enqueue" => req[p].row # req[r].row)
  BY <1>1 DEF Inv, ReqInv
<1>4. ASSUME NEW p \in Requests, req'[p].pc = "enqueue"
      PROVE  /\ req'[p].row \in DOMAIN rows' /\ FromAgent(req[p].row)'
             /\ rows'[req'[p].row].ticket = req'[p].ticket
             /\ job'[req'[p].row].state = "none" /\ req'[p].row \notin rejected'
  <2>1. CASE p = r
    BY <1>1, <1>4, <2>1 DEF FromAgent
  <2>2. CASE p # r
    BY <1>3, <1>4, <2>2 DEF FromAgent, RowsGrow
  <2> QED
    BY <2>1, <2>2
<1>5. \A p, s \in Requests :
        req'[p].pc = "enqueue" /\ req'[s].pc = "enqueue" /\ req'[p].row = req'[s].row => p = s
  <2>1. \A p \in Requests \ {r} :
          req'[p].pc = "enqueue" /\ req'[r].pc = "enqueue" => req'[p].row # req'[r].row
    BY <1>1, <1>3
  <2>2. \A p, s \in Requests \ {r} :
          req'[p].pc = "enqueue" /\ req'[s].pc = "enqueue" /\ req'[p].row = req'[s].row => p = s
    BY <1>1 DEF Inv, ReqInv
  <2> QED
    BY <2>1, <2>2
<1> QED
  BY <1>1, <1>2, <1>4, <1>5 DEF ReqInv

LEMMA ReadLastStep ==
  ASSUME Inv, NEW r \in Requests, ReadLast(r)
  PROVE  Inv'
<1> DEFINE mine == RowsOf(req[r].ticket)
           last == {m \in mine : \A n \in mine : n <= m}
           quote == AutoQuote(last, req[r].quote)
           q == [[req[r] EXCEPT !.pc = "persist"] EXCEPT !.quote = quote]
<1>1. /\ req[r].pc = "readLast" /\ req[r] \in ReqType
      /\ req[r].ticket \in Tickets /\ ticket[req[r].ticket] # None
      /\ (req[r].quote # None => ClientMsg(req[r].quote, req[r].ticket))
      /\ (req[r].responded => ticket[req[r].ticket].firstResponse # 0)
      /\ UNCHANGED <<chat, rows, ticket, opening, job, out, rejected>>
  BY DEF Inv, ReqInv, ReadLast
<1>2. req' = [req EXCEPT ![r] = q]
  BY DEF ReadLast
<1>3. quote \in Nat \union {None} /\ (quote # None => ClientMsg(quote, req[r].ticket))
  <2>1. CASE last = {}
    BY <1>1, <2>1 DEF AutoQuote, ReqType
  <2>2. CASE last # {}
    <3> DEFINE m == CHOOSE n \in last : TRUE
    <3>1. m \in last
      BY <2>2
    <3>2. m \in DOMAIN rows /\ rows[m].ticket = req[r].ticket
      BY <3>1 DEF RowsOf
    <3>3. quote = IF FromClient(m) THEN rows[m].tg ELSE None
      BY <2>2 DEF AutoQuote
    <3>4. FromClient(m) => ClientMsg(rows[m].tg, req[r].ticket)
      BY <3>2 DEF Inv, LogInv
    <3>5. \A i, t : ClientMsg(i, t) => i \in Nat
      <4>1. DOMAIN chat \subseteq Nat
        BY DEF Inv, LogInv
      <4> QED
        BY <4>1 DEF ClientMsg
    <3> QED
      BY <3>3, <3>4, <3>5
  <2> QED
    BY <2>1, <2>2
<1> HIDE DEF quote
<1>4. /\ q \in ReqType /\ q.pc = "persist" /\ q.quote = quote /\ q.ticket = req[r].ticket
      /\ q.responded = req[r].responded
  BY <1>1, <1>3 DEF ReqType
<1> HIDE DEF q
<1>5. ChatGrows /\ RowsGrow /\ TicketsGrow
  BY <1>1, SameLog DEF TicketsGrow
<1>6. ReqInv'
  <2>1. /\ q.ticket \in Tickets /\ ticket'[q.ticket] # None
        /\ q.quote # None => /\ q.quote \in DOMAIN chat' /\ chat'[q.quote].row = 0
                             /\ chat'[q.quote].ticket = q.ticket
        /\ q.responded => ticket'[q.ticket].firstResponse # 0
    BY <1>1, <1>3, <1>4 DEF ClientMsg
  <2>2. q.pc # "enqueue" /\ job' = job /\ rejected' = rejected
    BY <1>1, <1>4
  <2> QED
    BY <1>2, <1>4, <1>5, <2>1, <2>2, ReqSet
<1>7. Persisting' = Persisting
  <2>1. \A p \in Requests : req'[p].pc = IF p = r THEN "persist" ELSE req[p].pc
    BY <1>2, <1>4 DEF Inv, ReqInv
  <2> QED
    BY <1>1, <2>1 DEF Persisting
<1> QED
  BY <1>1, <1>6, <1>7, RequestOnly DEF Inv, RoomInv

(* A request may end at any point. *)
LEMMA RequestIdle ==
  ASSUME Inv, NEW r \in Requests, req' = [req EXCEPT ![r] = IdleRequest]
  PROVE  /\ Persisting' \subseteq Persisting
         /\ IdleRequest \in ReqType /\ IdleRequest.pc = "idle"
<1>1. IdleRequest \in ReqType /\ IdleRequest.pc = "idle"
  BY DEF IdleRequest, ReqType, MaxRows
<1>2. \A p \in Requests : req'[p].pc = IF p = r THEN "idle" ELSE req[p].pc
  BY <1>1 DEF Inv, ReqInv
<1> QED
  BY <1>1, <1>2 DEF Persisting

LEMMA EnqueueStep ==
  ASSUME Inv, NEW r \in Requests, Enqueue(r)
  PROVE  Inv'
<1> DEFINE m == req[r].row
           q == req[r].quote
<1>1. /\ req[r].pc = "enqueue" /\ Queued(m, q) /\ req' = [req EXCEPT ![r] = IdleRequest]
      /\ UNCHANGED <<chat, rows, ticket, opening, out, rejected>>
  BY DEF Enqueue
<1>2. /\ m \in DOMAIN rows /\ FromAgent(m) /\ rows[m].ticket = req[r].ticket
      /\ job[m].state = "none" /\ m \notin rejected
      /\ q \in Nat \union {None} /\ (q # None => ClientMsg(q, req[r].ticket))
  BY <1>1 DEF Inv, ReqInv, ReqType
<1>3. ~FromClient(m) /\ rows[m].sender # "bot"
  BY <1>2 DEF FromAgent, FromClient
<1> HIDE DEF m, q
<1>4. \A n \in DOMAIN rows : rows[n].ticket \in Tickets
  BY RowTyped DEF Inv, Row
<1>5. /\ JobInv' /\ OutInv' /\ DeliveryInv' /\ CopiesInv'
      /\ \A n \in RowIds \ {m} : job'[n] = job[n]
  BY <1>1, <1>2, <1>3, <1>4, QueueStep
<1>6. LogInv'
  BY <1>1, LogKept, ChatStays DEF Inv
<1>7. Persisting' \subseteq Persisting /\ IdleRequest \in ReqType /\ IdleRequest.pc = "idle"
  BY <1>1, RequestIdle
<1>8. ReqInv'
  <2>1. \A n \in DOMAIN rows :
          FromAgent(n) /\ job[n].state = "none" /\ n \notin rejected
            /\ (req[r].pc = "enqueue" => n # req[r].row)
          => job'[n].state = "none" /\ n \notin rejected'
    BY <1>1, <1>5, RowIdsOf DEF Inv, m
  <2>2. ChatGrows /\ RowsGrow /\ TicketsGrow
    BY <1>1, SameLog DEF TicketsGrow
  <2> QED
    BY <1>1, <1>7, <2>1, <2>2, ReqSet
<1>9. RoomInv'
  BY <1>1, <1>6, <1>7, SameLog, RoomKept
<1> QED
  BY <1>5, <1>6, <1>8, <1>9 DEF Inv

LEMMA RequestFailsStep ==
  ASSUME Inv, NEW r \in Requests, RequestFails(r)
  PROVE  Inv'
<1>1. /\ req' = [req EXCEPT ![r] = IdleRequest]
      /\ UNCHANGED <<chat, rows, ticket, opening, job, out>>
      /\ rejected' = IF req[r].pc = "enqueue" THEN rejected \union {req[r].row} ELSE rejected
  BY DEF RequestFails
<1>2. Persisting' \subseteq Persisting /\ IdleRequest \in ReqType /\ IdleRequest.pc = "idle"
  BY <1>1, RequestIdle
<1>3. LogInv'
  BY <1>1, LogKept, ChatStays DEF Inv
<1>4. req[r].pc = "enqueue" =>
        req[r].row \in DOMAIN rows /\ FromAgent(req[r].row) /\ job[req[r].row].state = "none"
  BY DEF Inv, ReqInv
<1>5. JobInv'
  BY <1>1, <1>4 DEF Inv, JobInv, FromAgent, FromClient, ClientMsg
<1>6. OutInv'
  BY <1>1, SameLog, OutKept
<1>7. DeliveryInv'
  BY <1>1 DEF Inv, DeliveryInv, CompletedIsDelivered, ConfirmedIsFirstPart, QuotesInv, Copies, TgIds,
     FromClient, ClientMsg
<1>8. CopiesInv'
  BY <1>1, SameLog DEF Inv, CopiesInv, Underway
<1>9. ReqInv'
  <2>1. \A n \in DOMAIN rows :
          FromAgent(n) /\ job[n].state = "none" /\ n \notin rejected
            /\ (req[r].pc = "enqueue" => n # req[r].row)
          => job'[n].state = "none" /\ n \notin rejected'
    BY <1>1
  <2>2. ChatGrows /\ RowsGrow /\ TicketsGrow
    BY <1>1, SameLog DEF TicketsGrow
  <2> QED
    BY <1>1, <1>2, <2>1, <2>2, ReqSet
<1>10. RoomInv'
  BY <1>1, <1>2, <1>3, SameLog, RoomKept
<1> QED
  BY <1>3, <1>5, <1>6, <1>7, <1>8, <1>9, <1>10 DEF Inv

LEMMA PersistStep ==
  ASSUME Inv, NEW r \in Requests, Persist(r)
  PROVE  Inv'
<1> DEFINE t == req[r].ticket
           m == Len(rows) + 1
           x == AgentRow(t, req[r].parts)
           q == [[req[r] EXCEPT !.pc = "enqueue"] EXCEPT !.row = m]
<1>1. /\ req[r].pc = "persist" /\ rows' = Append(rows, x) /\ req' = [req EXCEPT ![r] = q]
      /\ ticket' = IF ~req[r].responded THEN [ticket EXCEPT ![t].firstResponse = m] ELSE ticket
      /\ UNCHANGED <<chat, opening, job, out, rejected>>
  BY DEF Persist, StillUnanswered
<1>2. /\ req[r] \in ReqType /\ t \in Tickets /\ ticket[t] # None
      /\ (req[r].quote # None => ClientMsg(req[r].quote, t))
      /\ (req[r].responded => ticket[t].firstResponse # 0)
  BY <1>1 DEF Inv, ReqInv
<1>3. x \in Row /\ x.ticket = t /\ x.sender = "agent" /\ x.tg = None
  BY <1>2 DEF AgentRow, Row, ReqType
<1>4. /\ IsFiniteSet(Persisting) /\ Cardinality(Persisting) \in Nat
      /\ Cardinality(RepliesMade) \in Nat
      /\ Cardinality(Persisting \ {r}) = Cardinality(Persisting) - 1
      /\ Cardinality(Persisting \ {r}) \in Nat
  <2>1. /\ IsFiniteSet(Persisting) /\ Cardinality(Persisting) \in Nat
        /\ Cardinality(RepliesMade) \in Nat
    BY Finite DEF Inv, LogInv
  <2>2. r \in Persisting
    BY <1>1 DEF Persisting
  <2>3. IsFiniteSet(Persisting \ {r}) /\ Cardinality(Persisting \ {r}) = Cardinality(Persisting) - 1
    BY <2>1, <2>2, FS_RemoveElement
  <2> QED
    BY <2>1, <2>3, FS_CardinalityType
<1>5. Len(rows) < MaxRows /\ Len(rows) \in Nat
  <2>1. Cardinality(RepliesMade) < MaxReplies
    BY <1>4 DEF Inv, RoomInv
  <2> QED
    BY <2>1, RoomForReplyRow DEF Inv, LogInv
<1>6. m \in 0 .. MaxRows /\ m # 0
  BY <1>5 DEF MaxRows
<1>7. /\ q \in ReqType /\ q.pc = "enqueue" /\ q.row = m /\ q.ticket = t /\ q.quote = req[r].quote
      /\ q.responded = req[r].responded
  BY <1>2, <1>6 DEF ReqType
<1>8. /\ RowsGrow
      /\ DOMAIN rows = 1 .. Len(rows) /\ Len(rows) \in Nat
      /\ DOMAIN rows' = 1 .. Len(rows) + 1
      /\ \A n \in DOMAIN rows : rows'[n] = rows[n]
      /\ rows'[Len(rows) + 1] = x
  BY <1>1, <1>3, <1>5, RowsAppend DEF Inv
<1>9. /\ ticket' \in [Tickets -> {None} \union TicketRow]
      /\ ticket'[t] # None /\ ticket'[t].firstResponse # 0
      /\ ticket'[t].anchor = ticket[t].anchor /\ ticket'[t].lastClient = ticket[t].lastClient
      /\ \A u \in Tickets \ {t} : ticket'[u] = ticket[u]
  <2>1. ticket[t] \in TicketRow /\ ticket \in [Tickets -> {None} \union TicketRow]
    BY <1>2 DEF Inv, LogInv
  <2>2. CASE req[r].responded
    BY <1>1, <1>2, <2>1, <2>2
  <2>3. CASE ~req[r].responded
    <3>1. ticket' = [ticket EXCEPT ![t] = [ticket[t] EXCEPT !.firstResponse = m]]
      BY <1>1, <2>3
    <3>2. [ticket[t] EXCEPT !.firstResponse = m] \in TicketRow
      BY <1>6, <2>1 DEF TicketRow
    <3>3. /\ ticket'[t] = [ticket[t] EXCEPT !.firstResponse = m]
          /\ \A u \in Tickets \ {t} : ticket'[u] = ticket[u]
          /\ ticket' \in [Tickets -> {None} \union TicketRow]
      BY <1>2, <2>1, <3>1, <3>2
    <3> QED
      BY <1>6, <2>1, <3>2, <3>3 DEF TicketRow
  <2> QED
    BY <2>2, <2>3
<1> HIDE DEF q, x, m
<1>10. FirstResponseIffAnswered'
  <2>1. \A n \in DOMAIN rows' : n \in DOMAIN rows \/ n = Len(rows) + 1
    BY <1>8
  <2>2. \A u \in Tickets \ {t} :
          (\E n \in RowsOf(u)' : FromAgent(n)') <=> (\E n \in RowsOf(u) : FromAgent(n))
    <3>1. \A u \in Tickets \ {t} : \A n : n \in DOMAIN rows' /\ rows'[n].ticket = u =>
            n \in DOMAIN rows /\ rows'[n] = rows[n]
      BY <1>3, <1>8, <2>1
    <3>2. \A n \in DOMAIN rows : n \in DOMAIN rows' /\ rows'[n] = rows[n]
      BY <1>8
    <3> QED
      BY <3>1, <3>2 DEF RowsOf, FromAgent
  <2>3. \E n \in DOMAIN rows' : rows'[n].ticket = t /\ rows'[n].sender = "agent"
    <3>1. \E n \in DOMAIN rows' : rows'[n] = x
      BY <1>8
    <3> QED
      BY <1>3, <3>1
  <2> SUFFICES ASSUME NEW u \in Tickets, ticket'[u] # None
               PROVE  ticket'[u].firstResponse # 0 <=> \E n \in RowsOf(u)' : FromAgent(n)'
    BY DEF FirstResponseIffAnswered
  <2>4. CASE u = t
    BY <1>9, <2>3, <2>4 DEF RowsOf, FromAgent
  <2>5. CASE u # t
    BY <1>9, <2>2, <2>5 DEF Inv, LogInv, FirstResponseIffAnswered
  <2> QED
    BY <2>4, <2>5
<1>11. LogInv' /\ RepliesMade' = RepliesMade \union {Len(rows) + 1}
  <2>1. /\ opening' \in [Tickets -> {"none", "record", "ackRow", "ackEnqueue", "done"}]
        /\ \A u \in Tickets : /\ opening[u] = "none" <=> opening'[u] = "none"
                              /\ opening'[u] = "record" => opening[u] = "record"
                              /\ opening[u] \in {"ackEnqueue", "done"} =>
                                   opening'[u] \in {"ackEnqueue", "done"}
    BY <1>1 DEF Inv, LogInv
  <2>2. /\ \A u \in Tickets : ticket[u] = None <=> ticket'[u] = None
        /\ \A u \in Tickets : ticket[u] # None =>
             ticket'[u].anchor = ticket[u].anchor /\ ticket'[u].lastClient = ticket[u].lastClient
    BY <1>2, <1>9
  <2>3. x.sender # "customer" /\ x.sender # "bot"
    BY <1>3
  <2> HIDE DEF t
  <2> QED
    BY <1>1, <1>2, <1>3, <1>5, <1>9, <1>10, <2>1, <2>2, <2>3, ReplyRowLog
<1>12. Quiet /\ JobInv' /\ OutInv' /\ DeliveryInv' /\ CopiesInv'
  <2>1. \A u \in Tickets : opening'[u] = "ackEnqueue" => opening[u] \in {"ackRow", "ackEnqueue"}
    BY <1>1
  <2> QED
    BY <1>1, <1>3, <1>5, <1>11, <2>1, RowAdded
<1>13. TicketsGrow
  BY <1>2, <1>9 DEF TicketsGrow
<1>14. ReqInv'
  <2>1. m \notin DOMAIN rows /\ m \in DOMAIN rows' /\ m \in RowIds /\ rows'[m] = x
    BY <1>5, <1>8 DEF m, RowIds, MaxRows
  <2>2. job'[m].state = "none" /\ m \notin rejected'
    BY <1>1, <2>1 DEF Inv, JobInv
  <2>3. /\ q.ticket \in Tickets /\ ticket'[q.ticket] # None
        /\ q.quote # None => /\ q.quote \in DOMAIN chat' /\ chat'[q.quote].row = 0
                             /\ chat'[q.quote].ticket = q.ticket
        /\ q.responded => ticket'[q.ticket].firstResponse # 0
    BY <1>1, <1>2, <1>7, <1>9 DEF ClientMsg
  <2>4. /\ q.row \in DOMAIN rows' /\ q.row \notin DOMAIN rows
        /\ rows'[q.row].sender = "agent" /\ rows'[q.row].ticket = q.ticket
        /\ job'[q.row].state = "none" /\ q.row \notin rejected'
    BY <1>3, <1>7, <2>1, <2>2
  <2>5. ChatGrows /\ job' = job /\ rejected' = rejected
    BY <1>1, <1>12 DEF Quiet
  <2> QED
    BY <1>1, <1>7, <1>8, <1>13, <2>3, <2>4, <2>5, ReqSet
<1>15. RoomInv'
  <2>1. \A p \in Requests : req'[p].pc = IF p = r THEN "enqueue" ELSE req[p].pc
    BY <1>1, <1>7 DEF Inv, ReqInv
  <2>2. Persisting' = Persisting \ {r}
    BY <2>1 DEF Persisting
  <2>3. ClientMessages' = ClientMessages
    BY <1>1 DEF ClientMessages
  <2> QED
    BY <1>4, <1>11, <2>2, <2>3, RepliesCount DEF Inv, RoomInv
<1> QED
  BY <1>11, <1>12, <1>14, <1>15 DEF Inv

-----------------------------------------------------------------------------
(* The steps of the outbound processor.                                    *)

(* What a busy sender knows: the row and the job are its own. *)
LEMMA Holder ==
  ASSUME Inv, NEW s \in Senders, out[s].pc # "idle", NEW m, m = out[s].row
  PROVE  /\ m \in RowIds /\ m \in DOMAIN rows /\ m # 0 /\ ~FromClient(m)
         /\ job[m].state = "active" /\ job[m] \in JobType /\ job[m].made < Attempts
         /\ job[m].quote # None => ClientMsg(job[m].quote, rows[m].ticket)
         /\ \A q \in Senders \ {s} : out[q].row # m
         /\ \A p : Underway(m, p) <=> out[s].pc \in {"confirm", "complete"} \/ p < out[s].part
<1>1. m \in RowIds /\ job[m].state = "active" /\ m # 0
  BY DEF Inv, OutInv, Progress
<1>2. \A q \in Senders \ {s} : out[q].row # m
  BY <1>1 DEF Inv, OutInv
<1>3. \A p : Underway(m, p) <=> out[s].pc \in {"confirm", "complete"} \/ p < out[s].part
  BY <1>2 DEF Underway
<1> QED
  BY <1>1, <1>2, <1>3 DEF Inv, JobInv

(* The job of row m, which has one, changes. *)
LEMMA JobSet ==
  ASSUME Inv, ChatGrows, RowsGrow, DOMAIN rows' = DOMAIN rows, UNCHANGED <<opening, rejected>>,
         NEW m \in RowIds, job[m].state # "none",
         NEW j \in JobType, j.state # "none", j.quote = job[m].quote,
         j.state \in {"waiting", "active"} => j.made < Attempts,
         job' = [job EXCEPT ![m] = j]
  PROVE  /\ JobInv' /\ job'[m] = j
         /\ \A n \in RowIds \ {m} : job'[n] = job[n]
         /\ \A n \in RowIds : job[n].state = "none" => job'[n].state = "none"
<1>1. /\ job' \in [RowIds -> JobType] /\ job'[m] = j
      /\ \A n \in RowIds \ {m} : job'[n] = job[n]
  BY DEF Inv, JobInv
<1>2. \A n \in DOMAIN rows : /\ rows'[n].ticket = rows[n].ticket /\ rows'[n].sender = rows[n].sender
                             /\ (FromClient(n)' <=> FromClient(n)) /\ (FromAgent(n)' <=> FromAgent(n))
  BY DEF RowsGrow, FromClient, FromAgent
<1>3. \A n \in RowIds : job'[n].state = "none" => job'[n] = NoJob
  BY <1>1 DEF Inv, JobInv
<1>4. ASSUME NEW n \in RowIds, job'[n].state # "none"
      PROVE  /\ n \in DOMAIN rows' /\ ~FromClient(n)'
             /\ job'[n].quote # None => ClientMsg(job[n].quote, rows[n].ticket)'
  <2>1. job[n].state # "none" /\ job'[n].quote = job[n].quote
    BY <1>1, <1>4
  <2>2. /\ n \in DOMAIN rows /\ ~FromClient(n)
        /\ (job[n].quote # None => ClientMsg(job[n].quote, rows[n].ticket))
    BY <2>1 DEF Inv, JobInv
  <2> QED
    BY <1>2, <2>1, <2>2 DEF ClientMsg, ChatGrows
<1>5. \A n \in RowIds : job'[n].state \in {"waiting", "active"} => job'[n].made < Attempts
  BY <1>1 DEF Inv, JobInv
<1>6. \A n \in RowIds : job[n].state = "none" => job'[n].state = "none"
  BY <1>1
<1>7. \A n \in DOMAIN rows' :
        rows'[n].sender = "bot" /\ opening'[rows'[n].ticket] = "ackEnqueue" => job'[n].state = "none"
  BY <1>2, <1>6, RowIdsOf DEF Inv, JobInv
<1>8. \A n \in rejected : n \in DOMAIN rows' /\ FromAgent(n)' /\ job'[n].state = "none"
  BY <1>2, <1>6, RowIdsOf DEF Inv, JobInv
<1>9. JobInv'
  BY <1>1, <1>3, <1>4, <1>5, <1>7, <1>8 DEF JobInv
<1> QED
  BY <1>1, <1>6, <1>9

(* Sender s takes state o, and active jobs are still held. *)
Moves(s, o) ==
  /\ out' = [out EXCEPT ![s] = o]
  /\ o.pc = "idle" <=> o.row = 0
  /\ o.row # 0 => \A q \in Senders \ {s} : out[q].row # o.row
  /\ \A q \in Senders \ {s} : out[q].pc # "idle" => job'[out[q].row].state = "active"
  /\ \A n \in RowIds : job'[n].state = "active" =>
       o.row = n \/ \E q \in Senders \ {s} : out[q].row = n

(* One sender moves, the others keep what they have shown. *)
LEMMA OutSet ==
  ASSUME Inv, ChatGrows, RowsGrow, NEW s \in Senders, NEW o \in OutType, Moves(s, o),
         o.pc # "idle" => Progress(s)'
  PROVE  OutInv'
<1> USE DEF Moves
<1>1. /\ out' \in [Senders -> OutType] /\ out'[s] = o
      /\ \A q \in Senders \ {s} : out'[q] = out[q]
  BY DEF Inv, OutInv
<1>2. \A q \in Senders : out'[q].pc = "idle" <=> out'[q].row = 0
  BY <1>1 DEF Inv, OutInv
<1>3. ASSUME NEW q \in Senders, out'[q].pc # "idle"
      PROVE  Progress(q)'
  <2>1. CASE q = s
    BY <1>1, <1>3, <2>1
  <2>2. CASE q # s
    <3>1. out'[q] = out[q] /\ out[q].pc # "idle"
      BY <1>1, <1>3, <2>2
    <3>2. Progress(q) /\ out[q].row \in RowIds /\ job[out[q].row].state = "active"
      BY <3>1 DEF Inv, OutInv, Progress
    <3>3. out[q].row \in DOMAIN rows /\ job'[out[q].row].state = "active"
      BY <2>2, <3>1, <3>2 DEF Inv, JobInv
    <3> QED
      BY <3>1, <3>2, <3>3, ProgressKept DEF Inv
  <2> QED
    BY <2>1, <2>2
<1>4. \A p, q \in Senders : out'[p].row = out'[q].row /\ out'[p].row # 0 => p = q
  <2>1. \A q \in Senders \ {s} : out'[q].row = o.row => o.row = 0
    BY <1>1
  <2>2. \A p, q \in Senders \ {s} : out'[p].row = out'[q].row /\ out'[p].row # 0 => p = q
    BY <1>1 DEF Inv, OutInv
  <2> QED
    BY <1>1, <2>1, <2>2
<1>5. \A n \in RowIds : job'[n].state = "active" => \E q \in Senders : out'[q].row = n
  BY <1>1
<1> QED
  BY <1>1, <1>2, <1>3, <1>4, <1>5 DEF OutInv

(* A sender's step is no concern of other rows. *)
LEMMA OthersUnderway ==
  ASSUME Inv, NEW s \in Senders, NEW o \in OutType, NEW m, out' = [out EXCEPT ![s] = o],
         o.row = 0 \/ o.row = m, out[s].row = 0 \/ out[s].row = m
  PROVE  \A n \in RowIds \ {m} : \A p : Underway(n, p)' <=> Underway(n, p)
<1>1. /\ out'[s] = o /\ \A q \in Senders \ {s} : out'[q] = out[q]
  BY DEF Inv, OutInv
<1>2. 0 \notin RowIds
  BY DEF RowIds
<1>3. \A n \in RowIds \ {m}, q \in Senders : out[q].row = n \/ out'[q].row = n => q # s
  BY <1>1, <1>2
<1>4. \A n \in RowIds \ {m}, q \in Senders :
        (out[q].row = n <=> out'[q].row = n) /\ (out[q].row = n => out'[q] = out[q])
  BY <1>1, <1>3
<1> QED
  BY <1>4 DEF Underway

LEMMA TakeStep ==
  ASSUME Inv, NEW s \in Senders, NEW m \in RowIds, Take(s, m)
  PROVE  Inv'
<1> DEFINE j == [job[m] EXCEPT !.state = "active"]
<1>o. PICK o : o = [IdleSender EXCEPT !.pc = "send", !.row = m]
  OBVIOUS
<1>1. /\ out[s].pc = "idle" /\ job[m].state = "waiting"
      /\ job' = [job EXCEPT ![m] = j] /\ out' = [out EXCEPT ![s] = o]
      /\ UNCHANGED <<chat, rows, ticket, opening, req, rejected>>
  BY <1>o DEF Take
<1>2. /\ j \in JobType /\ j.state = "active" /\ j.quote = job[m].quote
      /\ j.made = job[m].made /\ j.stalled = job[m].stalled /\ j.made < Attempts
  <2>1. job[m] \in JobType /\ job[m].made < Attempts
    BY <1>1 DEF Inv, JobInv
  <2> QED
    BY <2>1 DEF JobType
<1>3. /\ o \in OutType /\ o.pc = "send" /\ o.row = m /\ o.part = 1 /\ o.first = None
  <2>1. IdleSender \in OutType /\ IdleSender.part = 1 /\ IdleSender.first = None
    BY DEF IdleSender, OutType, MaxRows
  <2>2. m \in 0 .. MaxRows
    BY DEF RowIds, MaxRows
  <2> QED
    BY <1>o, <2>1, <2>2 DEF OutType
<1> HIDE DEF j
<1>4. ChatGrows /\ RowsGrow /\ DOMAIN rows' = DOMAIN rows /\ TicketsGrow /\ LogInv'
  BY <1>1, SameLog, LogKept DEF TicketsGrow, Inv
<1>5. /\ JobInv' /\ job'[m] = j
      /\ \A n \in RowIds \ {m} : job'[n] = job[n]
      /\ \A n \in RowIds : job[n].state = "none" => job'[n].state = "none"
  BY <1>1, <1>2, <1>4, JobSet
<1>6. m \in DOMAIN rows /\ m # 0 /\ 1 <= rows[m].parts
  <2>1. m \in DOMAIN rows
    BY <1>1 DEF Inv, JobInv
  <2> QED
    BY <2>1, RowTyped DEF RowIds, Row, Inv
<1>7. \A q \in Senders : out[q].pc # "idle" => out[q].row # m /\ out[q].row \in RowIds
                                              /\ job[out[q].row].state = "active"
  BY <1>1 DEF Inv, OutInv, Progress
<1>8. /\ out'[s] = o /\ \A q \in Senders \ {s} : out'[q] = out[q]
      /\ \A q \in Senders : out[q].row # m
      /\ out[s].row = 0
  BY <1>1, <1>6, <1>7 DEF Inv, OutInv
<1>9. OutInv'
  <2>1. Progress(s)'
    BY <1>1, <1>2, <1>3, <1>5, <1>6, <1>8 DEF Progress
  <2>2. o.pc = "idle" <=> o.row = 0
    BY <1>3, <1>6
  <2>3. \A q \in Senders \ {s} : out[q].pc # "idle" => job'[out[q].row].state = "active"
    BY <1>5, <1>7
  <2>4. \A n \in RowIds : job'[n].state = "active" =>
          o.row = n \/ \E q \in Senders \ {s} : out[q].row = n
    <3>1. \A n \in RowIds : job[n].state = "active" => \E q \in Senders : out[q].row = n
      BY DEF Inv, OutInv
    <3>2. 0 \notin RowIds
      BY DEF RowIds
    <3> QED
      BY <1>3, <1>5, <1>8, <3>1, <3>2
  <2>5. o.row # 0 => \A q \in Senders \ {s} : out[q].row # o.row
    BY <1>3, <1>8
  <2>6. Moves(s, o)
    BY <1>1, <2>2, <2>3, <2>4, <2>5 DEF Moves
  <2> QED
    BY <1>3, <1>4, <2>1, <2>6, OutSet
<1>10. DeliveryInv'
  <2>1. \A n \in DOMAIN rows : job'[n].state = "completed" => job[n].state = "completed"
    BY <1>2, <1>5, RowIdsOf DEF Inv
  <2>2. CompletedIsDelivered'
    BY <1>1, <2>1, SameLog DEF Inv, DeliveryInv, CompletedIsDelivered
  <2>3. ConfirmedIsFirstPart'
    BY <1>1, SameLog DEF Inv, DeliveryInv, ConfirmedIsFirstPart
  <2>4. QuotesInv'
    <3>1. chat' = chat
      BY <1>1
    <3> QED
      BY <3>1 DEF Inv, DeliveryInv, QuotesInv, TgIds, ClientMsg
  <2> QED
    BY <2>2, <2>3, <2>4 DEF DeliveryInv
<1>11. CopiesInv'
  <2>1. \A n \in RowIds \ {m} : \A p : Underway(n, p)' <=> Underway(n, p)
    <3>1. out' = [out EXCEPT ![s] = o]
      BY <1>1
    <3>2. o \in OutType /\ (o.row = 0 \/ o.row = m) /\ (out[s].row = 0 \/ out[s].row = m)
      BY <1>3, <1>8
    <3> QED
      BY <3>1, <3>2, OthersUnderway
  <2>2. \A p : ~Underway(m, p)
    BY <1>8 DEF Underway
  <2>3. \A n, p : Copies(n, p)' = Copies(n, p)
    BY <1>1, SameLog
  <2>4. \A n \in RowIds \ {m}, p \in 1 .. MaxParts :
          Cardinality(Copies(n, p)') <=
            IF job'[n].state \in {"completed", "failed"} THEN Attempts + MaxStalls
            ELSE job'[n].made + job'[n].stalled + (IF Underway(n, p)' THEN 1 ELSE 0)
    BY <1>5, <2>1, <2>3 DEF Inv, CopiesInv
  <2>5. \A p \in 1 .. MaxParts :
          Cardinality(Copies(m, p)') <= job'[m].made + job'[m].stalled + (IF Underway(m, p)' THEN 1 ELSE 0)
    <3> SUFFICES ASSUME NEW p \in 1 .. MaxParts
                 PROVE  Cardinality(Copies(m, p)) <=
                          job'[m].made + job'[m].stalled + (IF Underway(m, p)' THEN 1 ELSE 0)
      BY <2>3
    <3>1. Cardinality(Copies(m, p)) <= job[m].made + job[m].stalled + 0
      BY <1>1, <2>2 DEF Inv, CopiesInv
    <3>2. Cardinality(Copies(m, p)) \in Nat
      BY Finite DEF Inv, LogInv
    <3>3. job[m].made \in Nat /\ job[m].stalled \in Nat
      BY DEF Inv, JobInv, JobType
    <3> QED
      BY <1>2, <1>5, <3>1, <3>2, <3>3
  <2> QED
    BY <1>2, <1>5, <2>4, <2>5 DEF CopiesInv
<1>12. ReqInv'
  BY <1>1, <1>4, <1>5, RowIdsOf, ReqKept DEF Inv
<1>13. RoomInv'
  <2>1. Persisting' = Persisting
    BY <1>1 DEF Persisting
  <2> QED
    BY <1>1, <1>4, <2>1, SameLog, RoomKept
<1> QED
  BY <1>4, <1>5, <1>9, <1>10, <1>11, <1>12, <1>13 DEF Inv

(* Copies can be counted. *)
LEMMA CopiesFinite == ChatGrows => \A m, p : Cardinality(Copies(m, p)') \in Nat
<1> SUFFICES ASSUME ChatGrows, NEW m, NEW p PROVE Cardinality(Copies(m, p)') \in Nat
  OBVIOUS
<1>1. Len(chat') \in Int /\ 1 \in Int
  BY DEF ChatGrows
<1>2. IsFiniteSet(1 .. Len(chat'))
  BY <1>1, FS_Interval
<1>3. Copies(m, p)' \in SUBSET (1 .. Len(chat'))
  BY DEF Copies, TgIds
<1> QED
  BY <1>2, <1>3, FS_Subset, FS_CardinalityType

(* Part k of row m appears in the chat. *)
Grown(m, k) ==
  /\ ChatGrows /\ QuotesInv' /\ ClientMessages' = ClientMessages
  /\ Len(chat') \in Nat /\ Len(chat') \in Copies(m, k)'
  /\ \A n \in RowIds \ {m} : \A p : Copies(n, p)' = Copies(n, p)
  /\ \A p : p # k => Copies(m, p)' = Copies(m, p)
  /\ Cardinality(Copies(m, k)') <= Cardinality(Copies(m, k)) + 1

(* A part that is shown adds one copy of it and none of another. *)
LEMMA Posted ==
  ASSUME NEW s \in Senders, NEW m, NEW k, Inv, out[s].pc = "send",
         m = out[s].row, k = out[s].part, chat' = Shown(m, k), rows' = rows
  PROVE  Grown(m, k)
<1> DEFINE x == BotPost(m, k, QuoteOf(m, k))
<1>1. /\ m \in RowIds /\ m \in DOMAIN rows /\ m # 0 /\ job[m] \in JobType
      /\ (job[m].quote # None => ClientMsg(job[m].quote, rows[m].ticket))
  BY Holder
<1>2. /\ x \in PostType /\ x.row = m /\ x.part = k /\ x.ticket = rows[m].ticket
      /\ x.quote \in {None, job[m].quote}
  <2>1. rows[m].ticket \in Tickets
    BY <1>1, RowTyped DEF Inv, Row
  <2>2. m \in 0 .. MaxRows /\ k \in 1 .. MaxParts
    BY <1>1 DEF Inv, OutInv, OutType, RowIds, MaxRows
  <2>3. job[m].quote \in Nat \union {None}
    BY <1>1 DEF JobType
  <2> QED
    BY <2>1, <2>2, <2>3 DEF BotPost, QuoteOf, PostType
<1>3. chat' = Append(chat, x)
  BY DEF Shown
<1> HIDE DEF x
<1>4. /\ ChatGrows
      /\ DOMAIN chat = 1 .. Len(chat) /\ Len(chat) \in Nat
      /\ DOMAIN chat' = 1 .. Len(chat) + 1 /\ Len(chat') = Len(chat) + 1
      /\ chat'[Len(chat) + 1] = x
  BY <1>2, <1>3, ChatAppend DEF Inv
<1>5. \A i \in DOMAIN chat' : (i \in DOMAIN chat /\ chat'[i] = chat[i]) \/ (i = Len(chat) + 1 /\ chat'[i] = x)
  BY <1>4 DEF ChatGrows
<1>6. TgIds = DOMAIN chat /\ TgIds' = DOMAIN chat'
  BY <1>4 DEF TgIds
<1>7. ClientMessages' = ClientMessages
  <2>1. \A i \in DOMAIN chat' : chat'[i].row = 0 <=> i \in DOMAIN chat /\ chat[i].row = 0
    BY <1>1, <1>2, <1>4, <1>5 DEF ChatGrows
  <2> QED
    BY <1>4, <2>1 DEF ClientMessages, ChatGrows
<1>8. \A i \in DOMAIN chat : i \in DOMAIN chat' /\ chat'[i] = chat[i]
  BY <1>4 DEF ChatGrows
<1>9. \A n \in RowIds \ {m} : \A p : Copies(n, p)' = Copies(n, p)
  BY <1>2, <1>5, <1>6, <1>8 DEF Copies
<1>10. \A p : p # k => Copies(m, p)' = Copies(m, p)
  BY <1>2, <1>5, <1>6, <1>8 DEF Copies
<1>11. Copies(m, k)' = Copies(m, k) \union {Len(chat) + 1}
  <2>1. \A i \in DOMAIN chat' : chat'[i].row = m /\ chat'[i].part = k <=>
          (i \in DOMAIN chat /\ chat[i].row = m /\ chat[i].part = k) \/ i = Len(chat) + 1
    BY <1>2, <1>4, <1>5, <1>8
  <2>2. Len(chat) + 1 \in DOMAIN chat'
    BY <1>4
  <2> QED
    BY <1>6, <1>8, <2>1, <2>2 DEF Copies
<1>12. Cardinality(Copies(m, k)') <= Cardinality(Copies(m, k)) + 1
  <2>1. IsFiniteSet(Copies(m, k)) /\ Cardinality(Copies(m, k)) \in Nat
    BY Finite DEF Inv, LogInv
  <2>2. Cardinality(Copies(m, k) \union {Len(chat) + 1}) =
          IF Len(chat) + 1 \in Copies(m, k) THEN Cardinality(Copies(m, k))
          ELSE Cardinality(Copies(m, k)) + 1
    BY <2>1, FS_AddElement
  <2> QED
    BY <1>11, <2>1, <2>2
<1>13. QuotesInv'
  <2> SUFFICES ASSUME NEW i \in DOMAIN chat', chat'[i].quote # None
               PROVE  /\ chat'[i].quote < i /\ chat'[i].quote \in DOMAIN chat'
                      /\ chat'[chat'[i].quote].row = 0
                      /\ chat'[chat'[i].quote].ticket = chat'[i].ticket
    BY <1>6 DEF QuotesInv, ClientMsg
  <2>1. CASE i \in DOMAIN chat /\ chat'[i] = chat[i]
    <3>1. chat[i].quote < i /\ ClientMsg(chat[i].quote, chat[i].ticket)
      BY <1>6, <2>1 DEF Inv, DeliveryInv, QuotesInv
    <3> QED
      BY <1>8, <2>1, <3>1 DEF ClientMsg
  <2>2. CASE i = Len(chat) + 1 /\ chat'[i] = x
    <3>1. chat'[i].quote = job[m].quote /\ ClientMsg(job[m].quote, rows[m].ticket)
      BY <1>1, <1>2, <2>2
    <3>2. job[m].quote \in 1 .. Len(chat) /\ job[m].quote < i
      BY <1>4, <2>2, <3>1 DEF ClientMsg
    <3> QED
      BY <1>2, <1>8, <2>2, <3>1, <3>2 DEF ClientMsg
  <2> QED
    BY <1>5, <2>1, <2>2
<1>14. Len(chat') \in Nat /\ Len(chat') \in Copies(m, k)'
  BY <1>4, <1>11
<1> QED
  BY <1>4, <1>7, <1>9, <1>10, <1>12, <1>13, <1>14 DEF Grown

(* Sender s lets go of the job of row m, which becomes j: it waits for     *)
(* another attempt, has failed, or, after the last part, is completed.     *)
Released(m, j) ==
  /\ j.state \in {"waiting", "failed", "completed"} /\ j.quote = job[m].quote
  /\ j.state = "waiting" =>
       j.made + j.stalled = job[m].made + job[m].stalled + 1 /\ j.made < Attempts

(* Row m alone gets messages in the chat, no more than its job allows. *)
Shows(m) ==
  /\ ChatGrows /\ QuotesInv' /\ ClientMessages' = ClientMessages
  /\ \A n \in RowIds \ {m} : \A p : Copies(n, p)' = Copies(n, p)
  /\ \A p \in 1 .. MaxParts : Cardinality(Copies(m, p)') <= job[m].made + job[m].stalled + 1

(* A sender lets go of its job: it completed, failed, waits again or *)
(* stalled. *)
LEMMA Release ==
  ASSUME NEW s \in Senders, NEW m, NEW j \in JobType,
         Inv, out[s].pc # "idle", m = out[s].row, Released(m, j), j.state = "completed" => out[s].pc = "complete",
         job' = [job EXCEPT ![m] = j], out' = [out EXCEPT ![s] = IdleSender],
         UNCHANGED <<rows, ticket, opening, req, rejected>>, Shows(m)
  PROVE  Inv'
<1> USE DEF Shows
<1>1. /\ m \in RowIds /\ m \in DOMAIN rows /\ ~FromClient(m)
      /\ job[m].state = "active" /\ job[m] \in JobType /\ job[m].made < Attempts
      /\ \A q \in Senders \ {s} : out[q].row # m
  BY Holder
<1>2. RowsGrow /\ DOMAIN rows' = DOMAIN rows /\ TicketsGrow /\ LogInv'
  BY RowsStay, LogKept DEF Inv, TicketsGrow
<1>3. /\ j.state # "none" /\ j.state # "active" /\ j.quote = job[m].quote
      /\ (j.state = "waiting" => j.made < Attempts)
  BY DEF Released
<1>4. /\ JobInv' /\ job'[m] = j
      /\ \A n \in RowIds \ {m} : job'[n] = job[n]
      /\ \A n \in RowIds : job[n].state = "none" => job'[n].state = "none"
  BY <1>1, <1>2, <1>3, JobSet
<1>5. IdleSender \in OutType /\ IdleSender.pc = "idle" /\ IdleSender.row = 0
  BY DEF IdleSender, OutType, MaxRows
<1>6. OutInv'
  <2>1. \A q \in Senders \ {s} : out[q].pc # "idle" => job'[out[q].row].state = "active"
    <3>1. \A q \in Senders \ {s} : out[q].pc # "idle" =>
            out[q].row \in RowIds \ {m} /\ job[out[q].row].state = "active"
      BY <1>1 DEF Inv, OutInv, Progress
    <3> QED
      BY <1>4, <3>1
  <2>2. \A n \in RowIds : job'[n].state = "active" => \E q \in Senders \ {s} : out[q].row = n
    <3>1. \A n \in RowIds : job'[n].state = "active" => n # m /\ job[n].state = "active"
      BY <1>3, <1>4
    <3> QED
      BY <3>1 DEF Inv, OutInv
  <2>3. Moves(s, IdleSender)
    BY <1>5, <2>1, <2>2 DEF Moves
  <2> QED
    BY <1>2, <1>5, <2>3, OutSet
<1>7. \A n, p : Copies(n, p) \subseteq Copies(n, p)'
  BY CopiesLast DEF Inv
<1>8. DeliveryInv'
  <2>1. CompletedIsDelivered'
    <3> SUFFICES ASSUME NEW n \in DOMAIN rows, job'[n].state = "completed"
                 PROVE  /\ rows[n].tg # None
                        /\ \A part \in 1 .. rows[n].parts : Copies(n, part)' # {}
      BY <1>2 DEF CompletedIsDelivered
    <3>1. CASE n = m
      <4>1. out[s].pc = "complete" /\ Progress(s)
        BY <1>4, <3>1 DEF Inv, OutInv
      <4>2. /\ rows[m].tg # None /\ out[s].part = rows[m].parts /\ Copies(m, out[s].part) # {}
            /\ \A p \in 1 .. MaxParts : p < out[s].part => Copies(m, p) # {}
        BY <4>1 DEF Progress
      <4>3. rows[m].parts \in 1 .. MaxParts
        BY <1>1, RowTyped DEF Inv, Row
      <4>4. \A p \in 1 .. rows[m].parts : Copies(m, p) # {}
        BY <4>2, <4>3
      <4> QED
        BY <1>7, <3>1, <4>2, <4>4
    <3>2. CASE n # m
      <4>1. n \in RowIds
        BY RowIdsOf DEF Inv
      <4>2. job[n].state = "completed"
        BY <1>4, <3>2, <4>1
      <4> QED
        BY <1>7, <4>2 DEF Inv, DeliveryInv, CompletedIsDelivered
    <3> QED
      BY <3>1, <3>2
  <2>2. ConfirmedIsFirstPart'
    <3>1. \A n \in DOMAIN rows : ~FromClient(n) /\ rows[n].tg # None => rows[n].tg \in Copies(n, 1)'
      BY <1>7 DEF Inv, DeliveryInv, ConfirmedIsFirstPart
    <3> QED
      BY <3>1 DEF ConfirmedIsFirstPart, FromClient
  <2> QED
    BY <2>1, <2>2 DEF DeliveryInv
<1>9. CopiesInv'
  <2>1. \A n \in RowIds \ {m} : \A p : Underway(n, p)' <=> Underway(n, p)
    BY <1>5, OthersUnderway
  <2>2. \A n \in RowIds \ {m}, p \in 1 .. MaxParts :
          Cardinality(Copies(n, p)') <=
            IF job'[n].state \in {"completed", "failed"} THEN Attempts + MaxStalls
            ELSE job'[n].made + job'[n].stalled + (IF Underway(n, p)' THEN 1 ELSE 0)
    BY <1>4, <2>1 DEF Inv, CopiesInv
  <2>3. \A p \in 1 .. MaxParts :
          Cardinality(Copies(m, p)') <=
            IF job'[m].state \in {"completed", "failed"} THEN Attempts + MaxStalls
            ELSE job'[m].made + job'[m].stalled + (IF Underway(m, p)' THEN 1 ELSE 0)
    <3> SUFFICES ASSUME NEW p \in 1 .. MaxParts
                 PROVE  Cardinality(Copies(m, p)') <=
                          IF j.state \in {"completed", "failed"} THEN Attempts + MaxStalls
                          ELSE j.made + j.stalled + (IF Underway(m, p)' THEN 1 ELSE 0)
      BY <1>4
    <3>1. Cardinality(Copies(m, p)') \in Nat
      BY CopiesFinite
    <3>2. Cardinality(Copies(m, p)') <= job[m].made + job[m].stalled + 1
      OBVIOUS
    <3>3. job[m].made \in Nat /\ job[m].stalled \in 0 .. MaxStalls /\ job[m].made < Attempts
      BY <1>1 DEF JobType
    <3>4. j.made \in Nat /\ j.stalled \in Nat
      BY DEF JobType
    <3>5. CASE j.state \in {"completed", "failed"}
      BY <3>1, <3>2, <3>3, <3>5
    <3>6. CASE j.state = "waiting"
      BY <3>1, <3>2, <3>3, <3>4, <3>6 DEF Released
    <3> QED
      BY <3>5, <3>6 DEF Released
  <2> QED
    BY <2>2, <2>3 DEF CopiesInv
<1>10. ReqInv'
  BY <1>2, <1>4, RowIdsOf, ReqKept DEF Inv
<1>11. RoomInv'
  <2>1. Persisting' = Persisting /\ RepliesMade' = RepliesMade
    BY DEF Persisting, RepliesMade, FromClient
  <2> QED
    BY <1>2, <2>1, RoomKept
<1> QED
  BY <1>2, <1>4, <1>6, <1>8, <1>9, <1>10, <1>11 DEF Inv

(* Nothing is shown, or one part is: the bound on its copies. *)
LEMMA HeldCopies ==
  ASSUME Inv, NEW s \in Senders, out[s].pc # "idle", NEW m, m = out[s].row
  PROVE  \A p \in 1 .. MaxParts :
           /\ Cardinality(Copies(m, p)) <= job[m].made + job[m].stalled + 1
           /\ out[s].pc = "send" /\ p = out[s].part =>
                Cardinality(Copies(m, p)) <= job[m].made + job[m].stalled
<1> SUFFICES ASSUME NEW p \in 1 .. MaxParts
             PROVE  /\ Cardinality(Copies(m, p)) <= job[m].made + job[m].stalled + 1
                    /\ out[s].pc = "send" /\ p = out[s].part =>
                         Cardinality(Copies(m, p)) <= job[m].made + job[m].stalled
  OBVIOUS
<1>1. /\ m \in RowIds /\ job[m].state = "active" /\ job[m] \in JobType
      /\ (Underway(m, p) <=> out[s].pc \in {"confirm", "complete"} \/ p < out[s].part)
  BY Holder
<1>2. Cardinality(Copies(m, p)) <= job[m].made + job[m].stalled + (IF Underway(m, p) THEN 1 ELSE 0)
  BY <1>1 DEF Inv, CopiesInv
<1>3. job[m].made \in Nat /\ job[m].stalled \in Nat /\ Cardinality(Copies(m, p)) \in Nat
  BY <1>1, Finite DEF JobType, Inv, LogInv
<1>4. out[s].pc = "send" /\ p = out[s].part => ~Underway(m, p)
  BY <1>1
<1> QED
  BY <1>2, <1>3, <1>4

(* The attempt ends without a new message in the chat. *)
LEMMA QuietRelease ==
  ASSUME NEW s \in Senders, NEW m, NEW j \in JobType,
         Inv, out[s].pc # "idle", m = out[s].row, Released(m, j), j.state = "completed" => out[s].pc = "complete",
         job' = [job EXCEPT ![m] = j], out' = [out EXCEPT ![s] = IdleSender],
         UNCHANGED <<chat, rows, ticket, opening, req, rejected>>
  PROVE  Inv'
<1>1. /\ ChatGrows /\ ClientMessages' = ClientMessages
      /\ \A n, p : Copies(n, p)' = Copies(n, p)
  BY SameLog
<1>2. QuotesInv'
  BY DEF Inv, DeliveryInv, QuotesInv, TgIds, ClientMsg
<1>3. \A p \in 1 .. MaxParts : Cardinality(Copies(m, p)') <= job[m].made + job[m].stalled + 1
  BY <1>1, HeldCopies
<1>4. Shows(m)
  BY <1>1, <1>2, <1>3 DEF Shows
<1> QED
  BY <1>4, Release

(* After a failure the job waits again or has failed. *)
LEMMA FailureReleases ==
  ASSUME Inv, NEW s \in Senders, out[s].pc # "idle", NEW m, m = out[s].row
  PROVE  /\ AfterFailure(job[m]) \in JobType /\ Released(m, AfterFailure(job[m]))
         /\ AfterFailure(job[m]).state # "completed"
<1> DEFINE j == AfterFailure(job[m])
           made == job[m].made + 1
           state == IF made < Attempts THEN "waiting" ELSE "failed"
<1>1. job[m] \in JobType /\ job[m].made < Attempts
  BY Holder
<1>2. made \in 0 .. Attempts /\ state \in {"waiting", "failed"}
      /\ (state = "waiting" => made < Attempts)
  BY <1>1 DEF JobType
<1>3. j = [[job[m] EXCEPT !.made = made] EXCEPT !.state = state]
  BY DEF AfterFailure
<1> HIDE DEF made, state, j
<1>4. [job[m] EXCEPT !.made = made] \in JobType
  BY <1>1, <1>2 DEF JobType
<1>5. /\ j \in JobType /\ j.made = made /\ j.state = state /\ j.stalled = job[m].stalled
      /\ j.quote = job[m].quote
  BY <1>1, <1>2, <1>3, <1>4 DEF JobType
<1>6. made + j.stalled = job[m].made + job[m].stalled + 1
  BY <1>1, <1>5 DEF made, JobType
<1> QED
  BY <1>2, <1>5, <1>6 DEF Released, j

(* After a stall the job waits again or has failed. *)
LEMMA StallReleases ==
  ASSUME Inv, NEW s \in Senders, out[s].pc # "idle", NEW m, m = out[s].row
  PROVE  /\ AfterStall(job[m]) \in JobType /\ Released(m, AfterStall(job[m]))
         /\ AfterStall(job[m]).state # "completed"
<1>1. job[m] \in JobType /\ job[m].made < Attempts
  BY Holder
<1>2. CASE job[m].stalled < MaxStalls
  <2> DEFINE j == [[job[m] EXCEPT !.state = "waiting"] EXCEPT !.stalled = job[m].stalled + 1]
  <2>1. AfterStall(job[m]) = j
    BY <1>2 DEF AfterStall
  <2>2. [job[m] EXCEPT !.state = "waiting"] \in JobType /\ job[m].stalled + 1 \in 0 .. MaxStalls
    BY <1>1, <1>2 DEF JobType
  <2>3. /\ j \in JobType /\ j.made = job[m].made /\ j.state = "waiting"
        /\ j.stalled = job[m].stalled + 1 /\ j.quote = job[m].quote
    BY <1>1, <2>2 DEF JobType
  <2> HIDE DEF j
  <2>4. j.made + j.stalled = job[m].made + job[m].stalled + 1
    BY <1>1, <2>3 DEF JobType
  <2> QED
    BY <1>1, <2>1, <2>3, <2>4 DEF Released
<1>3. CASE ~(job[m].stalled < MaxStalls)
  <2> DEFINE j == [job[m] EXCEPT !.state = "failed"]
  <2>1. AfterStall(job[m]) = j
    BY <1>3 DEF AfterStall
  <2>2. j \in JobType /\ j.state = "failed" /\ j.quote = job[m].quote
    BY <1>1 DEF JobType
  <2> HIDE DEF j
  <2> QED
    BY <2>1, <2>2 DEF Released
<1> QED
  BY <1>2, <1>3

LEMMA ThrowStep ==
  ASSUME Inv, NEW s \in Senders, out[s].pc # "idle", Throw(s),
         UNCHANGED <<chat, rows, ticket, opening, req, rejected>>
  PROVE  Inv'
<1>1. PICK m : m = out[s].row
  OBVIOUS
<1>2. job' = [job EXCEPT ![m] = AfterFailure(job[m])] /\ out' = [out EXCEPT ![s] = IdleSender]
  BY <1>1 DEF Throw
<1>3. /\ AfterFailure(job[m]) \in JobType /\ Released(m, AfterFailure(job[m]))
      /\ AfterFailure(job[m]).state # "completed"
  BY <1>1, FailureReleases
<1> QED
  BY <1>1, <1>2, <1>3, QuietRelease

LEMMA CrashStep ==
  ASSUME Inv, NEW s \in Senders, Crash(s)
  PROVE  Inv'
<1>1. PICK m : m = out[s].row
  OBVIOUS
<1>2. /\ job' = [job EXCEPT ![m] = AfterStall(job[m])] /\ out' = [out EXCEPT ![s] = IdleSender]
      /\ out[s].pc # "idle" /\ UNCHANGED <<chat, rows, ticket, opening, req, rejected>>
  BY <1>1 DEF Crash
<1>3. /\ AfterStall(job[m]) \in JobType /\ Released(m, AfterStall(job[m]))
      /\ AfterStall(job[m]).state # "completed"
  BY <1>1, <1>2, StallReleases
<1> QED
  BY <1>1, <1>2, <1>3, QuietRelease

LEMMA CompleteStep ==
  ASSUME Inv, NEW s \in Senders, Complete(s)
  PROVE  Inv'
<1>1. PICK m : m = out[s].row
  OBVIOUS
<1> DEFINE j == [job[m] EXCEPT !.state = "completed"]
<1>2. /\ job' = [job EXCEPT ![m] = j] /\ out' = [out EXCEPT ![s] = IdleSender]
      /\ out[s].pc = "complete" /\ UNCHANGED <<chat, rows, ticket, opening, req, rejected>>
  BY <1>1 DEF Complete
<1>3. job[m] \in JobType
  BY <1>1, <1>2, Holder
<1>4. j \in JobType /\ j.state = "completed" /\ j.quote = job[m].quote
  BY <1>3 DEF JobType
<1> HIDE DEF j
<1>5. Released(m, j)
  BY <1>4 DEF Released
<1> QED
  BY <1>1, <1>2, <1>4, <1>5, QuietRelease

LEMMA SendLostStep ==
  ASSUME Inv, NEW s \in Senders, SendLost(s)
  PROVE  Inv'
<1>1. PICK m : m = out[s].row
  OBVIOUS
<1>2. PICK k : k = out[s].part
  OBVIOUS
<1>3. /\ job' = [job EXCEPT ![m] = AfterFailure(job[m])] /\ out' = [out EXCEPT ![s] = IdleSender]
      /\ out[s].pc = "send" /\ UNCHANGED <<rows, ticket, opening, req, rejected>>
      /\ chat' = Shown(m, k)
  BY <1>1, <1>2 DEF SendLost, Throw
<1>4. /\ AfterFailure(job[m]) \in JobType /\ Released(m, AfterFailure(job[m]))
      /\ AfterFailure(job[m]).state # "completed"
  BY <1>1, <1>3, FailureReleases
<1>5. Grown(m, k)
  <2>1. out[s].pc = "send" /\ chat' = Shown(m, k) /\ rows' = rows
    BY <1>3
  <2> QED
    BY <1>1, <1>2, <2>1, Posted
<1>6. \A p \in 1 .. MaxParts : Cardinality(Copies(m, p)') <= job[m].made + job[m].stalled + 1
  <2>1. \A p \in 1 .. MaxParts :
          /\ Cardinality(Copies(m, p)) <= job[m].made + job[m].stalled + 1
          /\ p = k => Cardinality(Copies(m, p)) <= job[m].made + job[m].stalled
    BY <1>1, <1>2, <1>3, HeldCopies
  <2>2. \A p : Cardinality(Copies(m, p)) \in Nat /\ Cardinality(Copies(m, p)') \in Nat
    BY <1>5, Finite, CopiesFinite DEF Inv, LogInv, Grown
  <2>3. job[m].made \in Nat /\ job[m].stalled \in Nat
    BY <1>1, <1>3, Holder DEF JobType
  <2> QED
    BY <1>5, <2>1, <2>2, <2>3 DEF Grown
<1>7. out[s].pc # "idle" /\ UNCHANGED <<rows, ticket, opening, req, rejected>>
  BY <1>3
<1>8. PICK j \in JobType : j = AfterFailure(job[m])
  BY <1>4
<1>9. Released(m, j) /\ j.state # "completed" /\ job' = [job EXCEPT ![m] = j]
      /\ out' = [out EXCEPT ![s] = IdleSender]
  BY <1>3, <1>4, <1>8
<1>10. Shows(m)
  BY <1>5, <1>6 DEF Shows, Grown
<1> QED
  BY <1>1, <1>7, <1>9, <1>10, Release

LEMMA SendPartStep ==
  ASSUME Inv, NEW s \in Senders, SendPart(s)
  PROVE  Inv'
<1>1. PICK m : m = out[s].row
  OBVIOUS
<1>2. PICK k : k = out[s].part
  OBVIOUS
<1> DEFINE last == k = rows[m].parts
           pc == IF last THEN "confirm" ELSE "send"
           part == IF last THEN k ELSE k + 1
           first == IF k = 1 THEN Len(chat') ELSE out[s].first
           o == [pc |-> pc, row |-> m, part |-> part, first |-> first]
<1>3. /\ out[s].pc = "send" /\ chat' = Shown(m, k)
      /\ UNCHANGED <<rows, ticket, opening, req, job, rejected>>
  BY <1>1, <1>2 DEF SendPart
<1>4. out' = [out EXCEPT ![s] = o]
  BY <1>1, <1>2 DEF SendPart, FirstTgMessageId
<1>5. Grown(m, k)
  <2>1. out[s].pc = "send" /\ chat' = Shown(m, k) /\ rows' = rows
    BY <1>3
  <2> QED
    BY <1>1, <1>2, <2>1, Posted
<1>6. /\ m \in RowIds /\ m \in DOMAIN rows /\ m # 0
      /\ job[m].state = "active" /\ job[m] \in JobType
      /\ \A q \in Senders \ {s} : out[q].row # m
      /\ \A p : Underway(m, p) <=> p < k
  BY <1>1, <1>2, <1>3, Holder
<1>7. /\ out[s] \in OutType /\ Progress(s) /\ k \in 1 .. MaxParts
      /\ k <= rows[m].parts /\ rows[m].parts \in 1 .. MaxParts
      /\ \A p \in 1 .. MaxParts : p < k => Copies(m, p) # {}
      /\ (k > 1 => out[s].first \in Copies(m, 1))
  <2>1. out[s] \in OutType /\ Progress(s)
    BY <1>3 DEF Inv, OutInv
  <2>2. rows[m].parts \in 1 .. MaxParts
    BY <1>6, RowTyped DEF Inv, Row
  <2> QED
    BY <1>1, <1>2, <2>1, <2>2 DEF Progress, OutType
<1>8. /\ part \in 1 .. MaxParts /\ part <= rows[m].parts /\ pc \in {"send", "confirm"}
      /\ (pc = "confirm" => part = k /\ k = rows[m].parts)
      /\ (pc = "send" => part = k + 1)
  BY <1>7
<1>9. first \in Nat
  <2>1. CASE k = 1
    BY <1>5, <2>1 DEF Grown
  <2>2. CASE k # 1
    <3>1. first \in Copies(m, 1) /\ TgIds \subseteq Nat
      BY <1>7, <2>2 DEF TgIds
    <3> QED
      BY <3>1 DEF Copies
  <2> QED
    BY <2>1, <2>2
<1>10. first \in Copies(m, 1)'
  <2>1. CASE k = 1
    BY <1>5, <2>1 DEF Grown
  <2>2. CASE k # 1
    BY <1>5, <1>7, <2>2 DEF Grown
  <2> QED
    BY <2>1, <2>2
<1> HIDE DEF pc, part, first
<1>11. o \in OutType /\ o.pc = pc /\ o.part = part /\ o.first = first /\ o.row = m
       /\ out' = [out EXCEPT ![s] = o]
  <2>1. m \in 0 .. MaxRows
    BY <1>6 DEF RowIds, MaxRows
  <2>2. o \in OutType
    BY <1>8, <1>9, <2>1 DEF OutType
  <2> QED
    BY <1>4, <2>2
<1> HIDE DEF o
<1>12. ChatGrows /\ RowsGrow /\ TicketsGrow /\ LogInv'
  BY <1>3, <1>5, RowsStay, LogKept DEF TicketsGrow, Inv, Grown
<1>13. out'[s] = o /\ \A q \in Senders \ {s} : out'[q] = out[q]
  BY <1>11 DEF Inv, OutInv
<1>14. Copies(m, k)' # {} /\ \A p \in 1 .. MaxParts : p < k => Copies(m, p)' # {}
  BY <1>5, <1>7 DEF Grown
<1>15. OutInv'
  <2>1. Progress(s)'
    <3>1. out'[s].row = m /\ out'[s].part = part /\ out'[s].pc = pc /\ out'[s].first = first
          /\ job' = job /\ rows' = rows
      BY <1>3, <1>11, <1>13
    <3>2. \A p \in 1 .. MaxParts : p < part => Copies(m, p)' # {}
      <4> SUFFICES ASSUME NEW p \in 1 .. MaxParts, p < part PROVE Copies(m, p)' # {}
        OBVIOUS
      <4>1. p < k \/ p = k
        BY <1>7, <1>8
      <4> QED
        BY <1>14, <4>1
    <3>3. pc = "confirm" => out'[s].part = k /\ k = rows[m].parts /\ Copies(m, k)' # {}
      BY <1>8, <1>14, <3>1
    <3> QED
      BY <1>6, <1>8, <1>10, <3>1, <3>2, <3>3 DEF Progress
  <2>2. \A q \in Senders \ {s} : out[q].pc # "idle" => job'[out[q].row].state = "active"
    BY <1>3 DEF Inv, OutInv, Progress
  <2>3. \A n \in RowIds : job'[n].state = "active" =>
          o.row = n \/ \E q \in Senders \ {s} : out[q].row = n
    BY <1>1, <1>3, <1>11 DEF Inv, OutInv
  <2>4. Moves(s, o)
    BY <1>6, <1>8, <1>11, <2>2, <2>3 DEF Moves
  <2> QED
    BY <1>11, <1>12, <2>1, <2>4, OutSet
<1>16. JobInv'
  <2>1. job' = [job EXCEPT ![m] = job[m]]
    BY <1>3, <1>6 DEF Inv, JobInv
  <2>2. job[m].state # "none" /\ job[m].made < Attempts
    BY <1>6 DEF Inv, JobInv
  <2>3. DOMAIN rows' = DOMAIN rows /\ UNCHANGED <<opening, rejected>>
    BY <1>3
  <2> QED
    BY <1>6, <1>12, <2>1, <2>2, <2>3, JobSet
<1>17. \A n, p : Copies(n, p) \subseteq Copies(n, p)'
  BY <1>12, CopiesLast DEF Inv
<1>18. DeliveryInv'
  <2>1. CompletedIsDelivered'
    BY <1>3, <1>17 DEF Inv, DeliveryInv, CompletedIsDelivered
  <2>2. ConfirmedIsFirstPart'
    BY <1>3, <1>17 DEF Inv, DeliveryInv, ConfirmedIsFirstPart, FromClient
  <2> QED
    BY <1>5, <2>1, <2>2 DEF DeliveryInv, Grown
<1>19. CopiesInv'
  <2>1. \A n \in RowIds \ {m} : \A p : Underway(n, p)' <=> Underway(n, p)
    <3>1. (o.row = 0 \/ o.row = m) /\ (out[s].row = 0 \/ out[s].row = m)
      BY <1>1, <1>11
    <3> QED
      BY <1>11, <3>1, OthersUnderway
  <2>2. \A n \in RowIds \ {m}, p \in 1 .. MaxParts :
          Cardinality(Copies(n, p)') <=
            IF job'[n].state \in {"completed", "failed"} THEN Attempts + MaxStalls
            ELSE job'[n].made + job'[n].stalled + (IF Underway(n, p)' THEN 1 ELSE 0)
    BY <1>3, <1>5, <2>1 DEF Inv, CopiesInv, Grown
  <2>3. \A p : Underway(m, p)' <=> pc = "confirm" \/ p < part
    <3>1. \A q \in Senders : out'[q].row = m <=> q = s
      BY <1>6, <1>11, <1>13
    <3> QED
      BY <1>8, <1>11, <1>13, <3>1 DEF Underway
  <2>4. ASSUME NEW p \in 1 .. MaxParts
        PROVE  Cardinality(Copies(m, p)') <=
                 job[m].made + job[m].stalled + (IF Underway(m, p)' THEN 1 ELSE 0)
    <3>1. /\ Cardinality(Copies(m, p)) \in Nat /\ Cardinality(Copies(m, p)') \in Nat
          /\ job[m].made \in Nat /\ job[m].stalled \in Nat
      <4>1. Cardinality(Copies(m, p)) \in Nat
        BY Finite DEF Inv, LogInv
      <4>2. Cardinality(Copies(m, p)') \in Nat
        BY <1>12, CopiesFinite
      <4> QED
        BY <1>6, <4>1, <4>2 DEF JobType
    <3>2. Cardinality(Copies(m, p)) <=
            job[m].made + job[m].stalled + (IF Underway(m, p) THEN 1 ELSE 0)
      BY <1>6 DEF Inv, CopiesInv
    <3>3. CASE p = k
      <4>1. Underway(m, p)' /\ ~Underway(m, p)
        BY <1>6, <1>7, <1>8, <2>3, <3>3
      <4>2. Cardinality(Copies(m, p)') <= Cardinality(Copies(m, p)) + 1
        BY <1>5, <3>3 DEF Grown
      <4> QED
        BY <3>1, <3>2, <4>1, <4>2
    <3>4. CASE p # k
      <4>1. Underway(m, p) => Underway(m, p)'
        BY <1>6, <1>7, <1>8, <2>3
      <4>2. Cardinality(Copies(m, p)') = Cardinality(Copies(m, p))
        BY <1>5, <3>4 DEF Grown
      <4> QED
        BY <3>1, <3>2, <4>1, <4>2
    <3> QED
      BY <3>3, <3>4
  <2>5. job'[m] = job[m] /\ job[m].state \notin {"completed", "failed"}
    BY <1>3, <1>6
  <2> QED
    BY <2>2, <2>4, <2>5 DEF CopiesInv
<1>20. ReqInv'
  BY <1>3, <1>12, ReqKept DEF Inv
<1>21. RoomInv'
  <2>1. /\ Persisting' = Persisting /\ RepliesMade' = RepliesMade
        /\ ClientMessages' = ClientMessages
    BY <1>3, <1>5 DEF Persisting, RepliesMade, FromClient, Grown
  <2> QED
    BY <1>12, <2>1, RoomKept
<1> QED
  BY <1>12, <1>15, <1>16, <1>18, <1>19, <1>20, <1>21 DEF Inv

LEMMA ConfirmStep ==
  ASSUME Inv, NEW s \in Senders, Confirm(s)
  PROVE  Inv'
<1>1. PICK m : m = out[s].row
  OBVIOUS
<1>2. PICK first : first = out[s].first
  OBVIOUS
<1> DEFINE x == [rows[m] EXCEPT !.tg = first]
           o == [out[s] EXCEPT !.pc = "complete"]
<1>3. /\ out[s].pc = "confirm" /\ rows' = [rows EXCEPT ![m] = x] /\ out' = [out EXCEPT ![s] = o]
      /\ UNCHANGED <<chat, ticket, opening, req, job, rejected>>
  BY <1>1, <1>2 DEF Confirm
<1>4. /\ m \in RowIds /\ m \in DOMAIN rows /\ m # 0 /\ ~FromClient(m)
      /\ job[m].state = "active" /\ job[m] \in JobType
      /\ \A q \in Senders \ {s} : out[q].row # m
      /\ \A p : Underway(m, p)
  BY <1>1, <1>3, Holder
<1>5. /\ out[s] \in OutType /\ Progress(s) /\ first \in Copies(m, 1)
  BY <1>1, <1>2, <1>3 DEF Inv, OutInv, Progress
<1>6. first \in Nat /\ first # None
  <2>1. TgIds \subseteq Nat
    BY DEF TgIds
  <2> QED
    BY <1>5, <2>1 DEF Copies
<1>7. x \in Row /\ x.ticket = rows[m].ticket /\ x.sender = rows[m].sender
      /\ x.parts = rows[m].parts /\ x.tg = first
  BY <1>4, <1>6, RowTyped DEF Inv, Row
<1>8. o \in OutType /\ o.pc = "complete" /\ o.row = m /\ o.part = out[s].part /\ o.first = first
  BY <1>1, <1>2, <1>5 DEF OutType
<1> HIDE DEF x, o
<1>9. /\ rows' \in Seq(Row) /\ Len(rows') = Len(rows) /\ DOMAIN rows' = DOMAIN rows
      /\ rows'[m] = x /\ \A n \in DOMAIN rows \ {m} : rows'[n] = rows[n]
  <2>1. rows \in Seq(Row)
    BY DEF Inv, LogInv
  <2> QED
    BY <1>3, <1>4, <1>7, <2>1
<1>10. ChatGrows /\ TicketsGrow
  BY <1>3, ChatStays DEF TicketsGrow, Inv
<1>11. \A n \in DOMAIN rows :
         /\ rows'[n].ticket = rows[n].ticket /\ rows'[n].sender = rows[n].sender
         /\ rows'[n].parts = rows[n].parts /\ (n # m => rows'[n].tg = rows[n].tg)
         /\ (FromClient(n)' <=> FromClient(n)) /\ (FromAgent(n)' <=> FromAgent(n))
         /\ (FromClient(n) => n # m)
  BY <1>4, <1>7, <1>9 DEF FromClient, FromAgent
<1>12. RowsGrow
  BY <1>6, <1>7, <1>9, <1>11 DEF RowsGrow
<1>13. LogInv'
  <2>1. \A i, t : ClientMsg(i, t)' <=> ClientMsg(i, t)
    BY <1>3 DEF ClientMsg
  <2>2. \A t \in Tickets : ticket[t] # None =>
          ClientMsg(ticket[t].anchor, t)' /\ ClientMsg(ticket[t].lastClient, t)'
    BY <1>3 DEF Inv, LogInv, ClientMsg
  <2>3. \A t \in Tickets, n \in DOMAIN rows :
          opening[t] = "record" /\ FromClient(n)' => rows'[n].tg # ticket[t].anchor
    BY <1>11 DEF Inv, LogInv
  <2>4. \A n \in DOMAIN rows : FromClient(n)' => ClientMsg(rows[n].tg, rows[n].ticket)'
    BY <1>3, <1>11 DEF Inv, LogInv, ClientMsg
  <2>5. \A n, p \in DOMAIN rows :
          FromClient(n)' /\ FromClient(p)' /\ rows'[n].tg = rows'[p].tg => n = p
    BY <1>11 DEF Inv, LogInv
  <2>6. \A n \in DOMAIN rows : ticket[rows'[n].ticket] # None
    BY <1>11 DEF Inv, LogInv
  <2>7. \A n \in DOMAIN rows :
          rows'[n].sender = "bot" => opening[rows'[n].ticket] \in {"ackEnqueue", "done"}
    BY <1>11 DEF Inv, LogInv
  <2>8. FirstResponseIffAnswered'
    <3>1. \A t : (\E n \in RowsOf(t)' : FromAgent(n)') <=> (\E n \in RowsOf(t) : FromAgent(n))
      BY <1>9, <1>11 DEF RowsOf
    <3> QED
      BY <1>3, <3>1 DEF Inv, LogInv, FirstResponseIffAnswered
  <2> QED
    BY <1>3, <1>9, <2>1, <2>2, <2>3, <2>4, <2>5, <2>6, <2>7, <2>8 DEF Inv, LogInv
<1>14. /\ TgIds' = TgIds /\ \A n, p : Copies(n, p)' = Copies(n, p)
       /\ ClientMessages' = ClientMessages
  BY <1>3 DEF TgIds, Copies, ClientMessages
<1>15. out'[s] = o /\ \A q \in Senders \ {s} : out'[q] = out[q]
  BY <1>3, <1>8 DEF Inv, OutInv
<1>16. OutInv'
  <2>1. Progress(s)'
    <3>k. PICK k : k = out[s].part
      OBVIOUS
    <3>1. /\ out'[s].row = m /\ out'[s].part = k /\ out'[s].pc = "complete"
          /\ out'[s].first = first /\ job' = job /\ rows'[m].parts = rows[m].parts
          /\ rows'[m].tg # None
      BY <1>3, <1>6, <1>7, <1>8, <1>9, <1>15, <3>k
    <3>2. /\ k = rows[m].parts /\ Copies(m, k) # {} /\ k <= rows[m].parts
          /\ \A p \in 1 .. MaxParts : p < k => Copies(m, p) # {}
      BY <1>1, <1>3, <1>5, <3>k DEF Progress
    <3>3. /\ Copies(m, k)' # {} /\ first \in Copies(m, 1)'
          /\ \A p \in 1 .. MaxParts : p < k => Copies(m, p)' # {}
      BY <1>5, <1>14, <3>2
    <3> QED
      BY <1>4, <3>1, <3>2, <3>3 DEF Progress
  <2>2. \A q \in Senders \ {s} : out[q].pc # "idle" => job'[out[q].row].state = "active"
    BY <1>3 DEF Inv, OutInv, Progress
  <2>3. \A n \in RowIds : job'[n].state = "active" =>
          o.row = n \/ \E q \in Senders \ {s} : out[q].row = n
    BY <1>1, <1>3, <1>8 DEF Inv, OutInv
  <2>4. Moves(s, o)
    BY <1>3, <1>4, <1>8, <2>2, <2>3 DEF Moves
  <2> QED
    BY <1>8, <1>10, <1>12, <2>1, <2>4, OutSet
<1>17. JobInv'
  <2>1. job' = [job EXCEPT ![m] = job[m]]
    BY <1>3, <1>4 DEF Inv, JobInv
  <2>2. job[m].state # "none" /\ job[m].made < Attempts
    BY <1>4 DEF Inv, JobInv
  <2>3. DOMAIN rows' = DOMAIN rows /\ UNCHANGED <<opening, rejected>>
    BY <1>3, <1>9
  <2> QED
    BY <1>4, <1>10, <1>12, <2>1, <2>2, <2>3, JobSet
<1>18. DeliveryInv'
  <2>1. CompletedIsDelivered'
    <3> SUFFICES ASSUME NEW n \in DOMAIN rows, job[n].state = "completed"
                 PROVE  /\ rows'[n].tg # None
                        /\ \A part \in 1 .. rows'[n].parts : Copies(n, part) # {}
      BY <1>3, <1>9, <1>14 DEF CompletedIsDelivered
    <3>1. n # m
      BY <1>4
    <3> QED
      BY <1>11, <3>1 DEF Inv, DeliveryInv, CompletedIsDelivered
  <2>2. ConfirmedIsFirstPart'
    <3> SUFFICES ASSUME NEW n \in DOMAIN rows, ~FromClient(n), rows'[n].tg # None
                 PROVE  rows'[n].tg \in Copies(n, 1)
      BY <1>9, <1>11, <1>14 DEF ConfirmedIsFirstPart
    <3>1. CASE n = m
      BY <1>5, <1>7, <1>9, <3>1
    <3>2. CASE n # m
      BY <1>11, <3>2 DEF Inv, DeliveryInv, ConfirmedIsFirstPart
    <3> QED
      BY <3>1, <3>2
  <2>3. QuotesInv'
    <3>1. chat' = chat
      BY <1>3
    <3> QED
      BY <3>1 DEF Inv, DeliveryInv, QuotesInv, TgIds, ClientMsg
  <2> QED
    BY <2>1, <2>2, <2>3 DEF DeliveryInv
<1>19. CopiesInv'
  <2>1. \A n \in RowIds \ {m} : \A p : Underway(n, p)' <=> Underway(n, p)
    <3>1. (o.row = 0 \/ o.row = m) /\ (out[s].row = 0 \/ out[s].row = m)
      BY <1>1, <1>8
    <3>2. out' = [out EXCEPT ![s] = o]
      BY <1>3
    <3> QED
      BY <1>8, <3>1, <3>2, OthersUnderway
  <2>2. \A p : Underway(m, p)'
    BY <1>8, <1>15 DEF Underway
  <2>3. \A n \in RowIds : \A p : Underway(n, p)' <=> Underway(n, p)
    BY <1>4, <2>1, <2>2
  <2> QED
    BY <1>3, <1>14, <2>3 DEF Inv, CopiesInv
<1>20. ReqInv'
  BY <1>3, <1>10, <1>12, ReqKept DEF Inv
<1>21. RoomInv'
  <2>1. RepliesMade' = RepliesMade
    BY <1>9, <1>11 DEF RepliesMade
  <2>2. Persisting' = Persisting
    BY <1>3 DEF Persisting
  <2> QED
    BY <1>13, <1>14, <2>1, <2>2, RoomKept
<1> QED
  BY <1>13, <1>16, <1>17, <1>18, <1>19, <1>20, <1>21 DEF Inv

-----------------------------------------------------------------------------
LEMMA InvNext == Inv /\ [Next]_vars => Inv'
<1> SUFFICES ASSUME Inv, [Next]_vars PROVE Inv'
  OBVIOUS
<1>1. CASE IngestStep
  <2>1. PICK t \in Tickets :
          \/ ClientWrites(t)
          \/ \E i \in TgIds : CreateTicket(t, i) \/ RecordLater(t, i)
          \/ RecordFirst(t) \/ AckRow(t) \/ AckEnqueue(t) \/ AckDropped(t)
    BY <1>1 DEF IngestStep
  <2>2. CASE \E i \in TgIds : CreateTicket(t, i) \/ RecordLater(t, i)
    BY <2>2, CreateTicketStep, RecordLaterStep
  <2> QED
    BY <2>1, <2>2, ClientWritesStep, RecordFirstStep, AckRowStep, AckEnqueueStep, AckDroppedStep
<1>2. CASE RequestStep
  <2>1. PICK r \in Requests :
          \/ \E t \in Tickets, mode \in Modes, parts \in 1 .. MaxParts : Reply(r, t, mode, parts)
          \/ HandlerStep(r)
    BY <1>2 DEF RequestStep
  <2>2. CASE \E t \in Tickets, mode \in Modes, parts \in 1 .. MaxParts : Reply(r, t, mode, parts)
    BY <2>2, ReplyStep
  <2>3. CASE HandlerStep(r)
    BY <2>3, ReadLastStep, PersistStep, EnqueueStep, RequestFailsStep DEF HandlerStep
  <2> QED
    BY <2>1, <2>2, <2>3
<1>3. CASE Outbound
  <2>1. PICK s \in Senders : (\E m \in RowIds : Take(s, m)) \/ SenderStep(s) \/ Crash(s)
    BY <1>3 DEF Outbound
  <2>2. CASE \E m \in RowIds : Take(s, m)
    BY <2>2, TakeStep
  <2>3. CASE SendRefused(s) \/ ConfirmFails(s)
    <3>1. /\ out[s].pc # "idle" /\ Throw(s)
          /\ UNCHANGED <<chat, rows, ticket, opening, req, rejected>>
      BY <2>3 DEF SendRefused, ConfirmFails
    <3> QED
      BY <3>1, ThrowStep
  <2>4. CASE SenderStep(s)
    BY <2>3, <2>4, SendPartStep, SendLostStep, ConfirmStep, CompleteStep DEF SenderStep
  <2>5. CASE Crash(s)
    BY <2>5, CrashStep
  <2> QED
    BY <2>1, <2>2, <2>4, <2>5
<1>4. CASE UNCHANGED vars
  <2>1. UNCHANGED <<chat, rows, ticket, opening, req, job, out, rejected>>
    BY <1>4 DEF vars
  <2>2. Persisting' = Persisting
    BY <2>1 DEF Persisting
  <2>3. TicketsGrow /\ ChatGrows /\ RowsGrow
    BY <2>1, SameLog DEF TicketsGrow
  <2>4. ReqInv'
    BY <2>1, <2>3, ReqKept DEF Inv
  <2> QED
    BY <2>1, <2>2, <2>4, RequestOnly DEF Inv, RoomInv
<1> QED
  BY <1>1, <1>2, <1>3, <1>4 DEF Next

LEMMA Invariant == Spec => []Inv
BY InvInit, InvNext, PTL DEF Spec

(* Every variable keeps its type, a job is active exactly while a worker   *)
(* holds it, and one worker holds it at a time, for any number of tickets, *)
(* requests, workers, parts, attempts and stalls.                          *)
THEOREM TypeCorrect == Spec => []TypeOK
BY Invariant, InvImplies, PTL

(* An outbound job that ends well has shown every part of its reply and    *)
(* recorded the Telegram id, whatever was refused, lost or crashed before. *)
THEOREM CompletedIsDeliveredHolds == Spec => []CompletedIsDelivered
BY Invariant, InvImplies, PTL

(* The Telegram id recorded for a reply is that of its own first part,     *)
(* also after attempts that were cut off between any two parts.            *)
THEOREM ConfirmedIsFirstPartHolds == Spec => []ConfirmedIsFirstPart
BY Invariant, InvImplies, PTL

(* No part is shown more often than the queue has attempts and stalls.     *)
THEOREM BoundedCopiesHolds == Spec => []BoundedCopies
BY Invariant, InvImplies, PTL

(* Whatever a reply or an acknowledgement quotes is an earlier message of  *)
(* a client of the same ticket, in any interleaving of ingest and agents.  *)
THEOREM QuotesOwnClientHolds == Spec => []QuotesOwnClient
BY Invariant, InvImplies, PTL

(* firstResponseAt is set exactly for the tickets an agent has answered,   *)
(* with any number of replies persisted at once from stale reads.          *)
THEOREM FirstResponseIffAnsweredHolds == Spec => []FirstResponseIffAnswered
BY Invariant, InvImplies, PTL
=============================================================================
