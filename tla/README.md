# Formal verification of crm-backendFF

TLA+ models of the support CRM's backend, model-checked with TLC, with theorems
checked by TLAPS. The repository's code is the reference: every definition that
models code is translated from the lines `PROJECT.json` ("map") names.

## The system

A NestJS application split over two kinds of processes that share PostgreSQL
(Prisma) and Redis (BullMQ queues, a pub/sub channel).

| Component | State it keeps | Operations | Interacts with |
|---|---|---|---|
| Telegram webhook and ingest queue (`telegram/`) | BullMQ jobs with `jobId` chat+message | `handleWebhook`, `enqueue` | Telegram redelivers until 200; the worker takes jobs |
| Client detection, excluded senders | `excluded_senders` rows by id or username | `classify` (with id backfill), create, update, remove, `markTicketSenderAsNotCustomer` | read by ingest, closes tickets |
| Chats, customers | `chats`, `customers` | find-or-create | ingest |
| Thread grouping | none of its own (queries) | `decide`: rules 1, 2, 3 | reads tickets, messages |
| Ingest orchestrator (worker) | none, many awaits | `process` | all of the above, replies, events |
| Tickets | `tickets`, `ticket_labels`, `ticket_events` | create, patch, assign, close, reopen, snooze, bulk | emits events |
| Routing | none (reads tickets, teams) | `decideAssignment` | ticket creation |
| Replies, outbound queue and processor | `messages`, BullMQ jobs, `first_response_at` | `recordOutgoingReply`, acknowledgement, `sendReply`, `confirmOutgoingSent` | Telegram |
| Domain events, bridge, gateway | two in-process emitters, one Redis channel | emit, publish, re-emit, push | every service emits; notifications and browsers listen |
| Notifications | `notifications`, `notification_prefs` | `notify`, dispatch, mark read, preferences | events, Telegram DMs |
| Analytics | `chat_stats_daily` | daily aggregation job, `/analytics/*` | reads tickets, messages |
| Auth, sessions, saved views, canned responses, organizations, teams, labels, uploads | single rows or a signed cookie | CRUD | little |

What is hard in it: nothing serialises the handlers. Every `await` is a point
where another worker, another request or Telegram runs; handlers read, await and
then write without conditions; jobs are retried from the start after failures
and crashes; the queues and Telegram deliver at least once; the two processes
both run the notification listener. `PROJECT.json` ("hazards") lists where each
of these bites, with the properties that would show it.

What makes each part correct (the properties are named after these):

- ingest: no message lost by a job that reports success, none in another chat's
  ticket, none of an agent or excluded sender in any ticket, none added to a
  closed ticket, one thread per active customer, one acknowledgement per ticket,
  every update settled;
- replies: success means delivered, quotes stay inside the ticket, copies are
  bounded, the first-response mark means answered, every reply settled;
- notifications: one message per notification, fresh notification for everyone
  concerned, browsers see events once and in order;
- tickets: the audit log tells what happened to a ticket and who did it; routing:
  turns rotate, and the least busy get the work;
- analytics: a stored day counts what happened on that day, the overview counts no
  day twice.

## Modules

| Module | Models | Notes |
|---|---|---|
| `ThreadGrouping` | the two repository queries and rules 1-3 as operators | pure; a query returns the set of rows `findFirst` may return |
| `Ingest` | Telegram, ingest queue, webhook, exclusions, the worker's `process` | extends `ThreadGrouping` |
| `Replies` | `recordOutgoingReply`, the acknowledgement, outbound queue and processor | one chat |
| `Notifications` | the two emitters, the bridge, the gateway, the listener, `notify` | |
| `Routing` | `decideAssignment` as an operator: the set of agents it may pick | pure |
| `Tickets` | routed creation, patches, assign, bulk, mark-not-customer, the audit log | extends `Routing` |
| `Analytics` | the nightly aggregation job, its schedule, the rows it stores, the statistics requests | |
| `Desk` | abstract: what ingest promises the desk, one step per promise | no queue, worker or table |
| `IngestDesk` | the refinement mapping from `Ingest` to `Desk`, and the property `KeepsPromises` | extends `Ingest` |
| `MC*` | model values, definitions and symmetry sets for TLC | |
| `IngestProofs` | type correctness of `Ingest` | TLAPS |
| `IngestSafety` | safety theorems of `Ingest` | TLAPS, uses `IngestProofs` |
| `IngestOutcomes` | what becomes of messages and tickets: five more theorems | TLAPS, uses `IngestSafety` |
| `IngestRefinement` | `Ingest` implements `Desk` | TLAPS, uses `IngestOutcomes`, `IngestDesk` |
| `RepliesProofs` | all the invariants of `Replies` | TLAPS |
| `NotificationsProofs` | all the invariants of `Notifications` | TLAPS |
| `TicketsProofs` | all the invariants of `Tickets` | TLAPS |
| `AnalyticsProofs` | all the invariants of `Analytics`; sums over finite sets | TLAPS |

### Ingest

State: `job` is the ingest queue, `wk[w]` a worker's running handler (its `pc` is
the next await, the other fields what it has read), `ticket`, `rowAt`,
`chatRows`, `customerRows`, `byId`, `byName` the tables, `sent`, `outgoing`,
`due` what Telegram knows, and `ack`, `ignored`, `muted`, `sealed` histories that
no action reads.

The handler is cut at its awaits: `Classify`, `FindChat`, `CreateChat`,
`FindCustomer`, `CreateCustomer`, `Rule1`, `Rule2`, then `Revive` or `Create`,
`Record`, `AckRow`, `AckEnqueue`, `Finish`. `StepFails` rejects any call before
it takes effect, `AckHiccup` an acknowledgement's call (swallowed by the code),
`Crash` kills the worker and leaves the job to BullMQ's stall check. Agents
patch, touch and mark tickets at any point, admins edit exclusions.

Abstracted: text, attachments, titles and names; message rows keep their
creation tick and Telegram id. A row's `createdAt` order is insertion order, with
ties inside a tick left to the database. `classify` reads the agent and the
exclusion in one step. The set of active agents (`Staff`) is constant, a
username belongs to one user. Routing's choice of an assignee does not matter
here and is left to `Routing`.

### Replies

`chat` is what the client sees in Telegram, `rows` the messages table, `req[r]` a
`recordOutgoingReply` call cut at its awaits (`Reply`, `ReadLast`, `Persist`,
`Enqueue`), `job[m]` the outbound job of a row, `out[s]` a run of
`OutboundProcessor.process` (`Take`, one `SendPart` per attachment, `Confirm`,
`Complete`). `SendRefused` loses the request, `SendLost` only the answer. The
ingest handler appears through what it writes to the same log: a client's message
is posted (`ClientWrites`), and later opens its ticket or is stored in it
(`CreateTicket`, `RecordFirst`, `RecordLater`), in any order. A history, `rejected`,
keeps the replies whose request failed between the transaction and the queue.

### Notifications

`events` are the domain events, each emitted in one process; `bridge` is the
Redis channel, `pushed` what the gateway sent to browsers, `task[k]` a `notify`
call of one process for one event and recipient, cut at its awaits (`Lookup`,
`Find`, `Write`, `Dispatch`, `SendDm`). Emitting is synchronous, so pushing,
publishing and starting the listeners is part of the step that emits. `Stop`
kills a process with its running handlers; while the API is down the channel
has no subscriber and what is published is gone.

### Tickets and routing

`ticket` holds the fields of a row that patches and routing touch, `log` is
`ticket_events` in order, `active` the active members of the team, `wk[w]` a
routing decision on its way (`FindMembers`, `Count`, `Create`), `req[r]`
an assign or bulk request cut at its awaits: `Read` (the previous assignee, the
labels) and `Write` (the transaction), once per ticket; `Fail` ends it anywhere.
`Patch` is one transaction and stands for close, reopen and snooze too; `Revive`
is the one ingest makes. `routed`, `since`, `byHand` and `unlogged` are histories.

`sort` and `groupBy` leave the order of equals to the database, so
`DecideAssignment` returns a set. `createdAt` is the position in the order of
creation. Only the fields status, assignee and labels of a patch are kept: the
others (priority, team, Jira key, snooze time) are set and logged the same way.
Which message opened a ticket, and thread grouping, belong to `Ingest`, which in
turn leaves the assignee out.

The strategy and the default assignee `FindMembers` finds are any the instance has:
tickets of many chats, whose settings admins change, are routed to one team.

Several workers route at once. The members, then their tickets, are read before
the insert, so a decision misses what other workers insert after it counted, and
two of them may pick the same agent. `RoundRobinRotates` and `LeastBusySpreads` are
about what a decision could see: `routed` keeps how many tickets there were when the
members were read (`seen`) and counted (`counted`). Stated for all tickets created
before it, both are false with two workers.

### Analytics

Time is counted in ticks, the first tick of a day ending at 01:00 UTC, when the
nightly job is due. The rest of the system appears through what it writes (`Open`,
`Incoming`, `Close`, `Solve`, `Reply`, with the times that move when a ticket is
closed or solved again or two replies race to be the first). `pending` are the
scheduled runs, `run` the job, which works out "yesterday" when it runs (`Take`,
`Resume`), reads the chats and then computes and stores one chat after the other
(`Query`, `Upsert`). `RunFails` ends it for good (one attempt), `Stop` kills the
worker and leaves the job to BullMQ, which runs it again once. A request of a
summary decides first what is today, then reads the stored days, then today's
live figures; the counts of an overview are separate actions.

The six queries of one chat and day are read in one step, because no property
relates two of them. Of the columns a summary adds up one is followed. `excused`
collects the days the code itself gives up: a failed run, one that stalled twice,
a run that started late enough to aggregate another day, a night without a worker.
Assumed, and part of the clock's guard: a worker that is up starts a due run within
the 23 hours left of the day and is done before the next day ends.

### The abstract desk

`Desk` says in ten actions what the pipeline is for: customers post, a ticket is
opened for somebody's message and is theirs in that chat for good, it collects
messages (once each, only of customers, of others only as replies into it, none
posted while it was closed), it is acknowledged once and after its first message.
`IngestDesk` maps the tables to it: `filed` and `answers` are the message rows,
`owner` and `closed` the tickets, `acked` the acknowledgements handed to the
outbound queue, `excluded` the active exclusions; `posted`, `muted`, `late` are
`Ingest`'s `sent` and histories. Jobs, workers, chats, customers and the clock have
no counterpart: retries, crashes and half-done handlers are stutters of the desk.
Being a safety property, it does not say that a message is filed at all: that is
`CompletedIsAccountedFor` and `EveryUpdateSettles`.

## Runs

`CHECK_DEADLOCK FALSE` is set everywhere: messages, replies, events and the
clock are bounded, so a run stops when they are used up and every job is
settled. Liveness properties cover what must not stop before that.

### Ingest (`MCIngest`)

| Run | Question | Instance |
|---|---|---|
| `IngestRetries` | types and retry bounds, no lost message, one acknowledgement | 2 messages, 2 tickets, redelivery, eviction, all faults |
| `IngestExclusion` | agents and excluded senders never ticketed; `Desk` implemented | an agent, an excludable customer, admin edits, failing calls |
| `IngestThreads` | rows stay in their chat; strangers only by reply; closed tickets get nothing new; `Desk` implemented | 2 chats with colliding message ids, 2 customers, any reply structure, close/revive/reopen |
| `IngestGrouping` | no split thread with one worker | 3 messages, clock passing the window |
| `IngestSettles` | every update settles | 2 workers, crashes, weak fairness |
| `IngestReopens` | violation: a ticket an agent has closed is reopened | see "Findings" |

Two messages of one customer are the least that can race, three the least that
can be reordered around a live thread; two attempts and one stall give every
combination of first and repeated execution; ticket rows suffice for every
message to open one.

### Replies (`MCReplies`)

| Run | Question | Instance |
|---|---|---|
| `RepliesDelivery` | success means delivered, id of a first part, bounded copies, no reply forgotten | a reply of up to 3 parts, 2 client messages, 2 attempts, a stall, 2 senders, all faults, weak fairness of the handlers |
| `RepliesQuotes` | quotes stay in the ticket, first response iff answered | 2 tickets, 2 client messages stored in any order, 2 concurrent requests, all modes, failing requests, lost answers |

Three parts are the least with a first, a middle and a last one, so a failure can
come before, between and after them; two attempts (the code has more) and a stall
are every way of repeating; two tickets and two requests are the least
that can be confused.

### Notifications (`MCNotifications`)

| Run | Question | Instance |
|---|---|---|
| `NotificationsDelivery` | at most one message per notification; whoever is concerned gets a fresh notification; browsers see each event once, in order | 2 events of six types in both processes, both listeners, the bridge, a clock tick, a restart, failing calls and publishes, weak fairness |

One agent suffices: notifications of different agents share no row. With one
agent an assignment is always by the assignee and notifies nobody, it only makes
the agent the recipient of the messages that follow.

### Tickets and routing (`MCTickets`)

| Run | Question | Instance |
|---|---|---|
| `TicketsDesk` | the log replays to the tickets, and names assignees the ticket had | 2 tickets, 3 events, one assign or bulk request whose reads race with patches, failures between its steps |
| `TicketsRouting` | turns rotate; the least busy get the work | 3 tickets of mixed strategies, 2 workers at a time, 2 agents, 2 changes of membership, closings |

One request in several steps and patches in one step give every order of reads
and writes of two requests: a second request's write is a patch. Three tickets are
the least with a turn to rotate after two decisions taken at once.

### Analytics (`MCAnalytics`)

| Run | Question | Instance |
|---|---|---|
| `AnalyticsDays` | stored days are final, closings bracketed, means of that day, no day missed, summaries and overviews count once | 2 chats, 2 tickets, 5 ticks (a third day begins), 3 writes, a request for the first two days, failing calls, a worker that dies at any time |

Two ticks a day put a write before and one after the job's hour; the third day is
when the second night is over. Three writes are a ticket, an event of it and the
same event again (a closing that moves), or two tickets and an event.

## Fairness

Only what the runtime guarantees is assumed: Telegram redelivers until it gets a
200, a free BullMQ worker takes a waiting job, an awaited call settles one way or
the other and Node then continues the handler, a connected subscriber receives.
Users, agents, admins, the clock, faults and crashes are never assumed to act,
nor not to act. Weak fairness suffices because a started handler stays enabled
until its call settles.

## Findings

`IngestReopens` is a violation run: its property states what a test says and its
counterexample is a behaviour of the code. The worker decides to revive a pending
ticket, an agent closes it, and the worker's unconditional update opens it again.

While modelling, TLC also showed the following; they are recorded here and as
hazards, and have no run of their own:

- two workers split one customer's thread (nothing serialises rule 2 and the
  insert), and pick the same agent when both route from the same counts, which is
  why the properties of routing are about what a decision could see;
- a message processed again after a crash and a close in between is stored a
  second time, in a new ticket: the unique index is per ticket;
- `isNewTicket` does not survive a retry, so such a ticket is never acknowledged;
- any update of a ticket counts as activity of the client in rule 2;
- an older message stored late becomes the ticket's last client message;
- the acknowledgement is newer than the client's first message and hides it from
  the automatic quote; two concurrent replies both quote; a retried reply in
  several parts repeats its first part and its quote;
- a reply stored but not queued is never sent (`ReplySettles` excepts just those);
- a second concurrent reply overwrites `first_response_at`;
- both processes handle a worker's event, and both may notify; two events within
  the window may create two notifications;
- the gateway has no handler for `notification.created`;
- mark-not-customer closes a ticket without an event in the audit log;
- closing or solving a ticket again moves `closed_at` and `resolved_at`, so the live
  tickets no longer add up to the stored days;
- one rejected query in the nightly job leaves the remaining chats without a row for
  that day, and a run that starts after midnight aggregates another day; neither is
  made up for later;
- between midnight and 01:00 yesterday is neither stored nor live, and a summary
  misses it; a summary of days to come counts today.

## Proofs

Everything below holds for every value of the constants that satisfies the
named assumptions in the module that declares them (`ConstantsAssumption`:
bounds are naturals and sets are of the right kind; `NoneAssumption`: `None` is
none of the values it is put beside).

`IngestProofs` proves `Spec => []TypeOK`. `TypeOK` is not inductive: that a
job's counters stay within `attempts` needs to know that a worker only fails a job it
holds, so `TypeInv` adds

- `JobInv`: a job that can still run has an attempt left, and only messages that
  were posted are due, muted or have a job;
- `WorkerInv`: a busy worker holds an active job no other worker holds, and its
  `pc` determines whether it holds a ticket, which then exists;
- `TicketInv`: a ticket being marked, or with a bot message in the chat, exists.

`TypeStep` has one step per action; the lemmas before it describe the shared
moves (a worker goes on, throws, releases its job; a ticket is patched).

`IngestSafety` proves `RowsStayInChat` and `StrangersOnlyByReply`. Both are
statements about stored rows, but what makes them true happened earlier, when
the handler decided. `PlaceInv` therefore states them of three kinds of places
at once: rows, bot messages, and handlers that hold a ticket and have not yet
stored. `Lasting` collects what no step undoes (a ticket's chat and customer, a
message's author and what it replies to); `Decision` says that a worker obtains
a ticket in only three ways - it keeps it, it attaches to one found by rule 1 or
rule 2, it creates one - and `NewRow`, `NewOutgoing`, `NewSent` that rows, bot
messages and messages appear in one way each. `PlaceStep` combines them.

`IngestOutcomes` proves the other safety invariants of the pipeline. None is
inductive, because each is decided at one await and comes true or false at a
later one; each has its own strengthening that carries the decision across:

- `ClosedGetsNothingNew` by `SealInv`: if `t` is closed since before `u` was sent,
  no handler of `u` holds `t`. `NewSeal` shows that only posting a message seals, and
  that the message is then new to everyone; `StaysClosed` that whatever makes `t`
  live again unseals it.
- `AckOnce` by `AckInv`: at most one handler owes a ticket its acknowledgement, and
  how far it has come fixes the counters. A retry never owes one, since it finds
  the ticket and attaches to it; a second ticket is another ticket.
- `NonCustomersNeverTicketed` by `MuteInv`: a handler past `classify` has a message
  that is not muted, and a muted message's sender is excluded at this moment.
- `CompletedIsAccountedFor` by `AccountInv`: a handler at an acknowledgement step or
  at its end has stored its message or holds no ticket because of who sent it. The
  duplicate-key path needs `PlaceInv`: the row that is already there carries only a
  per-chat id, and is this message's because the ticket is of this chat.

`IngestRefinement` proves `Spec => KeepsPromises`. The mapping of a step needs what
the handler knows of the message it holds, which is the conjunction of all the
invariants above (`DeskInv`): that a message being stored is of a customer and not
muted comes from `MuteInv`, that it is not late from `SealInv`, that its ticket is
of its chat and its customer's or replied into from `PlaceInv`, that the
acknowledgement is the first from `AckInv`. With them one lemma per kind of action
shows which action of `Desk` it is, or that the mapping is unchanged: `Record` is
`File`, `Create` is `Open`, closing is `Close`, a revive is `Reopen`, excluding is
`Exclude` unless another row excluded the user already, and so on.
`OwnerAssumption` (`None` is no record of a chat and a customer) is used here only.

`RepliesProofs` proves the five safety invariants of `Replies` with its types. They
are proved together, because each needs what another one keeps:

- `LogInv`: client rows are distinct client messages of their own ticket, and a
  ticket's anchor and last client message are such messages. Quotes
  (`QuotesInv`) are taken from these two, so they stay inside the ticket whatever
  has been stored since they were read.
- `OutInv`: what a sender has done of its job (`Progress`): every part before the
  one it is at has a copy in the chat, the id it keeps is a copy of the first part.
  `CompletedIsDelivered` and `ConfirmedIsFirstPart` are this, at the last step.
- `JobInv` and `ReqInv`: jobs are of replies, at most one per row, and a reply whose
  request has not reached the queue has none: `Enqueue` never meets a job.
- `CopiesInv`: copies of a part are at most the attempts made, the stalls, and one
  more if the attempt under way is past the part (`Underway`). A step that lets go
  of a job (`Release`) pays for that one, a step that shows a part (`Posted`) uses it.
- `RoomInv`: the model's bounds leave room for every row, by an injection of
  client rows into client messages (`RowsCount`): a row's number never leaves
  `RowIds`, on which jobs are defined.

`NotificationsProofs` proves `TypeOK`, `OneDmPerRow` and `PushedOnceInOrder`.
`BusInv` says that the bridge holds worker events in order, each later than those
already pushed, so delivery keeps the order and a lost channel only leaves gaps.
`TaskInv` says that only one task ever is about to send for a row, the one that
created it; a task that found the row ends without sending. Every other move of a
task is `Harmless`, also when a process stops with all its tasks.

`TicketsProofs` proves `TypeOK`, `AuditReplays` and `AuditPrevious`. `AuditReplays`
chooses the last event that sets a field; `Replays` says the same with that event as
a witness, so that appending an event is one lemma for all fields (`ReplaysField`).
A request writes what it read some steps ago: `ReqInv` keeps that the assignee it read
has, or had, the ticket (`Held`), which stays true whatever others write.

Its second part proves `RoundRobinRotates` and `LeastBusySpreads`. Both speak of
decisions already carried out; `RouteInv` states the same of every decision a worker
still has on its way, from the counting on (`Decisions`, `TurnRight`, `SpreadRight`).
`Settled` says what no step takes back from a decision: the tickets routed before it,
who was a member when the team was read, and, as long as nobody assigns or reopens by
hand, who has a ticket and that a closed one stays closed. What is true when the worker
counts (`RouteCount`) then lasts. `LeastBusySpreads` leaves out states in which an
agent has patched a ticket to any status but closed, solved or archived: a patch to
pending or on hold puts a ticket that was done among the open ones, just as a reopen.

`Requests` (in `Replies`) and `Tickets` (in `Tickets`, `Analytics`) are finite sets of
any size.

`NoSplitThread` (in `IngestOutcomes`) is proved under the two hypotheses its run has
too, and is false without either: one ingest worker, and agents who do not reopen
closed threads. `SplitInv` adds that a stored message is no newer than the last change
of its ticket. The handler compares the last change of the freshest thread with a clock
it read earlier, so every thread is idle when it decides on a new ticket (`AllIdle`).
Between this decision and the insert nobody else stores a message (`RowTimes`), and
no thread comes back to life (`BackToLife`): the two hypotheses.

`AnalyticsProofs` proves the seven invariants of `Analytics` from one, `AInv`:

- `FactInv`: a chat's row precedes its tickets, a ticket precedes its messages, and
  every closing, solving or first response a ticket has is among the samples.
- `StatsInv`: every row kept (`KeptRows`: those stored, and the one the job holds but
  has not stored yet) is of a past day and right (`RowRight`). `Grows` collects what any
  step may do to the facts: new tickets, times and messages are of now. What is said of
  a past day therefore lasts (`RowLasts`): its tickets and messages are the same, its
  last closings can only become fewer, its samples only more.
- `ScheduleInv`: a run is due or the next one is scheduled, no run is due before the
  01:00 of day 1 (so "yesterday" exists), and the loop has left no chat out.
- `NightInv`: each past day is handled, being handled, or waits for a run that is due
  or will be due before the day ends. `TickSchedule` is the step over midnight.
- `ReqInv`: what a request has summed lies between the tickets that were there at its
  start and those of its range. The sum of the rows read is the number of tickets of
  their days (`RowsSum`), because each row is final and the days are disjoint.

`RowRight` of a new row needs that a mean, rounded to a whole number, lies between
the smallest and the largest duration (`MeanIsRight`, `Averaged`), and `RowsSum` that
the classes of a partition add up (`SumOfClasses`). The module derives what it uses
of sums over finite sets. The library's induction theorems take a predicate as a
parameter, which the provers cannot instantiate; `InductionOn` and `SubsetInduction`
say the same of a set of numbers, and of a set of subsets, and are proved from the
well-foundedness of the natural numbers.

Every safety invariant a run checks is proved. Model-checked only: the liveness
properties (TLAPS does not do fairness or `ENABLED`) and the two pure modules.
`ThreadGrouping` and `Routing` have no behaviour of their own; what the proofs
need of them (whom `decide` may attach to, that routing picks an agent or nobody)
are lemmas.
## Not modelled

- Auth (stateless signed cookies checked on each request), saved views, canned
  responses, organizations, teams, labels CRUD: single-row operations.
- Uploads, health, configuration, DTO validation: I/O and wiring.
- Socket rooms and typing indicators, rate limiting and backoff delays of the
  queues: they delay or show, and change no other state.
- Chat settings (`updateSettings`), chat groups: single-row writes; routing takes any
  settings it may find.
- The ticket list, search and the chat directory: reads without state of their own.
- The seed script, which fills an empty database for development.
- `PrismaService`, BullMQ and Telegram are external: BullMQ is assumed to give a
  job to one worker at a time and to drop an `add` whose `jobId` exists;
  Telegram numbers messages per chat.

## Plan

1. Done: `ThreadGrouping`, `Ingest`, `Replies`, `Notifications`, `Routing`, `Tickets`,
   `Analytics`, the abstract `Desk` and its refinement, their runs, and the theorems
   above.
2. Worth adding: sockets and ticket rooms beside the gateway; a ticket list whose pages
   are read while tickets move between them.
