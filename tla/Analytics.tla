----------------------------- MODULE Analytics -----------------------------
(***************************************************************************)
(* Statistics per chat and day: the nightly aggregation job, the rows it   *)
(* stores, and the requests that add stored days to a live "today".        *)
(*                                                                         *)
(* Time is counted in ticks, several to a UTC day; the first tick of a day *)
(* ends at 01:00, when the job is due.  The six queries for a chat and day *)
(* run side by side; no property relates what two of them return, so one   *)
(* action reads them all, at any moment.  Durations are in ticks.          *)
(***************************************************************************)
EXTENDS Integers, FiniteSets, Functions

CONSTANTS
  Chats,
  Tickets,      \* ticket rows that can be created (bound)
  Requests,     \* analytics requests handled at a time
  TicksPerDay,
  MaxTick,      \* last tick of the clock (bound)
  Ranges,       \* ranges of days that are asked for, <<from, to>>
  MaxWrites,    \* writes of the rest of the system (bound)
  Faults,       \* "stop": the worker process, "query": a rejected call
  None

Columns == {"ticketsOpened", "ticketsClosed", "messagesIn", "messagesOut",
            "avgFirstResponseSec", "avgResolutionSec"}
Ticks == 0 .. MaxTick
Times == Ticks \union {None}

(* Rows of the tables: tickets, chat_stats_daily. *)
TicketRow == [chat : Chats, createdAt : Ticks, closedAt : Times, resolvedAt : Times,
              firstResponseAt : Times]
Row == [Columns -> Nat \union {None}]

ASSUME ConstantsAssumption ==
  /\ IsFiniteSet(Tickets)
  /\ TicksPerDay \in Nat /\ TicksPerDay >= 2
  /\ MaxTick \in Nat \ {0}
  /\ \A r \in Ranges : r[1] \in Nat /\ r[2] \in Nat /\ r[1] <= r[2]
  /\ MaxWrites \in Nat
  /\ Faults \subseteq {"stop", "query"}
ASSUME NoneAssumption ==
  /\ None \notin Chats
  /\ None \notin Nat
  /\ None \notin TicketRow
  /\ None \notin Row

VARIABLES
  now,
  born,      \* [Chats -> None or the day the chat's row appeared]
  ticket,    \* [Tickets -> None or a ticket row]
  messages,  \* [Tickets -> [{"in", "out"} -> [days -> rows of that day]]]
  writes,    \* how many writes there were
  up,        \* the worker process runs
  pending,   \* times of the scheduled runs that have not started
  run,       \* the aggregation job that is running or stalled
  stats,     \* chat_stats_daily: [Chats -> [days -> None or a row]]
  req,       \* [Requests -> a running request]
  excused,   \* history: days whose run failed, or whose night the worker missed
  samples    \* history: [Chats -> what was ever a closing, a first response, ...]

systemVars == <<born, ticket, messages, writes, samples>>
jobVars == <<up, pending, run, stats, excused>>
vars == <<now, systemVars, jobVars, req>>

-----------------------------------------------------------------------------
(* Calendar: startOfDay, addDays, as day numbers and ticks. *)

Day(tick) == tick \div TicksPerDay
Days == 0 .. Day(MaxTick)
StartOfDay(d) == d * TicksPerDay

(* Mutant: the end of the range is part of it. *)
InDayInclusive(at, d) == at # None /\ StartOfDay(d) <= at /\ at <= StartOfDay(d + 1)

(* { gte: start, lt: end } with start = startOfDay, end = addDays(start, 1) *)
InDay(at, d) == at # None /\ StartOfDay(d) <= at /\ at < StartOfDay(d + 1)

Existing == {t \in Tickets : ticket[t] # None}
TicketsOf(c) == {t \in Existing : ticket[t].chat = c}

-----------------------------------------------------------------------------
(* The queries of computeStatsForRange for one day. *)

(* Math.round of the mean of non-negative numbers; null for none. *)
Average(sum, n) == IF n = 0 THEN None ELSE (2 * sum + n) \div (2 * n)

(* The mean time from creation to `until`, a column of the ticket. *)
AverageOver(S, until) ==
  Average(SumFunction([t \in S |-> ticket[t][until] - ticket[t].createdAt]), Cardinality(S))

MessageCount(c, direction, d) ==
  SumFunction([t \in TicketsOf(c) |-> messages[t][direction][d]])

Computed(field, c, d) ==
  CASE field = "ticketsOpened" ->
         Cardinality({t \in TicketsOf(c) : InDay(ticket[t].createdAt, d)})
    [] field = "ticketsClosed" ->
         Cardinality({t \in TicketsOf(c) : InDay(ticket[t].closedAt, d)})
    [] field = "messagesIn" -> MessageCount(c, "in", d)
    [] field = "messagesOut" -> MessageCount(c, "out", d)
    [] field = "avgFirstResponseSec" ->
         AverageOver({t \in TicketsOf(c) : InDay(ticket[t].firstResponseAt, d)}, "firstResponseAt")
    [] field = "avgResolutionSec" ->
         AverageOver({t \in TicketsOf(c) : InDay(ticket[t].resolvedAt, d)}, "resolvedAt")

RangeStats(c, d) == [field \in Columns |-> Computed(field, c, d)]

IdleRun == [pc |-> "idle", day |-> 0, todo |-> {}, chat |-> None, got |-> None,
            stalled |-> FALSE]
IdleRequest == [pc |-> "idle", chat |-> None, from |-> 0, to |-> 0, today |-> 0,
                sum |-> 0, atStart |-> 0, whole |-> FALSE]

(* 01:00 of the first day whose 01:00 is still to come. *)
NextOneAM(tick) == StartOfDay(Day(tick) + (IF tick < StartOfDay(Day(tick)) + 1 THEN 0 ELSE 1)) + 1

(* The system is first booted after 01:00 of day 0. *)
Init ==
  /\ now = 1
  /\ born = [c \in Chats |-> None]
  /\ ticket = [t \in Tickets |-> None]
  /\ messages = [t \in Tickets |-> [direction \in {"in", "out"} |-> [d \in Days |-> 0]]]
  /\ writes = 0
  /\ up = TRUE
  /\ pending = {NextOneAM(1)}
  /\ run = IdleRun
  /\ stats = [c \in Chats |-> [d \in Days |-> None]]
  /\ req = [q \in Requests |-> IdleRequest]
  /\ excused = {}
  /\ samples = [c \in Chats |-> {}]

-----------------------------------------------------------------------------
(* What the rest of the system writes: tickets, messages, replies.         *)

Write == writes < MaxWrites /\ writes' = writes + 1

(* A time a ticket had, even if another one replaced it later. *)
Sampled(t, field) ==
  samples' = [samples EXCEPT ![ticket[t].chat] =
    @ \union {[field |-> field, ticket |-> t, at |-> now, took |-> now - ticket[t].createdAt]}]

(* Ingest, in the worker process: a new thread, its chat's row if need be. *)
Open(t, c) ==
  /\ up
  /\ Write
  /\ ticket[t] = None
  /\ ticket' = [ticket EXCEPT ![t] = [chat |-> c, createdAt |-> now, closedAt |-> None,
                                      resolvedAt |-> None, firstResponseAt |-> None]]
  /\ born' = IF born[c] = None THEN [born EXCEPT ![c] = Day(now)] ELSE born
  /\ UNCHANGED <<now, messages, samples, jobVars, req>>

Incoming(t) ==
  /\ up
  /\ Write
  /\ ticket[t] # None
  /\ messages' = [messages EXCEPT ![t]["in"][Day(now)] = @ + 1]
  /\ UNCHANGED <<now, born, ticket, samples, jobVars, req>>

(* PATCH to closed or solved, again after a reopen too: the time moves.    *)
(* `!data.resolvedAt` looks at the update being built, not at the ticket.  *)
Close(t) ==
  /\ Write
  /\ ticket[t] # None
  /\ ticket' = [ticket EXCEPT ![t].closedAt = now]
  /\ Sampled(t, "ticketsClosed")
  /\ UNCHANGED <<now, born, messages, jobVars, req>>

Solve(t) ==
  /\ Write
  /\ ticket[t] # None
  /\ ticket' = [ticket EXCEPT ![t].resolvedAt = now]
  /\ Sampled(t, "avgResolutionSec")
  /\ UNCHANGED <<now, born, messages, jobVars, req>>

(* recordOutgoingReply sets firstResponseAt if the ticket, read before the *)
(* transaction, had none: a late reply that has read it before the first   *)
(* one was committed (stale) overwrites the time.                          *)
Reply(t, stale) ==
  /\ Write
  /\ ticket[t] # None
  /\ messages' = [messages EXCEPT ![t]["out"][Day(now)] = @ + 1]
  /\ IF ticket[t].firstResponseAt = None \/ stale
     THEN /\ ticket' = [ticket EXCEPT ![t].firstResponseAt = now]
          /\ Sampled(t, "avgFirstResponseSec")
     ELSE UNCHANGED <<ticket, samples>>
  /\ UNCHANGED <<now, born, jobVars, req>>

-----------------------------------------------------------------------------
(* The scheduler and the worker's AnalyticsAggregateProcessor.             *)

(* Mutants: the job aggregates the day it runs on; the day before yesterday. *)
AggregatedDayToday(tick) == Day(tick)
AggregatedDayBefore(tick) == Day(tick) - 2

(* "yesterday", as the job sees it when it runs *)
AggregatedDay(tick) == Day(tick) - 1

Start(day, stalled) ==
  run' = [IdleRun EXCEPT !.pc = "chats", !.day = day, !.stalled = stalled]

(* A due run starts; BullMQ schedules the one after it.  One at a time.    *)
Take(p) ==
  /\ up
  /\ run.pc = "idle"
  /\ p \in pending /\ p <= now
  /\ Start(AggregatedDay(now), FALSE)
  /\ pending' = (pending \ {p}) \union {NextOneAM(now)}
  /\ UNCHANGED <<now, systemVars, up, stats, excused, req>>

(* Mutant: only the first chat is aggregated. *)
RestDropped(todo, c) == {}

Rest(todo, c) == todo \ {c}

(* The loop over the chats goes on with one of those left.                 *)
Proceed(todo) ==
  \/ todo = {} /\ run' = IdleRun
  \/ \E c \in todo : run' = [run EXCEPT !.pc = "query", !.todo = todo, !.chat = c, !.got = None]

ReadChats ==
  /\ run.pc = "chats"
  /\ Proceed({c \in Chats : born[c] # None})
  /\ UNCHANGED <<now, systemVars, up, pending, stats, excused, req>>

Query ==
  /\ run.pc = "query"
  /\ run' = [run EXCEPT !.pc = "store", !.got = RangeStats(run.chat, run.day)]
  /\ UNCHANGED <<now, systemVars, up, pending, stats, excused, req>>

Upsert ==
  /\ run.pc = "store"
  /\ stats' = [stats EXCEPT ![run.chat][run.day] = run.got]
  /\ Proceed(Rest(run.todo, run.chat))
  /\ UNCHANGED <<now, systemVars, up, pending, excused, req>>

(* A call rejects: the job has one attempt and fails.                      *)
RunFails ==
  /\ "query" \in Faults
  /\ run.pc \in {"chats", "query", "store"}
  /\ run' = IdleRun
  /\ excused' = excused \union {run.day}
  /\ UNCHANGED <<now, systemVars, up, pending, stats, req>>

(* The process dies.  BullMQ finds the job stalled and has it run again,   *)
(* from the beginning and with a new "yesterday", but only once.           *)
Stop ==
  /\ "stop" \in Faults
  /\ up
  /\ up' = FALSE
  /\ IF run.pc = "idle" THEN UNCHANGED <<run, excused>>
     ELSE IF run.stalled THEN run' = IdleRun /\ excused' = excused \union {run.day}
     ELSE /\ run' = [run EXCEPT !.pc = "stalled"]
          /\ excused' = IF run.day = AggregatedDay(now) THEN excused ELSE excused \union {run.day}
  /\ UNCHANGED <<now, systemVars, pending, stats, req>>

(* onModuleInit registers the schedule again: the next run, if not known.  *)
Boot ==
  /\ ~up
  /\ up' = TRUE
  /\ pending' = pending \union {NextOneAM(now)}
  /\ UNCHANGED <<now, systemVars, run, stats, excused, req>>

Resume ==
  /\ up
  /\ run.pc = "stalled"
  /\ Start(AggregatedDay(now), TRUE)
  /\ UNCHANGED <<now, systemVars, up, pending, stats, excused, req>>

(***************************************************************************)
(* The clock.  A worker that is up starts what is due before the day ends  *)
(* (it has 23 hours) and is done with it before the next day ends.  One    *)
(* that is down at the end of the day misses it.                           *)
(***************************************************************************)
Due == run.pc = "stalled" \/ (run.pc = "idle" /\ \E p \in pending : p <= now)

Tick ==
  /\ now < MaxTick
  /\ now' = now + 1
  /\ up /\ Day(now') # Day(now) => ~Due /\ (run.pc = "idle" \/ run.day = AggregatedDay(now))
  /\ excused' = IF Day(now') # Day(now) /\ Due THEN excused \union {AggregatedDay(now)} ELSE excused
  /\ UNCHANGED <<systemVars, up, pending, run, stats, req>>

-----------------------------------------------------------------------------
(* GET /analytics/chats, for one of the chats it lists.  All columns that  *)
(* count are summed alike: one of them, ticketsOpened, is followed.        *)

(* The tickets of a chat created on the days from .. to. *)
OpenedIn(c, from, to) ==
  Cardinality({t \in TicketsOf(c) : Day(ticket[t].createdAt) \in from .. to})

(* The chats are read, and what is today decided once and for all.         *)
BeginSummary(q, c, from, to) ==
  /\ req[q].pc = "idle"
  /\ born[c] # None
  /\ from <= Day(now)
  /\ req' = [req EXCEPT ![q] =
       [IdleRequest EXCEPT !.pc = "stored", !.chat = c, !.from = from, !.to = to,
                           !.today = Day(now), !.atStart = OpenedIn(c, from, to),
                           !.whole = \A d \in from .. to :
                             born[c] <= d /\ d < Day(now) => stats[c][d] # None]]
  /\ UNCHANGED <<now, systemVars, jobVars>>

(* Mutant: rows of today count as stored days, too. *)
StoredDaysAndToday(q) == req[q].from .. req[q].to

(* date: { gte: startOfDay(from), lt: todayStart, lte: to } *)
StoredDays(q) == {d \in req[q].from .. req[q].to : d < req[q].today}

WithToday(q) == req[q].to >= req[q].today

ReadStored(q) ==
  LET c == req[q].chat
      stored == {d \in StoredDays(q) : stats[c][d] # None}
  IN  /\ req[q].pc = "stored"
      /\ req' = [req EXCEPT ![q].pc = IF WithToday(q) THEN "live" ELSE "answered",
                            ![q].sum = SumFunction([d \in stored |-> stats[c][d].ticketsOpened])]
      /\ UNCHANGED <<now, systemVars, jobVars>>

QueryToday(q) ==
  /\ req[q].pc = "live"
  /\ req' = [req EXCEPT ![q].pc = "answered",
                        ![q].sum = @ + Computed("ticketsOpened", req[q].chat, req[q].today)]
  /\ UNCHANGED <<now, systemVars, jobVars>>

-----------------------------------------------------------------------------
(* GET /analytics/overview: tickets created, and the same by agent, side   *)
(* by side.  The controller has pushed `to` to the last instant of its day.*)

(* Mutant: the first instant of the day after. *)
NextDay(to) == StartOfDay(to + 1)

EndOfDay(to) == StartOfDay(to + 1) - 1

CreatedIn(from, to) ==
  Cardinality({t \in Existing : StartOfDay(from) <= ticket[t].createdAt
                                /\ ticket[t].createdAt <= EndOfDay(to)})

BeginOverview(q, from, to) ==
  /\ req[q].pc = "idle"
  /\ req' = [req EXCEPT ![q] =
       [pc |-> "counting", from |-> from, to |-> to, today |-> Day(now),
        ticketsCreated |-> None, byAgent |-> None]]
  /\ UNCHANGED <<now, systemVars, jobVars>>

CountFor(q, part) ==
  /\ req[q].pc = "counting"
  /\ req[q][part] = None
  /\ req' = [req EXCEPT ![q][part] = CreatedIn(req[q].from, req[q].to)]
  /\ UNCHANGED <<now, systemVars, jobVars>>

(* The response is sent; what it said is of no further interest.           *)
Respond(q) ==
  /\ \/ req[q].pc = "answered"
     \/ req[q].pc = "counting" /\ req[q].ticketsCreated # None /\ req[q].byAgent # None
  /\ req' = [req EXCEPT ![q] = IdleRequest]
  /\ UNCHANGED <<now, systemVars, jobVars>>

-----------------------------------------------------------------------------
System ==
  \/ \E t \in Tickets :
       \/ \E c \in Chats : Open(t, c)
       \/ Incoming(t)
       \/ Close(t)
       \/ Solve(t)
       \/ \E stale \in BOOLEAN : Reply(t, stale)

JobStep ==
  \/ \E p \in pending : Take(p)
  \/ ReadChats
  \/ Query
  \/ Upsert
  \/ Resume

Worker == JobStep \/ RunFails \/ Stop \/ Boot

Request ==
  \E q \in Requests :
    \/ \E r \in Ranges :
         \/ \E c \in Chats : BeginSummary(q, c, r[1], r[2])
         \/ BeginOverview(q, r[1], r[2])
    \/ ReadStored(q)
    \/ QueryToday(q)
    \/ \E part \in {"ticketsCreated", "byAgent"} : CountFor(q, part)
    \/ Respond(q)

Next == Tick \/ System \/ Worker \/ Request

Spec == Init /\ [][Next]_vars

-----------------------------------------------------------------------------
(* Properties. *)

Run == [pc : {"idle", "chats", "query", "store", "stalled"}, day : Days, todo : SUBSET Chats,
        chat : Chats \union {None}, got : Row \union {None}, stalled : BOOLEAN]
Summary == [pc : {"idle", "stored", "live", "answered"}, chat : Chats \union {None},
            from : Nat, to : Nat, today : Days, sum : Nat, atStart : Nat, whole : BOOLEAN]
Overview == [pc : {"counting"}, from : Nat, to : Nat, today : Days,
             ticketsCreated : Nat \union {None}, byAgent : Nat \union {None}]
Sample == [field : Columns, ticket : Tickets, at : Ticks, took : Nat]

(* Every variable has its type, and a run that asks for a chat has a past  *)
(* day and a chat that is still to do.                                     *)
TypeOK ==
  /\ now \in Ticks
  /\ born \in [Chats -> Days \union {None}]
  /\ ticket \in [Tickets -> TicketRow \union {None}]
  /\ messages \in [Tickets -> [{"in", "out"} -> [Days -> 0 .. MaxWrites]]]
  /\ writes \in 0 .. MaxWrites
  /\ up \in BOOLEAN
  /\ pending \subseteq Nat
  /\ run \in Run
  /\ run.pc \in {"query", "store"} => run.chat \in run.todo
  /\ run.pc = "store" => run.got \in Row
  /\ stats \in [Chats -> [Days -> Row \union {None}]]
  /\ req \in [Requests -> Summary \union Overview]
  /\ excused \subseteq Days
  /\ samples \in [Chats -> SUBSET Sample]

StoredFor == {p \in Chats \X Days : stats[p[1]][p[2]] # None}
Stored(p, f) == stats[p[1]][p[2]][f]

(* What the table says of a day never has to be corrected: a stored row    *)
(* gives exactly the tickets opened and the messages of that day, whenever *)
(* the job ran, however often, and whatever was written meanwhile.         *)
StoredDaysAreFinal ==
  \A p \in StoredFor :
    /\ Stored(p, "ticketsOpened") = OpenedIn(p[1], p[2], p[2])
    /\ Stored(p, "messagesIn") = MessageCount(p[1], "in", p[2])
    /\ Stored(p, "messagesOut") = MessageCount(p[1], "out", p[2])

SamplesOf(p, field) == {x \in samples[p[1]] : x.field = field /\ Day(x.at) = p[2]}

(* Closings are not final: closing a ticket again moves closedAt.  Still,  *)
(* a stored row counts no ticket that was not closed that day, and every   *)
(* ticket whose closing of that day is the last one.                       *)
ClosedIsBracketed ==
  \A p \in StoredFor :
    /\ Computed("ticketsClosed", p[1], p[2]) <= Stored(p, "ticketsClosed")
    /\ Stored(p, "ticketsClosed") <= Cardinality({x.ticket : x \in SamplesOf(p, "ticketsClosed")})

(* A stored mean, rounded, lies within the durations there were on that    *)
(* day, and is missing only if no ticket has a time of that day.           *)
MeansAreOfThatDay ==
  \A f \in {"avgFirstResponseSec", "avgResolutionSec"} : \A p \in StoredFor :
    LET took == {x.took : x \in SamplesOf(p, f)}
    IN  IF Stored(p, f) = None THEN Computed(f, p[1], p[2]) = None
        ELSE (\E n \in took : n <= Stored(p, f)) /\ (\E n \in took : Stored(p, f) <= n)

(* No day is missed: once the day after it has ended too, every chat there *)
(* was has its row, unless the run for it failed or stalled twice, or the  *)
(* worker was down through the night.  A run may still be on its way.      *)
NoDayMissed ==
  \A c \in Chats, d \in Days :
    /\ d + 2 <= Day(now)
    /\ born[c] # None /\ born[c] <= d
    /\ d \notin excused
    => stats[c][d] # None \/ (run.pc # "idle" /\ run.day = d)

(* The summary of a range counts every ticket of it once.  It never counts *)
(* one twice, even if midnight and the job's run fall between its queries; *)
(* and none that was there at the start is missing, if the past days that  *)
(* are asked for had been stored.                                          *)
SummaryCountsOnce ==
  \A q \in Requests :
    req[q].pc = "answered" =>
      /\ req[q].sum <= OpenedIn(req[q].chat, req[q].from, req[q].to)
      /\ req[q].whole => req[q].sum >= req[q].atStart

(* The parts of an overview of past days agree, though they are counted at *)
(* different moments.                                                      *)
OverviewAgrees ==
  \A q \in Requests :
    /\ req[q].pc = "counting" /\ req[q].to < req[q].today
    /\ req[q].ticketsCreated # None /\ req[q].byAgent # None
    => req[q].ticketsCreated = req[q].byAgent
=============================================================================
