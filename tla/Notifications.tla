--------------------------- MODULE Notifications ---------------------------
(***************************************************************************)
(* Domain events, their way to the agents' browsers, and notifications.    *)
(*                                                                         *)
(* The API process and the worker process each have an in-process event    *)
(* emitter.  WorkerEventPublisher copies the worker's events to a Redis    *)
(* channel and ApiEventSubscriber emits them again in the API process,     *)
(* where TicketsGateway pushes them to the browsers.  The                  *)
(* NotificationEventsListener is registered in both processes; each of its *)
(* handlers runs NotificationsService.notify, one task per event and       *)
(* recipient, one action per awaited call.                                 *)
(*                                                                         *)
(* emit() is synchronous: an event is pushed, published and turned into    *)
(* tasks in the step that emits it.  Redis pub/sub keeps nothing: what is  *)
(* published while the API is down is gone.                                *)
(***************************************************************************)
EXTENDS Integers, Sequences, FiniteSets

CONSTANTS
  Agents,
  Tickets,
  Types,       \* the domain events that happen in this instance
  PrefTypes,   \* notification types whose preference agents change (bound)
  Window,      \* DEDUP_WINDOW_MINUTES, in clock ticks
  MaxEvents,   \* domain events (bound)
  MaxMentions, \* agents mentioned in a comment (bound)
  MaxTime,     \* last clock tick (bound)
  MaxRestarts, \* restarts of a process (bound)
  Faults,      \* "task", "dm", "publish"
  None

(* Where TicketsService, MessagesService and CommentsService emit. *)
WorkerTypes == {"ticket.created", "message.received", "message.sent", "ticket.updated"}
ApiTypes == {"ticket.assigned", "comment.created", "message.sent", "ticket.updated"}

(* The types of notifications. *)
RowTypes == {"message.received", "ticket.assigned", "comment.mention"}

ASSUME ConstantsAssumption ==
  /\ Types \subseteq WorkerTypes \union ApiTypes
  /\ PrefTypes \subseteq RowTypes
  /\ Window \in Nat
  /\ MaxEvents \in Nat
  /\ MaxMentions \in Nat \ {0}
  /\ MaxTime \in Nat
  /\ MaxRestarts \in Nat
  /\ Faults \subseteq {"task", "dm", "publish"}
ASSUME NoneAssumption == None \notin Agents /\ None \notin Tickets /\ None \notin Nat

Procs == {"api", "worker"}
EventIds == 1 .. MaxEvents
Slots == 1 .. MaxMentions
Keys == EventIds \X Procs \X Slots   \* a task: event, process, recipient's place

VARIABLES
  now,      \* wall clock
  events,   \* the domain events so far
  assignee, \* [Tickets -> None or an agent]
  apiUp,    \* the API process runs and is subscribed to the channel
  restarts,
  bridge,   \* published and not yet received by the API, in order
  pushed,   \* what the gateway sent to the browsers, in order
  task,     \* [Keys -> state of a notify task]
  rows,     \* the notifications table
  optedOut, \* notification_prefs with enabled = false, channel telegram
  dms       \* history: direct messages sent, with the task that sent them

busVars == <<apiUp, restarts, bridge, pushed>>
vars == <<now, events, assignee, busVars, task, rows, optedOut, dms>>

-----------------------------------------------------------------------------
NoTask == [pc |-> "none", agent |-> None, row |-> 0]
Begin(pc, agent) == [NoTask EXCEPT !.pc = pc, !.agent = agent]

Init ==
  /\ now = 0
  /\ events = <<>>
  /\ assignee = [t \in Tickets |-> None]
  /\ apiUp = TRUE
  /\ restarts = 0
  /\ bridge = <<>>
  /\ pushed = <<>>
  /\ task = [k \in Keys |-> NoTask]
  /\ rows = <<>>
  /\ optedOut = {}
  /\ dms = {}

Tick ==
  /\ now < MaxTime
  /\ now' = now + 1
  /\ UNCHANGED <<events, assignee, busVars, task, rows, optedOut, dms>>

(* What an emitter carries: a domain event or the news of a notification.  *)
EventMsg(e) == [kind |-> "event", id |-> e]
NoticeMsg(n) == [kind |-> "notification.created", id |-> n]

(* The gateway has an @OnEvent for every domain event, none for            *)
(* notification.created.                                                   *)
Handled(msg) == msg.kind = "event"

(* A message is emitted in the API process: the gateway hears it. *)
Heard(msg) == pushed' = IF Handled(msg) THEN Append(pushed, msg) ELSE pushed

(* Mutant: the API publishes its own events as well. *)
PublishedByBoth(proc, msg) ==
  \/ /\ apiUp
     /\ bridge' = Append(bridge, msg)
  \/ /\ ~apiUp \/ "publish" \in Faults
     /\ bridge' = bridge

(* Only the worker publishes; with nobody subscribed, or when the publish  *)
(* fails (which is logged), the message is gone.                           *)
Published(proc, msg) ==
  \/ /\ proc = "worker" /\ apiUp
     /\ bridge' = Append(bridge, msg)
  \/ /\ proc = "api" \/ ~apiUp \/ "publish" \in Faults
     /\ bridge' = bridge

Emitted(proc, msg) ==
  /\ Published(proc, msg)
  /\ IF proc = "api" THEN Heard(msg) ELSE UNCHANGED pushed
  /\ UNCHANGED <<apiUp, restarts>>

(* The listener's handlers start: who is to be notified of event e? *)
Started(proc, e, ev) ==
  [k \in Keys |->
     IF k[1] # e \/ k[2] # proc THEN task[k]
     ELSE IF ev.type = "message.received" /\ k[3] = 1 THEN Begin("lookup", None)
     ELSE IF k[3] <= Len(ev.to) THEN Begin("find", ev.to[k[3]])
     ELSE task[k]]

Happens(proc, type, t, to) ==
  LET ev == [proc |-> proc, type |-> type, ticket |-> t, to |-> to, at |-> now]
      e == Len(events) + 1
  IN  /\ type \in Types
      /\ e <= MaxEvents
      /\ events' = Append(events, ev)
      /\ Emitted(proc, EventMsg(e))
      /\ task' = Started(proc, e, ev)
      /\ UNCHANGED <<now, rows, optedOut, dms>>

-----------------------------------------------------------------------------
(* The events and where they happen. *)

TicketCreated(t) ==
  /\ ~\E e \in DOMAIN events : events[e].ticket = t
  /\ \E a \in Agents \union {None} : assignee' = [assignee EXCEPT ![t] = a]
  /\ Happens("worker", "ticket.created", t, <<>>)

MessageReceived(t) ==
  /\ Happens("worker", "message.received", t, <<>>)
  /\ UNCHANGED assignee

(* assign: the assignee is told unless they assigned themselves. *)
Assign(t, a, by) ==
  /\ apiUp
  /\ assignee' = [assignee EXCEPT ![t] = a]
  /\ Happens("api", "ticket.assigned", t, IF a = by THEN <<>> ELSE <<a>>)

Comment(t, mentions) ==
  /\ apiUp
  /\ Happens("api", "comment.created", t, mentions)
  /\ UNCHANGED assignee

(* A message to the client (an agent's reply, or the bot's acknowledgement *)
(* in the worker): nobody is notified.                                     *)
MessageSent(proc, t) ==
  /\ proc = "api" => apiUp
  /\ Happens(proc, "message.sent", t, <<>>)
  /\ UNCHANGED assignee

(* patch: an agent's, which may also change the assignee, or the revive of *)
(* an incoming message.  Unlike assign it notifies nobody.                 *)
TicketUpdated(proc, t) ==
  /\ proc = "api" => apiUp
  /\ Happens(proc, "ticket.updated", t, <<>>)
  /\ \/ UNCHANGED assignee
     \/ /\ proc = "api"
        /\ \E a \in Agents \union {None} : assignee' = [assignee EXCEPT ![t] = a]

-----------------------------------------------------------------------------
(* The bridge. *)

(* One connection, one channel: messages arrive in publication order. *)
NextMessage(b) == [msg |-> Head(b), left |-> Tail(b)]

(* ApiEventSubscriber emits the envelope's event in the API process, whose *)
(* gateway and notification listener take it for one of their own.         *)
Receive ==
  LET msg == NextMessage(bridge).msg
  IN  /\ apiUp
      /\ bridge # <<>>
      /\ bridge' = NextMessage(bridge).left
      /\ Heard(msg)
      /\ task' = IF msg.kind = "event" THEN Started("api", msg.id, events[msg.id]) ELSE task
      /\ UNCHANGED <<now, events, assignee, apiUp, restarts, rows, optedOut, dms>>

(* A process stops: its running handlers are gone, and the API's           *)
(* subscription with what was on its way.                                  *)
Stop(proc) ==
  /\ restarts < MaxRestarts
  /\ proc = "api" => apiUp
  /\ restarts' = restarts + 1
  /\ task' = [k \in Keys |-> IF k[2] = proc THEN NoTask ELSE task[k]]
  /\ apiUp' = (apiUp /\ proc # "api")
  /\ bridge' = IF proc = "api" THEN <<>> ELSE bridge
  /\ UNCHANGED <<now, events, assignee, pushed, rows, optedOut, dms>>

ApiStarts ==
  /\ ~apiUp
  /\ apiUp' = TRUE
  /\ UNCHANGED <<now, events, assignee, restarts, bridge, pushed, task,
                 rows, optedOut, dms>>

-----------------------------------------------------------------------------
(* notify, one awaited call at a time. *)

Event(k) == events[k[1]]
TypeOf(k) == IF Event(k).type = "comment.created" THEN "comment.mention" ELSE Event(k).type

Goto(k, pc) == task' = [task EXCEPT ![k].pc = pc]

(* Mutant: the early return for a ticket without assignee is missing. *)
NotifyUnchecked(a) == Begin("find", a)

NotifyAssignee(a) == IF a = None THEN NoTask ELSE Begin("find", a)

(* onMessageReceived: whoever is the assignee by now. *)
Lookup(k) ==
  /\ task[k].pc = "lookup"
  /\ task' = [task EXCEPT ![k] = NotifyAssignee(assignee[Event(k).ticket])]
  /\ UNCHANGED <<now, events, assignee, busVars, rows, optedOut, dms>>

(* Rows the window still covers: createdAt >= now - window. *)
Recent(k) ==
  {n \in DOMAIN rows : /\ rows[n].agent = task[k].agent
                       /\ rows[n].type = TypeOf(k)
                       /\ rows[n].ticket = Event(k).ticket
                       /\ rows[n].createdAt >= now - Window}

(* findFirst, newest createdAt first (0: none). *)
Find(k) ==
  LET newest == {n \in Recent(k) : \A m \in Recent(k) : rows[m].createdAt <= rows[n].createdAt}
  IN  /\ task[k].pc = "find"
      /\ \E n \in IF newest = {} THEN {0} ELSE newest :
           task' = [task EXCEPT ![k].pc = "write", ![k].row = n]
      /\ UNCHANGED <<now, events, assignee, busVars, rows, optedOut, dms>>

NewRow(k) ==
  [agent |-> task[k].agent, type |-> TypeOf(k), ticket |-> Event(k).ticket,
   createdAt |-> now, isRead |-> FALSE]

(* Mutants: the refresh leaves createdAt alone; every notification is sent. *)
RefreshedUnmoved(row) == [row EXCEPT !.isRead = FALSE]
AlwaysDispatched(found) == "dispatch"

(* Refresh: new payload, unread again, createdAt moved. *)
Refreshed(row) == [row EXCEPT !.isRead = FALSE, !.createdAt = now]

(* External channels only on first creation. *)
AfterWrite(found) == IF found = 0 THEN "dispatch" ELSE "done"

(* The row is updated or created and notification.created emitted. *)
Write(k) ==
  LET found == task[k].row
      n == IF found = 0 THEN Len(rows) + 1 ELSE found
  IN  /\ task[k].pc = "write"
      /\ rows' = IF found = 0 THEN Append(rows, NewRow(k))
                 ELSE [rows EXCEPT ![n] = Refreshed(@)]
      /\ Emitted(k[2], NoticeMsg(n))
      /\ task' = [task EXCEPT ![k].pc = AfterWrite(found), ![k].row = n]
      /\ UNCHANGED <<now, events, assignee, optedOut, dms>>

(* dispatchExternalChannels: the preference, enabled by default. *)
Dispatch(k) ==
  /\ task[k].pc = "dispatch"
  /\ Goto(k, IF <<task[k].agent, TypeOf(k)>> \in optedOut THEN "done" ELSE "dm")
  /\ UNCHANGED <<now, events, assignee, busVars, rows, optedOut, dms>>

(* sendDirectMessage; a failure is logged and swallowed. *)
SendDm(k) ==
  /\ task[k].pc = "dm"
  /\ \/ dms' = dms \union {[task |-> k, agent |-> task[k].agent, row |-> task[k].row]}
     \/ "dm" \in Faults /\ UNCHANGED dms
  /\ Goto(k, "done")
  /\ UNCHANGED <<now, events, assignee, busVars, rows, optedOut>>

(* A database call of the handler rejects. *)
TaskFails(k) ==
  /\ "task" \in Faults
  /\ task[k].pc \in {"lookup", "find", "write", "dispatch"}
  /\ Goto(k, "failed")
  /\ UNCHANGED <<now, events, assignee, busVars, rows, optedOut, dms>>

-----------------------------------------------------------------------------
(* The agents' own requests. *)

MarkRead(a, ns) ==
  /\ apiUp
  /\ rows' = [n \in DOMAIN rows |->
                IF n \in ns /\ rows[n].agent = a THEN [rows[n] EXCEPT !.isRead = TRUE]
                ELSE rows[n]]
  /\ UNCHANGED <<now, events, assignee, busVars, task, optedOut, dms>>

UpdatePref(a, type, enabled) ==
  /\ apiUp
  /\ optedOut' = IF enabled THEN optedOut \ {<<a, type>>} ELSE optedOut \union {<<a, type>>}
  /\ UNCHANGED <<now, events, assignee, busVars, task, rows, dms>>

-----------------------------------------------------------------------------
Mentions == UNION {[1 .. n -> Agents] : n \in Slots}

Happening ==
  \E t \in Tickets :
    \/ TicketCreated(t)
    \/ MessageReceived(t)
    \/ \E a, by \in Agents : Assign(t, a, by)
    \/ \E mentions \in Mentions : Comment(t, mentions)
    \/ \E proc \in Procs : MessageSent(proc, t) \/ TicketUpdated(proc, t)

Request ==
  \E a \in Agents :
    \/ MarkRead(a, DOMAIN rows)
    \/ \E n \in DOMAIN rows : MarkRead(a, {n})
    \/ \E type \in PrefTypes, enabled \in BOOLEAN : UpdatePref(a, type, enabled)

TaskStep(k) == Lookup(k) \/ Find(k) \/ Write(k) \/ Dispatch(k) \/ SendDm(k) \/ TaskFails(k)

Next ==
  \/ Tick
  \/ Happening
  \/ Receive
  \/ \E proc \in Procs : Stop(proc)
  \/ ApiStarts
  \/ \E k \in Keys : TaskStep(k)
  \/ Request

Spec == Init /\ [][Next]_vars

(* Handlers that run go on, and the subscriber keeps receiving. *)
Fairness == WF_vars(Receive) /\ \A k \in Keys : WF_vars(TaskStep(k))

FairSpec == Spec /\ Fairness

-----------------------------------------------------------------------------
(* Properties. *)

(* Every variable has its type; a task beyond the lookup has a recipient,  *)
(* and one beyond the write has its row.                                   *)
TypeOK ==
  /\ now \in 0 .. MaxTime
  /\ events \in Seq([proc : Procs, type : Types, ticket : Tickets, to : Seq(Agents), at : 0 .. MaxTime])
  /\ Len(events) <= MaxEvents
  /\ assignee \in [Tickets -> Agents \union {None}]
  /\ apiUp \in BOOLEAN
  /\ restarts \in 0 .. MaxRestarts
  /\ bridge \in Seq([kind : {"event", "notification.created"}, id : Nat])
  /\ pushed \in Seq([kind : {"event", "notification.created"}, id : Nat])
  /\ task \in [Keys -> [pc : {"none", "lookup", "find", "write", "dispatch", "dm", "done", "failed"},
                        agent : Agents \union {None}, row : Nat]]
  /\ rows \in Seq([agent : Agents, type : RowTypes, ticket : Tickets,
                   createdAt : 0 .. MaxTime, isRead : BOOLEAN])
  /\ optedOut \subseteq Agents \X RowTypes
  /\ \A k \in Keys : /\ task[k].pc \in {"find", "write", "dispatch", "dm"} =>
                          task[k].agent # None
                     /\ task[k].pc \in {"dispatch", "dm"} => task[k].row \in DOMAIN rows

(* "a refreshed dedup window shouldn't re-send a DM the agent already      *)
(* saw": a notification causes at most one direct message, to its agent,   *)
(* however many events, processes and restarts refresh it.                 *)
OneDmPerRow ==
  \A d, f \in dms : /\ rows[d.row].agent = d.agent
                    /\ d.row = f.row => d = f

(* Browsers see an event once, and the events of the worker in their       *)
(* order, with both emitters and the bridge in play and outages between.   *)
PushedOnceInOrder ==
  \A i, j \in DOMAIN pushed : i < j =>
    /\ pushed[i] # pushed[j]
    /\ events[pushed[i].id].proc = events[pushed[j].id].proc => pushed[i].id < pushed[j].id

NotifiedFresh(k) ==
  \E n \in DOMAIN rows : /\ rows[n].agent = task[k].agent
                         /\ rows[n].type = TypeOf(k)
                         /\ rows[n].ticket = Event(k).ticket
                         /\ rows[n].createdAt >= Event(k).at

(* Whoever is to be notified of an event eventually has a notification no  *)
(* older than it, created or moved forward, whichever tasks race for it;   *)
(* only a failed call or the death of the process prevents it.             *)
EventNotifies ==
  \A k \in Keys :
    task[k].pc = "find" ~> task[k].pc \in {"none", "failed"} \/ NotifiedFresh(k)
=============================================================================
