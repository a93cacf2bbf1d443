------------------------ MODULE NotificationsProofs ------------------------
(* Machine-checked proofs about Notifications, for every value of its      *)
(* constants.                                                              *)
EXTENDS Notifications, TLAPS

USE ConstantsAssumption, NoneAssumption

MsgType == [kind : {"event", "notification.created"}, id : Nat]
EventType == [proc : Procs, type : Types, ticket : Tickets, to : Seq(Agents), at : 0 .. MaxTime]
TaskType == [pc : {"none", "lookup", "find", "write", "dispatch", "dm", "done", "failed"},
             agent : Agents \union {None}, row : Nat]
RowType == [agent : Agents, type : RowTypes, ticket : Tickets, createdAt : 0 .. MaxTime,
            isRead : BOOLEAN]

-----------------------------------------------------------------------------
(* Appending, once for all the sequences of the model. *)

LEMMA Appended ==
  ASSUME NEW S, NEW s \in Seq(S), NEW x \in S
  PROVE  /\ Append(s, x) \in Seq(S)
         /\ Len(Append(s, x)) = Len(s) + 1
         /\ DOMAIN Append(s, x) = 1 .. Len(s) + 1
         /\ DOMAIN s = 1 .. Len(s) /\ Len(s) \in Nat
         /\ \A i \in DOMAIN s : Append(s, x)[i] = s[i]
         /\ Append(s, x)[Len(s) + 1] = x
OBVIOUS

-----------------------------------------------------------------------------
(* The order of what browsers see.                                         *)

IsEvent(msg) == msg.kind = "event" /\ msg.id \in DOMAIN events

(* The bridge holds worker events in order, none of which the gateway has  *)
(* pushed yet or pushed a later one of.                                    *)
BusInv ==
  /\ events \in Seq(EventType)
  /\ pushed \in Seq(MsgType)
  /\ bridge \in Seq(MsgType)
  /\ \A i \in DOMAIN pushed : IsEvent(pushed[i])
  /\ \A i \in DOMAIN bridge : Handled(bridge[i]) =>
        IsEvent(bridge[i]) /\ events[bridge[i].id].proc = "worker"
  /\ \A i, j \in DOMAIN bridge :
        i < j /\ Handled(bridge[i]) /\ Handled(bridge[j]) => bridge[i].id < bridge[j].id
  /\ \A i \in DOMAIN pushed, j \in DOMAIN bridge :
        Handled(bridge[j]) /\ events[pushed[i].id].proc = "worker" => pushed[i].id < bridge[j].id
  /\ PushedOnceInOrder

LEMMA BusInit == Init => BusInv
BY DEF Init, BusInv, PushedOnceInOrder

(* Nothing on the bus changes but that the bridge may lose what it holds. *)
LEMMA BusIdle ==
  ASSUME BusInv, UNCHANGED <<events, pushed>>, bridge' = bridge \/ bridge' = <<>>
  PROVE  BusInv'
<1>1. CASE bridge' = bridge
  BY <1>1 DEF BusInv, PushedOnceInOrder, IsEvent, Handled
<1>2. CASE bridge' = <<>>
  <2>1. bridge' \in Seq(MsgType) /\ DOMAIN bridge' = {}
    BY <1>2
  <2> QED
    BY <2>1 DEF BusInv, PushedOnceInOrder, IsEvent, Handled
<1> QED
  BY <1>1, <1>2

(* The bridge delivers its first message. *)
LEMMA BusReceives ==
  ASSUME BusInv, Receive
  PROVE  BusInv'
<1> DEFINE msg == Head(bridge)
<1>1. /\ bridge # <<>> /\ bridge \in Seq(MsgType) /\ pushed \in Seq(MsgType)
      /\ bridge' = Tail(bridge) /\ events' = events
      /\ pushed' = IF Handled(msg) THEN Append(pushed, msg) ELSE pushed
  BY DEF Receive, NextMessage, Heard, BusInv
<1>2. /\ msg = bridge[1] /\ msg \in MsgType /\ 1 \in DOMAIN bridge
      /\ bridge' \in Seq(MsgType)
      /\ \A i \in DOMAIN bridge' : i + 1 \in DOMAIN bridge /\ bridge'[i] = bridge[i + 1]
                                   /\ 1 < i + 1 /\ i \in Nat
  BY <1>1
<1> HIDE DEF msg
<1>3. CASE ~Handled(msg)
  <2>1. pushed' = pushed
    BY <1>1, <1>3
  <2> QED
    BY <1>1, <1>2, <2>1 DEF BusInv, PushedOnceInOrder, IsEvent, Handled
<1>4. CASE Handled(msg)
  <2>1. /\ pushed' \in Seq(MsgType)
        /\ DOMAIN pushed' = 1 .. Len(pushed) + 1
        /\ DOMAIN pushed = 1 .. Len(pushed) /\ Len(pushed) \in Nat
        /\ \A i \in DOMAIN pushed : pushed'[i] = pushed[i]
        /\ pushed'[Len(pushed) + 1] = msg
    BY <1>1, <1>2, <1>4, Appended
  <2>2. IsEvent(msg) /\ events[msg.id].proc = "worker"
    BY <1>2, <1>4 DEF BusInv
  <2>3. \A i \in DOMAIN pushed : events[pushed[i].id].proc = "worker" => pushed[i].id < msg.id
    BY <1>2, <1>4 DEF BusInv
  <2>4. \A j \in DOMAIN bridge' : Handled(bridge'[j]) => msg.id < bridge'[j].id
    BY <1>2, <1>4 DEF BusInv
  <2>5. \A i \in DOMAIN pushed' :
          pushed'[i].kind = "event" /\ pushed'[i].id \in DOMAIN events'
    BY <1>1, <2>1, <2>2 DEF BusInv, IsEvent
  <2>6. \A i \in DOMAIN pushed', j \in DOMAIN bridge' :
          Handled(bridge'[j]) /\ events[pushed'[i].id].proc = "worker" => pushed'[i].id < bridge'[j].id
    <3> SUFFICES ASSUME NEW i \in DOMAIN pushed', NEW j \in DOMAIN bridge',
                        Handled(bridge'[j]), events[pushed'[i].id].proc = "worker"
                 PROVE  pushed'[i].id < bridge'[j].id
      OBVIOUS
    <3>1. j + 1 \in DOMAIN bridge /\ bridge'[j] = bridge[j + 1]
      BY <1>2
    <3>2. CASE i \in DOMAIN pushed
      BY <2>1, <3>1, <3>2 DEF BusInv
    <3>3. CASE i = Len(pushed) + 1
      BY <2>1, <2>4, <3>3
    <3> QED
      BY <2>1, <3>2, <3>3
  <2>7. \A i, j \in DOMAIN pushed' : i < j =>
          /\ pushed'[i] # pushed'[j]
          /\ events[pushed'[i].id].proc = events[pushed'[j].id].proc => pushed'[i].id < pushed'[j].id
    <3> SUFFICES ASSUME NEW i \in DOMAIN pushed', NEW j \in DOMAIN pushed', i < j
                 PROVE  /\ pushed'[i] # pushed'[j]
                        /\ events[pushed'[i].id].proc = events[pushed'[j].id].proc
                             => pushed'[i].id < pushed'[j].id
      OBVIOUS
    <3>1. i \in DOMAIN pushed /\ pushed'[i] = pushed[i]
      BY <2>1
    <3>2. CASE j \in DOMAIN pushed
      BY <3>1, <3>2, <2>1 DEF BusInv, PushedOnceInOrder
    <3>3. CASE j = Len(pushed) + 1
      <4>1. pushed'[j] = msg
        BY <2>1, <3>3
      <4>2. pushed[i] \in MsgType
        BY <1>1, <3>1
      <4>3. pushed[i].id \in Nat /\ msg.id \in Nat
        BY <1>2, <4>2 DEF MsgType
      <4> QED
        BY <2>2, <2>3, <3>1, <4>1, <4>3
    <3> QED
      BY <2>1, <3>2, <3>3
  <2>8. \A i \in DOMAIN bridge' : Handled(bridge'[i]) =>
          /\ bridge'[i].kind = "event" /\ bridge'[i].id \in DOMAIN events'
          /\ events'[bridge'[i].id].proc = "worker"
    BY <1>1, <1>2 DEF BusInv, IsEvent
  <2>9. \A i, j \in DOMAIN bridge' :
          i < j /\ Handled(bridge'[i]) /\ Handled(bridge'[j]) => bridge'[i].id < bridge'[j].id
    BY <1>2 DEF BusInv
  <2>10. events' \in Seq(EventType) /\ events' = events
    BY <1>1 DEF BusInv
  <2> HIDE DEF msg
  <2> QED
    BY <1>2, <2>1, <2>5, <2>6, <2>7, <2>8, <2>9, <2>10 DEF BusInv, PushedOnceInOrder, IsEvent
<1> QED
  BY <1>3, <1>4

(* A message is emitted: a new event, or the news of a notification, which *)
(* the gateway does not handle.                                            *)
LEMMA BusEmits ==
  ASSUME BusInv, NEW proc \in Procs, NEW msg \in MsgType, Emitted(proc, msg),
         \/ ~Handled(msg) /\ UNCHANGED events
         \/ \E ev \in EventType : /\ ev.proc = proc /\ events' = Append(events, ev)
                                  /\ msg = EventMsg(Len(events) + 1)
  PROVE  BusInv'
<1>1. /\ \/ proc = "worker" /\ bridge' = Append(bridge, msg)
         \/ bridge' = bridge
      /\ pushed' = IF proc = "api" /\ Handled(msg) THEN Append(pushed, msg) ELSE pushed
  BY DEF Emitted, Published, Heard
<1>2. /\ events \in Seq(EventType) /\ bridge \in Seq(MsgType) /\ pushed \in Seq(MsgType)
      /\ DOMAIN events = 1 .. Len(events) /\ Len(events) \in Nat
  BY DEF BusInv
<1> DEFINE Grown == /\ events' \in Seq(EventType)
                    /\ DOMAIN events \subseteq DOMAIN events'
                    /\ \A e \in DOMAIN events : events'[e] = events[e]
           Fresh == /\ msg.id \in DOMAIN events' /\ events'[msg.id].proc = proc
                    /\ \A e \in DOMAIN events : e < msg.id
<1>a. ASSUME ~Handled(msg), UNCHANGED events
      PROVE  Grown
  BY <1>a, <1>2
<1>b. ASSUME NEW ev \in EventType, ev.proc = proc, events' = Append(events, ev),
             msg = EventMsg(Len(events) + 1)
      PROVE  Grown /\ Fresh
  <2>0. events \in Seq(EventType) /\ ev \in EventType /\ events' = Append(events, ev)
    BY <1>2, <1>b
  <2> HIDE DEF Grown, Fresh
  <2>1. /\ events' \in Seq(EventType) /\ DOMAIN events' = 1 .. Len(events) + 1
        /\ \A e \in DOMAIN events : events'[e] = events[e]
        /\ events'[Len(events) + 1] = ev
    BY ONLY <2>0, Appended
  <2>2. msg.id = Len(events) + 1
    BY <1>b DEF EventMsg
  <2>3. ev.proc = proc
    BY <1>b
  <2> QED
    BY ONLY <1>2, <2>1, <2>2, <2>3 DEF Grown, Fresh
<1>c. Grown /\ (Handled(msg) => Fresh)
  BY <1>a, <1>b
<1>3. /\ events' \in Seq(EventType)
      /\ DOMAIN events \subseteq DOMAIN events'
      /\ \A e \in DOMAIN events : events'[e] = events[e]
  BY <1>c
<1>4. Handled(msg) => /\ msg.id \in DOMAIN events' /\ events'[msg.id].proc = proc
                      /\ \A e \in DOMAIN events : e < msg.id
  BY <1>c
<1> HIDE DEF Grown, Fresh
<1>5. /\ bridge' \in Seq(MsgType)
      /\ \A i \in DOMAIN bridge' : \/ i \in DOMAIN bridge /\ bridge'[i] = bridge[i]
                                   \/ /\ bridge'[i] = msg /\ proc = "worker"
                                      /\ \A j \in DOMAIN bridge' : j <= i
  <2>1. CASE proc = "worker" /\ bridge' = Append(bridge, msg)
    <3>1. /\ bridge' \in Seq(MsgType) /\ DOMAIN bridge' = 1 .. Len(bridge) + 1
          /\ DOMAIN bridge = 1 .. Len(bridge) /\ Len(bridge) \in Nat
          /\ \A i \in DOMAIN bridge : bridge'[i] = bridge[i]
          /\ bridge'[Len(bridge) + 1] = msg
      BY <1>2, <2>1, Appended
    <3> QED
      BY <2>1, <3>1
  <2> QED
    BY <1>1, <1>2, <2>1
<1>6. /\ pushed' \in Seq(MsgType)
      /\ \A i \in DOMAIN pushed' : \/ i \in DOMAIN pushed /\ pushed'[i] = pushed[i]
                                   \/ /\ pushed'[i] = msg /\ proc = "api" /\ Handled(msg)
                                      /\ \A j \in DOMAIN pushed' : j <= i
  <2>1. CASE proc = "api" /\ Handled(msg)
    <3>1. /\ pushed' \in Seq(MsgType) /\ DOMAIN pushed' = 1 .. Len(pushed) + 1
          /\ DOMAIN pushed = 1 .. Len(pushed) /\ Len(pushed) \in Nat
          /\ \A i \in DOMAIN pushed : pushed'[i] = pushed[i]
          /\ pushed'[Len(pushed) + 1] = msg
      BY <1>1, <1>2, <2>1, Appended
    <3> QED
      BY <2>1, <3>1
  <2> QED
    BY <1>1, <1>2, <2>1
<1>7. /\ \A i \in DOMAIN pushed : IsEvent(pushed[i])
      /\ \A i \in DOMAIN bridge : Handled(bridge[i]) => IsEvent(bridge[i])
  BY DEF BusInv
<1>8. \A i \in DOMAIN pushed' : pushed'[i].kind = "event" /\ pushed'[i].id \in DOMAIN events'
  BY <1>3, <1>4, <1>6, <1>7 DEF IsEvent, Handled
<1>9. \A i \in DOMAIN bridge' : Handled(bridge'[i]) =>
        bridge'[i].id \in DOMAIN events' /\ events'[bridge'[i].id].proc = "worker"
  BY <1>3, <1>4, <1>5, <1>7 DEF BusInv, IsEvent
<1>10. \A i, j \in DOMAIN bridge' :
         i < j /\ Handled(bridge'[i]) /\ Handled(bridge'[j]) => bridge'[i].id < bridge'[j].id
  <2> SUFFICES ASSUME NEW i \in DOMAIN bridge', NEW j \in DOMAIN bridge', i < j,
                      Handled(bridge'[i]), Handled(bridge'[j])
               PROVE  bridge'[i].id < bridge'[j].id
    OBVIOUS
  <2>1. i \in Nat /\ j \in Nat
    BY <1>5, <1>2
  <2>2. i \in DOMAIN bridge /\ bridge'[i] = bridge[i]
    BY <1>5, <2>1
  <2>3. CASE j \in DOMAIN bridge /\ bridge'[j] = bridge[j]
    BY <2>2, <2>3 DEF BusInv
  <2>4. CASE bridge'[j] = msg
    BY <1>4, <1>7, <2>2, <2>4 DEF IsEvent
  <2> QED
    BY <1>5, <2>3, <2>4
<1>11. \A i \in DOMAIN pushed', j \in DOMAIN bridge' :
         Handled(bridge'[j]) /\ events'[pushed'[i].id].proc = "worker" => pushed'[i].id < bridge'[j].id
  <2> SUFFICES ASSUME NEW i \in DOMAIN pushed', NEW j \in DOMAIN bridge',
                      Handled(bridge'[j]), events'[pushed'[i].id].proc = "worker"
               PROVE  pushed'[i].id < bridge'[j].id
    OBVIOUS
  <2>1. i \in DOMAIN pushed /\ pushed'[i] = pushed[i]
    BY <1>4, <1>6
  <2>2. pushed[i].id \in DOMAIN events /\ events[pushed[i].id].proc = "worker"
    BY <1>3, <1>7, <2>1 DEF IsEvent
  <2>3. CASE j \in DOMAIN bridge /\ bridge'[j] = bridge[j]
    BY <2>1, <2>2, <2>3 DEF BusInv
  <2>4. CASE bridge'[j] = msg
    BY <1>4, <2>1, <2>2, <2>4
  <2> QED
    BY <1>5, <2>3, <2>4
<1>12. \A i, j \in DOMAIN pushed' : i < j =>
         /\ pushed'[i] # pushed'[j]
         /\ events'[pushed'[i].id].proc = events'[pushed'[j].id].proc => pushed'[i].id < pushed'[j].id
  <2> SUFFICES ASSUME NEW i \in DOMAIN pushed', NEW j \in DOMAIN pushed', i < j
               PROVE  /\ pushed'[i] # pushed'[j]
                      /\ events'[pushed'[i].id].proc = events'[pushed'[j].id].proc
                           => pushed'[i].id < pushed'[j].id
    OBVIOUS
  <2>1. i \in Nat /\ j \in Nat
    BY <1>6, <1>2
  <2>2. i \in DOMAIN pushed /\ pushed'[i] = pushed[i] /\ pushed[i].id \in DOMAIN events
    BY <1>6, <1>7, <2>1 DEF IsEvent
  <2>3. CASE j \in DOMAIN pushed /\ pushed'[j] = pushed[j]
    BY <1>3, <1>7, <2>2, <2>3 DEF BusInv, PushedOnceInOrder, IsEvent
  <2>4. CASE pushed'[j] = msg /\ Handled(msg)
    <3>1. pushed[i].id < msg.id /\ pushed[i].id \in Nat
      BY <1>2, <1>4, <2>2, <2>4
    <3> QED
      BY <2>2, <2>4, <3>1
  <2> QED
    BY <1>6, <2>3, <2>4
<1> QED
  BY <1>3, <1>5, <1>6, <1>8, <1>9, <1>10, <1>11, <1>12
  DEF BusInv, PushedOnceInOrder, IsEvent, Handled

-----------------------------------------------------------------------------
(* Tasks, the rows they write and the direct messages they send.           *)

Sending == {"dispatch", "dm"}

(* The event of task k exists and is one somebody is notified of. *)
Known(k) == k[1] \in DOMAIN events /\ TypeOf(k) \in RowTypes

(* Task k is the only one that may still send a message for its row. *)
Sole(k) ==
  /\ task[k].row \in DOMAIN rows
  /\ rows[task[k].row].agent = task[k].agent
  /\ \A d \in dms : d.row # task[k].row
  /\ \A l \in Keys : l # k /\ task[l].pc \in Sending => task[l].row # task[k].row

TaskInv ==
  /\ task \in [Keys -> TaskType]
  /\ rows \in Seq(RowType)
  /\ \A k \in Keys :
       /\ task[k].pc # "none" => Known(k)
       /\ task[k].pc \in {"find", "write"} \union Sending => task[k].agent # None
       /\ task[k].pc = "write" /\ task[k].row # 0 => task[k].row \in DOMAIN rows
       /\ task[k].pc \in Sending => Sole(k)
  /\ \A d \in dms : d.row \in DOMAIN rows /\ rows[d.row].agent = d.agent
  /\ \A d, f \in dms : d.row = f.row => d = f

(* The rest of the types, and what events have recipients. *)
EnvInv ==
  /\ now \in 0 .. MaxTime
  /\ Len(events) <= MaxEvents
  /\ assignee \in [Tickets -> Agents \union {None}]
  /\ apiUp \in BOOLEAN
  /\ restarts \in 0 .. MaxRestarts
  /\ optedOut \subseteq Agents \X RowTypes
  /\ \A e \in DOMAIN events :
       Len(events[e].to) > 0 => events[e].type \in {"ticket.assigned", "comment.created"}

Inv == EnvInv /\ BusInv /\ TaskInv

(* The invariant contains what the theorems state. *)
LEMMA InvImplies == Inv => TypeOK /\ OneDmPerRow /\ PushedOnceInOrder
BY DEF Inv, EnvInv, BusInv, TaskInv, TypeOK, OneDmPerRow, Sole, Sending, EventType, MsgType, TaskType,
       RowType

LEMMA InvInit == Init => Inv
<1> SUFFICES ASSUME Init PROVE Inv
  OBVIOUS
<1>1. BusInv
  BY BusInit
<1>2. NoTask \in TaskType /\ NoTask.pc = "none"
  BY DEF NoTask, TaskType
<1>3. task \in [Keys -> TaskType] /\ \A k \in Keys : task[k].pc = "none"
  BY <1>2 DEF Init
<1>4. TaskInv
  BY <1>3 DEF Init, TaskInv, Sending
<1>5. EnvInv
  BY DEF Init, EnvInv
<1> QED
  BY <1>1, <1>4, <1>5 DEF Inv

(* Events are only added. *)
Grow == /\ DOMAIN events \subseteq DOMAIN events'
        /\ \A e \in DOMAIN events : events'[e] = events[e]

(* What a task may refer to stays there: events and rows are only added. *)
LEMMA KnownLasts ==
  ASSUME Grow, NEW k \in Keys, Known(k)
  PROVE  Known(k)'
BY DEF Grow, Known, TypeOf, Event

(* What task k may become without sending or writing anything. *)
Harmless(k, r) ==
  \/ r = task[k]
  \/ /\ r \in TaskType
     /\ r.pc \in {"none", "lookup", "find", "done", "failed"}
     /\ r.pc = "find" => r.agent # None
     /\ r.pc # "none" => Known(k)'

(* Tasks may move by harmless changes while nothing is sent. *)
LEMMA TasksChange ==
  ASSUME Inv, Grow, UNCHANGED <<dms>>, rows' \in Seq(RowType), DOMAIN rows' = DOMAIN rows,
         \A n \in DOMAIN rows : rows'[n].agent = rows[n].agent,
         task' \in [Keys -> TaskType], \A k \in Keys : Harmless(k, task'[k])
  PROVE  TaskInv'
<1>1. \A k \in Keys : task'[k].pc \in {"write"} \union Sending => task'[k] = task[k]
  BY DEF Harmless, Sending
<1>2. \A k \in Keys : task'[k].pc # "none" => Known(k)'
  BY KnownLasts DEF Harmless, Inv, TaskInv
<1>3. \A k \in Keys : task'[k].pc \in {"find", "write"} \union Sending => task'[k].agent # None
  BY DEF Harmless, Inv, TaskInv, Sending
<1>4. \A k \in Keys : task'[k].pc \in Sending => Sole(k)'
  <2> SUFFICES ASSUME NEW k \in Keys, task'[k].pc \in Sending
               PROVE  Sole(k)'
    OBVIOUS
  <2>1. task'[k] = task[k] /\ Sole(k)
    BY <1>1 DEF Inv, TaskInv
  <2>2. \A l \in Keys : task'[l].pc \in Sending => task'[l] = task[l]
    BY <1>1
  <2> QED
    BY <2>1, <2>2 DEF Sole
<1> QED
  BY <1>1, <1>2, <1>3, <1>4 DEF Inv, TaskInv

(* A task that begins to look an agent up is well typed. *)
LEMMA BeginTyped ==
  ASSUME NEW a \in Agents
  PROVE  /\ Begin("find", a) \in TaskType
         /\ Begin("find", a).pc = "find" /\ Begin("find", a).agent # None
BY DEF Begin, NoTask, TaskType

(* The tasks an event starts are harmless. *)
LEMMA StartedHarmless ==
  ASSUME Inv, NEW proc \in Procs, NEW ev \in EventType, NEW e \in EventIds,
         e \in DOMAIN events', events'[e] = ev,
         Len(ev.to) > 0 => ev.type \in {"ticket.assigned", "comment.created"},
         task' = Started(proc, e, ev)
  PROVE  task' \in [Keys -> TaskType] /\ \A k \in Keys : Harmless(k, task'[k])
<1> SUFFICES ASSUME NEW k \in Keys
             PROVE  task'[k] \in TaskType /\ Harmless(k, task'[k])
  BY DEF Started
<1>1. task[k] \in TaskType /\ k[3] \in Nat /\ k[3] >= 1
  BY DEF Inv, TaskInv, Keys, Slots
<1>2. task'[k] = IF k[1] # e \/ k[2] # proc THEN task[k]
                 ELSE IF ev.type = "message.received" /\ k[3] = 1 THEN Begin("lookup", None)
                 ELSE IF k[3] <= Len(ev.to) THEN Begin("find", ev.to[k[3]])
                 ELSE task[k]
  BY DEF Started
<1>3. Begin("lookup", None) \in TaskType /\ Begin("lookup", None).pc = "lookup"
  BY DEF Begin, NoTask, TaskType
<1>4. CASE task'[k] = task[k]
  BY <1>1, <1>4 DEF Harmless
<1>5. CASE k[1] = e /\ ev.type = "message.received" /\ task'[k] = Begin("lookup", None)
  <2>1. Known(k)'
    BY <1>5 DEF Known, TypeOf, Event, RowTypes
  <2> QED
    BY <1>3, <1>5, <2>1 DEF Harmless
<1>6. CASE k[1] = e /\ k[3] <= Len(ev.to) /\ task'[k] = Begin("find", ev.to[k[3]])
  <2>1. ev.to \in Seq(Agents) /\ Len(ev.to) \in Nat
    BY DEF EventType
  <2>2. ev.to[k[3]] \in Agents /\ Len(ev.to) > 0
    BY <1>1, <1>6, <2>1
  <2>3. Known(k)'
    BY <1>6, <2>2 DEF Known, TypeOf, Event, RowTypes
  <2>4. /\ task'[k] \in TaskType /\ task'[k].pc = "find" /\ task'[k].agent # None
    BY <1>6, <2>2, BeginTyped
  <2> QED
    BY <2>3, <2>4 DEF Harmless
<1> QED
  BY <1>2, <1>4, <1>5, <1>6

(* A domain event happens. *)
LEMMA HappensStep ==
  ASSUME Inv, NEW proc \in Procs, NEW type, NEW t \in Tickets, NEW to \in Seq(Agents),
         Len(to) > 0 => type \in {"ticket.assigned", "comment.created"},
         Happens(proc, type, t, to), assignee' \in [Tickets -> Agents \union {None}]
  PROVE  Inv'
<1> DEFINE ev == [proc |-> proc, type |-> type, ticket |-> t, to |-> to, at |-> now]
           e == Len(events) + 1
<1>1. /\ type \in Types /\ e <= MaxEvents /\ events' = Append(events, ev)
      /\ Emitted(proc, EventMsg(e)) /\ task' = Started(proc, e, ev)
      /\ UNCHANGED <<now, rows, optedOut, dms>>
  BY DEF Happens
<1>2. events \in Seq(EventType) /\ Len(events) \in Nat /\ now \in 0 .. MaxTime
  BY DEF Inv, BusInv, EnvInv
<1>3. ev \in EventType /\ ev.proc = proc /\ ev.to = to /\ ev.type = type
  BY <1>1, <1>2 DEF EventType
<1>4. e \in EventIds /\ EventMsg(e) \in MsgType
  BY <1>1, <1>2 DEF EventIds, EventMsg, MsgType
<1> HIDE DEF ev
<1>5. /\ events' \in Seq(EventType) /\ Len(events') = e /\ DOMAIN events' = 1 .. e
      /\ DOMAIN events = 1 .. Len(events)
      /\ \A i \in DOMAIN events : events'[i] = events[i]
      /\ events'[e] = ev
  BY <1>1, <1>2, <1>3, Appended
<1>6. BusInv'
  BY <1>1, <1>3, <1>4, BusEmits DEF Inv
<1>7. Grow
  BY <1>2, <1>5 DEF Grow
<1>8. e \in DOMAIN events' /\ events'[e] = ev
  BY <1>2, <1>5
<1>9. task' \in [Keys -> TaskType] /\ \A k \in Keys : Harmless(k, task'[k])
  BY <1>1, <1>3, <1>4, <1>8, StartedHarmless
<1>10. rows' = rows /\ rows \in Seq(RowType)
  BY <1>1 DEF Inv, TaskInv
<1>11. TaskInv'
  BY <1>1, <1>7, <1>9, <1>10, TasksChange
<1>12. apiUp' = apiUp /\ restarts' = restarts
  BY <1>1 DEF Emitted
<1>13. EnvInv'
  BY <1>1, <1>2, <1>3, <1>5, <1>12 DEF Inv, EnvInv
<1> QED
  BY <1>6, <1>11, <1>13 DEF Inv

-----------------------------------------------------------------------------
(* The steps of a task. *)

(* Task k goes on, harmlessly; nothing it shares changes. *)
LEMMA TaskGoes ==
  ASSUME Inv, NEW k \in Keys, NEW r, task' = [task EXCEPT ![k] = r], Harmless(k, r),
         UNCHANGED <<events, rows, dms>>
  PROVE  TaskInv'
<1>1. task \in [Keys -> TaskType] /\ rows \in Seq(RowType)
  BY DEF Inv, TaskInv
<1>2. r \in TaskType
  BY <1>1 DEF Harmless
<1>3. task' \in [Keys -> TaskType] /\ \A l \in Keys : Harmless(l, task'[l])
  BY <1>1, <1>2 DEF Harmless
<1>4. Grow
  BY DEF Grow
<1> QED
  BY <1>1, <1>3, <1>4, TasksChange

LEMMA LookupStep ==
  ASSUME Inv, NEW k \in Keys, Lookup(k)
  PROVE  TaskInv'
<1>1. /\ task[k].pc = "lookup" /\ Known(k) /\ UNCHANGED <<events, rows, dms>>
      /\ task' = [task EXCEPT ![k] = NotifyAssignee(assignee[Event(k).ticket])]
  BY DEF Lookup, busVars, Inv, TaskInv
<1>2. Event(k) \in EventType
  BY <1>1 DEF Inv, BusInv, Known, Event
<1>3. PICK a \in Agents \union {None} : a = assignee[Event(k).ticket]
  BY <1>2 DEF Inv, EnvInv, EventType
<1>4. Known(k)'
  BY <1>1 DEF Known, TypeOf, Event
<1>5. Harmless(k, NotifyAssignee(a))
  BY <1>4 DEF Harmless, NotifyAssignee, NoTask, Begin, TaskType
<1> QED
  BY <1>1, <1>3, <1>5, TaskGoes

(* A task that is neither about to write nor to send. *)
LEMMA FindStep ==
  ASSUME Inv, NEW k \in Keys, Find(k)
  PROVE  TaskInv'
<1>1. PICK n \in {0} \union DOMAIN rows : task' = [task EXCEPT ![k].pc = "write", ![k].row = n]
  BY DEF Find, Recent
<1>2. /\ task[k].pc = "find" /\ UNCHANGED <<events, rows, dms>>
      /\ task \in [Keys -> TaskType] /\ rows \in Seq(RowType) /\ task[k] \in TaskType
  BY DEF Find, busVars, Inv, TaskInv
<1>3. n \in Nat
  BY <1>2
<1>4. /\ task' \in [Keys -> TaskType] /\ \A l \in Keys : l # k => task'[l] = task[l]
      /\ task'[k].pc = "write" /\ task'[k].row = n /\ task'[k].agent = task[k].agent
  BY <1>1, <1>2, <1>3 DEF TaskType
<1>5. \A l \in Keys : Known(l) => Known(l)'
  BY <1>2 DEF Known, TypeOf, Event
<1>6. \A l \in Keys : task'[l].pc \in Sending => l # k /\ Sole(l)'
  BY <1>2, <1>4 DEF Inv, TaskInv, Sole, Sending
<1> QED
  BY <1>2, <1>4, <1>5, <1>6 DEF Inv, TaskInv, Sending

(* A new row belongs to no task or message yet. *)
LEMMA WriteStep ==
  ASSUME Inv, NEW k \in Keys, Write(k)
  PROVE  TaskInv' /\ BusInv'
<1> DEFINE found == task[k].row
           n == IF found = 0 THEN Len(rows) + 1 ELSE found
           pc == AfterWrite(found)
<1>1. /\ task[k].pc = "write"
      /\ rows' = IF found = 0 THEN Append(rows, NewRow(k)) ELSE [rows EXCEPT ![n] = Refreshed(@)]
      /\ Emitted(k[2], NoticeMsg(n))
      /\ task' = [task EXCEPT ![k].pc = pc, ![k].row = n]
      /\ UNCHANGED <<now, events, assignee, optedOut, dms>>
  BY DEF Write
<1>2. /\ task \in [Keys -> TaskType] /\ rows \in Seq(RowType) /\ task[k] \in TaskType
      /\ found \in Nat /\ Len(rows) \in Nat /\ DOMAIN rows = 1 .. Len(rows)
      /\ found # 0 => found \in DOMAIN rows
      /\ task[k].agent # None /\ Known(k) /\ now \in 0 .. MaxTime
  BY <1>1 DEF Inv, TaskInv, EnvInv, TaskType
<1>3. pc = IF found = 0 THEN "dispatch" ELSE "done"
  BY DEF AfterWrite
<1>4. n \in Nat
  BY <1>2
<1> HIDE DEF n, pc, found
<1>5. /\ task' \in [Keys -> TaskType] /\ \A l \in Keys : l # k => task'[l] = task[l]
      /\ task'[k].pc = pc /\ task'[k].row = n /\ task'[k].agent = task[k].agent
  BY <1>1, <1>2, <1>3, <1>4 DEF TaskType
<1>6. BusInv'
  <2>1. k[2] \in Procs /\ NoticeMsg(n) \in MsgType /\ ~Handled(NoticeMsg(n))
    BY <1>4 DEF Keys, NoticeMsg, MsgType, Handled
  <2> QED
    BY <1>1, <2>1, BusEmits DEF Inv
<1>7. \A l \in Keys : Known(l) => Known(l)'
  BY <1>1 DEF Known, TypeOf, Event
<1>8. Event(k) \in EventType /\ NewRow(k) \in RowType /\ NewRow(k).agent = task[k].agent
  <2>1. Event(k) \in EventType /\ TypeOf(k) \in RowTypes
    BY <1>2 DEF Inv, BusInv, Known, Event
  <2>2. Event(k).ticket \in Tickets /\ task[k].agent \in Agents
    BY <1>2, <2>1 DEF EventType, TaskType
  <2> QED
    BY <1>2, <2>1, <2>2 DEF NewRow, RowType
<1>9. CASE found = 0
  <2>1. /\ rows' \in Seq(RowType) /\ DOMAIN rows' = 1 .. Len(rows) + 1 /\ n = Len(rows) + 1
        /\ \A i \in DOMAIN rows : rows'[i] = rows[i]
        /\ rows'[n] = NewRow(k)
    BY <1>1, <1>2, <1>8, <1>9, Appended DEF n
  <2>2. n \in DOMAIN rows' /\ n \notin DOMAIN rows /\ DOMAIN rows \subseteq DOMAIN rows'
    BY <1>2, <2>1
  <2>3. \A d \in dms : d.row \in DOMAIN rows
    BY DEF Inv, TaskInv
  <2>4. \A l \in Keys : task[l].pc \in Sending => task[l].row \in DOMAIN rows
    BY DEF Inv, TaskInv, Sole
  <2>5. Sole(k)'
    BY <1>1, <1>5, <1>8, <2>1, <2>2, <2>3, <2>4 DEF Sole
  <2>6. \A l \in Keys : l # k /\ task[l].pc \in Sending => Sole(l)'
    <3> SUFFICES ASSUME NEW l \in Keys, l # k, task[l].pc \in Sending
                 PROVE  Sole(l)'
      OBVIOUS
    <3>1. Sole(l) /\ task'[l] = task[l]
      BY <1>5 DEF Inv, TaskInv
    <3> QED
      BY <1>1, <1>5, <2>1, <2>2, <3>1 DEF Sole
  <2>7. \A l \in Keys : /\ task'[l].pc # "none" => Known(l)'
                        /\ task'[l].pc \in {"find", "write"} \union Sending => task'[l].agent # None
                        /\ task'[l].pc = "write" /\ task'[l].row # 0 => task'[l].row \in DOMAIN rows'
                        /\ task'[l].pc \in Sending => Sole(l)'
    BY <1>2, <1>3, <1>5, <1>7, <1>9, <2>2, <2>5, <2>6 DEF Inv, TaskInv
  <2>8. \A d \in dms' : d.row \in DOMAIN rows' /\ rows'[d.row].agent = d.agent
    BY <1>1, <2>1, <2>2 DEF Inv, TaskInv
  <2>9. \A d, f \in dms' : d.row = f.row => d = f
    BY <1>1 DEF Inv, TaskInv
  <2> QED
    BY <1>5, <1>6, <2>1, <2>7, <2>8, <2>9 DEF TaskInv
<1>10. CASE found # 0
  <2>1. n \in DOMAIN rows /\ rows' = [rows EXCEPT ![n] = Refreshed(rows[n])]
    BY <1>1, <1>2, <1>10 DEF n
  <2>2. /\ rows[n] \in RowType /\ Refreshed(rows[n]) \in RowType
        /\ Refreshed(rows[n]).agent = rows[n].agent
    <3>1. rows[n] \in RowType
      BY <1>2, <2>1
    <3> QED
      BY ONLY <3>1, <1>2 DEF Refreshed, RowType
  <2>3. /\ rows' \in Seq(RowType) /\ DOMAIN rows' = DOMAIN rows
        /\ \A i \in DOMAIN rows : rows'[i].agent = rows[i].agent
    BY <1>2, <2>1, <2>2
  <2>4. \A l \in Keys : Harmless(l, task'[l])
    BY <1>2, <1>3, <1>5, <1>7, <1>10 DEF Harmless
  <2>5. Grow
    BY <1>1 DEF Grow
  <2> QED
    BY <1>1, <1>5, <1>6, <2>3, <2>4, <2>5, TasksChange
<1> QED
  BY <1>9, <1>10

(* From deciding to send to sending; the task stays the only one. *)
LEMMA DispatchStep ==
  ASSUME Inv, NEW k \in Keys, Dispatch(k)
  PROVE  TaskInv'
<1>1. PICK pc \in {"done", "dm"} : task' = [task EXCEPT ![k].pc = pc]
  BY DEF Dispatch, Goto
<1>2. /\ task[k].pc = "dispatch" /\ UNCHANGED <<events, rows, dms>>
      /\ task \in [Keys -> TaskType] /\ task[k] \in TaskType
  BY DEF Dispatch, busVars, Inv, TaskInv
<1>3. /\ task' \in [Keys -> TaskType] /\ \A l \in Keys : l # k => task'[l] = task[l]
      /\ task'[k].pc = pc /\ task'[k].row = task[k].row /\ task'[k].agent = task[k].agent
  BY <1>1, <1>2 DEF TaskType
<1>4. \A l \in Keys : Known(l) => Known(l)'
  BY <1>2 DEF Known, TypeOf, Event
<1>5. \A l \in Keys : task'[l].pc \in Sending => task[l].pc \in Sending /\ task'[l].row = task[l].row
                                                  /\ task'[l].agent = task[l].agent
  BY <1>2, <1>3 DEF Sending
<1>6. \A l \in Keys : task'[l].pc \in Sending => Sole(l)'
  BY <1>2, <1>5 DEF Inv, TaskInv, Sole
<1> QED
  BY <1>2, <1>3, <1>4, <1>5, <1>6 DEF Inv, TaskInv, Sending

LEMMA SendDmStep ==
  ASSUME Inv, NEW k \in Keys, SendDm(k)
  PROVE  TaskInv'
<1> DEFINE r == [task[k] EXCEPT !.pc = "done"]
           d == [task |-> k, agent |-> task[k].agent, row |-> task[k].row]
<1>1. /\ task[k].pc = "dm" /\ task' = [task EXCEPT ![k] = r] /\ UNCHANGED <<events, rows>>
      /\ dms' = dms \union {d} \/ dms' = dms
      /\ task \in [Keys -> TaskType] /\ task[k] \in TaskType /\ rows \in Seq(RowType)
  BY DEF SendDm, Goto, busVars, Inv, TaskInv
<1>2. r \in TaskType /\ r.pc = "done" /\ d.row = task[k].row /\ d.agent = task[k].agent
  BY <1>1 DEF TaskType
<1>3. Sole(k) /\ Known(k) /\ Known(k)'
  BY <1>1 DEF Inv, TaskInv, Sending, Known, TypeOf, Event
<1> HIDE DEF r, d
<1>4. /\ task' \in [Keys -> TaskType] /\ task'[k] = r
      /\ \A l \in Keys : l # k => task'[l] = task[l]
  BY <1>1, <1>2
<1>5. \A l \in Keys : task'[l].pc \in Sending => l # k /\ Sole(l)'
  <2> SUFFICES ASSUME NEW l \in Keys, task'[l].pc \in Sending
               PROVE  l # k /\ Sole(l)'
    OBVIOUS
  <2>1. l # k /\ task'[l] = task[l] /\ Sole(l) /\ task[l].pc \in Sending
    BY <1>2, <1>4 DEF Inv, TaskInv, Sending
  <2>2. task[l].row # d.row
    BY <1>2, <1>3, <2>1 DEF Sole
  <2>3. \A f \in dms' : f.row # task'[l].row
    BY <1>1, <2>1, <2>2 DEF Sole
  <2>4. \A m \in Keys : m # l /\ task'[m].pc \in Sending => task'[m].row # task'[l].row
    BY <1>2, <1>4, <2>1 DEF Sole, Sending
  <2> QED
    BY <1>1, <2>1, <2>3, <2>4 DEF Sole
<1>6. \A f \in dms' : f.row \in DOMAIN rows' /\ rows'[f.row].agent = f.agent
  BY <1>1, <1>2, <1>3 DEF Inv, TaskInv, Sole
<1>7. \A f, g \in dms' : f.row = g.row => f = g
  BY <1>1, <1>2, <1>3 DEF Inv, TaskInv, Sole
<1>8. \A l \in Keys : Known(l) => Known(l)'
  BY <1>1 DEF Known, TypeOf, Event
<1> QED
  BY <1>1, <1>2, <1>4, <1>5, <1>6, <1>7, <1>8 DEF Inv, TaskInv

LEMMA TaskFailsStep ==
  ASSUME Inv, NEW k \in Keys, TaskFails(k)
  PROVE  TaskInv'
<1> DEFINE r == [task[k] EXCEPT !.pc = "failed"]
<1>1. /\ task[k].pc # "none" /\ task' = [task EXCEPT ![k] = r] /\ UNCHANGED <<events, rows, dms>>
      /\ task[k] \in TaskType
  BY DEF TaskFails, Goto, busVars, Inv, TaskInv
<1>2. r \in TaskType /\ r.pc = "failed"
  BY <1>1 DEF TaskType
<1>3. Known(k)'
  BY <1>1 DEF Inv, TaskInv, Known, TypeOf, Event
<1> HIDE DEF r
<1>4. Harmless(k, r)
  BY <1>2, <1>3 DEF Harmless
<1> QED
  BY <1>1, <1>4, TaskGoes

-----------------------------------------------------------------------------
(* All steps. *)

(* An event that notifies nobody by itself. *)
LEMMA QuietStep ==
  ASSUME Inv, NEW proc \in Procs, NEW type, NEW t \in Tickets,
         Happens(proc, type, t, <<>>), assignee' \in [Tickets -> Agents \union {None}]
  PROVE  Inv'
<1> DEFINE to == <<>>
<1>1. to \in Seq(Agents) /\ ~(Len(to) > 0) /\ Happens(proc, type, t, to)
  OBVIOUS
<1> HIDE DEF to
<1> QED
  BY <1>1, HappensStep

LEMMA HappeningStep ==
  ASSUME Inv, Happening
  PROVE  Inv'
<1>1. PICK t \in Tickets :
        \/ TicketCreated(t) \/ MessageReceived(t)
        \/ \E a, by \in Agents : Assign(t, a, by)
        \/ \E mentions \in Mentions : Comment(t, mentions)
        \/ \E proc \in Procs : MessageSent(proc, t) \/ TicketUpdated(proc, t)
  BY DEF Happening
<1>2. assignee \in [Tickets -> Agents \union {None}] /\ <<>> \in Seq(Agents) /\ Len(<<>>) = 0
      /\ "api" \in Procs /\ "worker" \in Procs
  BY DEF Inv, EnvInv, Procs
<1>3. CASE TicketCreated(t)
  <2>1. Happens("worker", "ticket.created", t, <<>>) /\ assignee' \in [Tickets -> Agents \union {None}]
    BY <1>2, <1>3 DEF TicketCreated
  <2> QED
    BY <1>2, <2>1, QuietStep
<1>4. CASE MessageReceived(t)
  BY <1>2, <1>4, QuietStep DEF MessageReceived
<1>5. ASSUME NEW a \in Agents, NEW by \in Agents, Assign(t, a, by)
      PROVE  Inv'
  <2>1. PICK to \in Seq(Agents) : Happens("api", "ticket.assigned", t, to)
    <3>1. <<>> \in Seq(Agents) /\ <<a>> \in Seq(Agents)
      OBVIOUS
    <3> QED
      BY <3>1, <1>5 DEF Assign
  <2>2. assignee' \in [Tickets -> Agents \union {None}]
    BY <1>2, <1>5 DEF Assign
  <2> QED
    BY <1>2, <2>1, <2>2, HappensStep
<1>6. ASSUME NEW mentions \in Mentions, Comment(t, mentions)
      PROVE  Inv'
  <2>1. mentions \in Seq(Agents)
    BY DEF Mentions, Slots
  <2> QED
    BY <1>2, <1>6, <2>1, HappensStep DEF Comment
<1>7. ASSUME NEW proc \in Procs, MessageSent(proc, t)
      PROVE  Inv'
  BY <1>2, <1>7, QuietStep DEF MessageSent
<1>8. ASSUME NEW proc \in Procs, TicketUpdated(proc, t)
      PROVE  Inv'
  <2>1. /\ Happens(proc, "ticket.updated", t, <<>>)
        /\ assignee' \in [Tickets -> Agents \union {None}]
    BY <1>2, <1>8 DEF TicketUpdated
  <2> QED
    BY <2>1, QuietStep
<1> QED
  BY <1>1, <1>3, <1>4, <1>5, <1>6, <1>7, <1>8

LEMMA ReceiveStep ==
  ASSUME Inv, Receive
  PROVE  Inv'
<1> DEFINE msg == Head(bridge)
<1>1. /\ bridge # <<>> /\ bridge \in Seq(MsgType)
      /\ task' = IF msg.kind = "event" THEN Started("api", msg.id, events[msg.id]) ELSE task
      /\ UNCHANGED <<now, events, assignee, apiUp, restarts, rows, optedOut, dms>>
  BY DEF Receive, NextMessage, Inv, BusInv
<1>2. BusInv'
  BY BusReceives DEF Inv
<1>3. EnvInv'
  BY <1>1 DEF Inv, EnvInv
<1>4. Grow /\ rows' = rows /\ rows \in Seq(RowType)
  BY <1>1 DEF Grow, Inv, TaskInv
<1>5. CASE msg.kind # "event"
  <2>1. task' \in [Keys -> TaskType] /\ \A k \in Keys : Harmless(k, task'[k])
    BY <1>1, <1>5 DEF Harmless, Inv, TaskInv
  <2> QED
    BY <1>1, <1>2, <1>3, <1>4, <2>1, TasksChange DEF Inv
<1>6. CASE msg.kind = "event"
  <2>1. msg = bridge[1] /\ 1 \in DOMAIN bridge
    BY <1>1
  <2>2. msg.id \in DOMAIN events
    BY <1>6, <2>1 DEF Inv, BusInv, Handled, IsEvent
  <2>3. events[msg.id] \in EventType /\ msg.id \in EventIds
    BY <2>2 DEF Inv, BusInv, EnvInv, EventIds
  <2>4. Len(events[msg.id].to) > 0 => events[msg.id].type \in {"ticket.assigned", "comment.created"}
    BY <2>2 DEF Inv, EnvInv
  <2>5. "api" \in Procs
    BY DEF Procs
  <2> HIDE DEF msg
  <2>6. task' = Started("api", msg.id, events[msg.id]) /\ msg.id \in DOMAIN events'
        /\ events'[msg.id] = events[msg.id]
    BY <1>1, <1>6, <2>2
  <2>7. task' \in [Keys -> TaskType] /\ \A k \in Keys : Harmless(k, task'[k])
    BY <2>3, <2>4, <2>5, <2>6, StartedHarmless
  <2> QED
    BY <1>1, <1>2, <1>3, <1>4, <2>7, TasksChange DEF Inv
<1> QED
  BY <1>5, <1>6

LEMMA TaskStepStep ==
  ASSUME Inv, NEW k \in Keys, TaskStep(k)
  PROVE  Inv'
<1>1. CASE Write(k)
  <2>1. TaskInv' /\ BusInv'
    BY <1>1, WriteStep
  <2>2. EnvInv'
    BY <1>1 DEF Write, Emitted, Inv, EnvInv
  <2> QED
    BY <2>1, <2>2 DEF Inv
<1>2. CASE ~Write(k)
  <2>1. UNCHANGED <<now, events, assignee, busVars, optedOut>>
    BY <1>2 DEF TaskStep, Lookup, Find, Dispatch, SendDm, TaskFails
  <2>2. BusInv' /\ EnvInv'
    BY <2>1, BusIdle DEF busVars, Inv, EnvInv
  <2>3. TaskInv'
    BY <1>2, LookupStep, FindStep, DispatchStep, SendDmStep, TaskFailsStep DEF TaskStep
  <2> QED
    BY <2>2, <2>3 DEF Inv
<1> QED
  BY <1>1, <1>2

LEMMA InvNext ==
  ASSUME Inv, [Next]_vars
  PROVE  Inv'
<1>1. rows \in Seq(RowType) /\ task \in [Keys -> TaskType]
  BY DEF Inv, TaskInv
<1>2. \A k \in Keys : Harmless(k, task[k])
  BY DEF Harmless
<1>3. CASE UNCHANGED vars
  <2>1. Grow
    BY <1>3 DEF vars, Grow
  <2>2. TaskInv'
    BY <1>1, <1>2, <1>3, <2>1, TasksChange DEF vars
  <2>3. BusInv' /\ EnvInv'
    BY <1>3, BusIdle DEF vars, busVars, Inv, EnvInv
  <2> QED
    BY <2>2, <2>3 DEF Inv
<1>4. CASE Tick
  <2>1. Grow
    BY <1>4 DEF Tick, Grow
  <2>2. TaskInv'
    BY <1>1, <1>2, <1>4, <2>1, TasksChange DEF Tick
  <2>3. BusInv'
    BY <1>4, BusIdle DEF Tick, busVars, Inv
  <2>4. EnvInv'
    BY <1>4 DEF Tick, busVars, Inv, EnvInv
  <2> QED
    BY <2>2, <2>3, <2>4 DEF Inv
<1>5. CASE Happening
  BY <1>5, HappeningStep
<1>6. CASE Receive
  BY <1>6, ReceiveStep
<1>7. ASSUME NEW proc \in Procs, Stop(proc)
      PROVE  Inv'
  <2>1. NoTask \in TaskType /\ NoTask.pc = "none"
    BY DEF NoTask, TaskType
  <2>2. task' \in [Keys -> TaskType] /\ \A k \in Keys : task'[k] \in {task[k], NoTask}
    BY <1>1, <1>7, <2>1 DEF Stop
  <2>3. \A k \in Keys : Harmless(k, task'[k])
    BY <2>1, <2>2 DEF Harmless
  <2>4. Grow
    BY <1>7 DEF Stop, Grow
  <2>5. TaskInv'
    BY <1>1, <1>7, <2>2, <2>3, <2>4, TasksChange DEF Stop
  <2>6. BusInv'
    BY <1>7, BusIdle DEF Stop, Inv
  <2>7. EnvInv'
    BY <1>7 DEF Stop, Inv, EnvInv
  <2> QED
    BY <2>5, <2>6, <2>7 DEF Inv
<1>8. CASE ApiStarts
  <2>1. Grow
    BY <1>8 DEF ApiStarts, Grow
  <2>2. TaskInv'
    BY <1>1, <1>2, <1>8, <2>1, TasksChange DEF ApiStarts
  <2>3. BusInv'
    BY <1>8, BusIdle DEF ApiStarts, Inv
  <2>4. EnvInv'
    BY <1>8 DEF ApiStarts, Inv, EnvInv
  <2> QED
    BY <2>2, <2>3, <2>4 DEF Inv
<1>9. ASSUME NEW k \in Keys, TaskStep(k)
      PROVE  Inv'
  BY <1>9, TaskStepStep
<1>10. CASE Request
  <2>1. UNCHANGED <<now, events, assignee, busVars, task, dms>>
    BY <1>10 DEF Request, MarkRead, UpdatePref
  <2>2. /\ rows' \in Seq(RowType) /\ DOMAIN rows' = DOMAIN rows
        /\ \A n \in DOMAIN rows : rows'[n].agent = rows[n].agent
    <3>1. ASSUME NEW a, NEW ns, MarkRead(a, ns)
          PROVE  /\ rows' \in Seq(RowType) /\ DOMAIN rows' = DOMAIN rows
                 /\ \A n \in DOMAIN rows : rows'[n].agent = rows[n].agent
      <4>1. rows' = [n \in DOMAIN rows |-> IF n \in ns /\ rows[n].agent = a
                                           THEN [rows[n] EXCEPT !.isRead = TRUE] ELSE rows[n]]
        BY <3>1 DEF MarkRead
      <4>2. \A n \in DOMAIN rows : /\ rows'[n] \in RowType
                                   /\ rows'[n].agent = rows[n].agent
        <5> SUFFICES ASSUME NEW n \in DOMAIN rows
                     PROVE  rows'[n] \in RowType /\ rows'[n].agent = rows[n].agent
          OBVIOUS
        <5>1. rows[n] \in RowType
          BY <1>1
        <5>2. rows'[n] = IF n \in ns /\ rows[n].agent = a
                         THEN [rows[n] EXCEPT !.isRead = TRUE] ELSE rows[n]
          BY <4>1
        <5> QED
          BY <5>1, <5>2 DEF RowType
      <4>3. DOMAIN rows = 1 .. Len(rows) /\ Len(rows) \in Nat
        BY <1>1
      <4> QED
        BY <4>1, <4>2, <4>3
    <3>2. CASE rows' = rows
      BY <1>1, <3>2
    <3> QED
      BY <1>10, <3>1, <3>2 DEF Request, UpdatePref
  <2>3. Grow
    BY <2>1 DEF Grow
  <2>4. TaskInv'
    BY <1>1, <1>2, <2>1, <2>2, <2>3, TasksChange
  <2>5. BusInv'
    BY <2>1, BusIdle DEF busVars, Inv
  <2>6. optedOut' \subseteq Agents \X RowTypes
    BY <1>10 DEF Request, MarkRead, UpdatePref, Inv, EnvInv
  <2>7. EnvInv'
    BY <2>1, <2>6 DEF busVars, Inv, EnvInv
  <2> QED
    BY <2>4, <2>5, <2>7 DEF Inv
<1> QED
  BY <1>3, <1>4, <1>5, <1>6, <1>7, <1>8, <1>9, <1>10 DEF Next

LEMMA Invariant == Spec => []Inv
BY InvInit, InvNext, PTL DEF Spec

-----------------------------------------------------------------------------
(* Every reachable state has its type: what notify, the bridge and the     *)
(* gateway hold is what their code expects.                                *)
THEOREM TypeCorrect == Spec => []TypeOK
BY Invariant, InvImplies, PTL

(* A notification causes at most one direct message, to its own agent,     *)
(* with any number of events, agents, restarts and racing handlers of      *)
(* NotificationsService.notify.                                            *)
THEOREM OneDmPerRowHolds == Spec => []OneDmPerRow
BY Invariant, InvImplies, PTL

(* What TicketsGateway pushes: no event twice, each process's events in    *)
(* order, over any number of outages of the bridge.                        *)
THEOREM PushedOnceInOrderHolds == Spec => []PushedOnceInOrder
BY Invariant, InvImplies, PTL
=============================================================================
