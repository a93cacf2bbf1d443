--------------------------- MODULE TicketsProofs ---------------------------
(* Machine-checked proofs about Tickets: types, the audit log and routing,  *)
(* for every value of the constants.                                        *)
EXTENDS Tickets, FiniteSetTheorems, WellFoundedInduction, TLAPS

USE ConstantsAssumption, NoneAssumption, KeepAssumption

RoutedType == [ticket : Tickets, agent : Agents \union {None},
               strategy : {"manual", "round_robin", "least_busy"}, seen : Nat, counted : Nat]
LogType == [ticket : Tickets, by : Agents \union {None}, change : ChangeSet,
            previous : Agents \union {None, Keep}]
ReqType == [pc : {"idle", "read", "write"}, op : {"assign", "label", "close"}, todo : Seq(Tickets),
            arg : Agents \union Labels \union {None}, by : Agents \union {None},
            seen : Agents \union {None, Keep} \union SUBSET Labels]
WkType == [pc : {"idle", "count", "create"},
           strategy : {"manual", "round_robin", "least_busy"},
           default : Agents \union {None}, members : SUBSET Agents,
           pick : Agents \union {None}, seen : 0 .. Len(routed), counted : 0 .. Len(routed)]

(* Appending, once for all the sequences of the model. *)
LEMMA Appended ==
  ASSUME NEW S, NEW s \in Seq(S), NEW x \in S
  PROVE  /\ Append(s, x) \in Seq(S)
         /\ Len(Append(s, x)) = Len(s) + 1
         /\ DOMAIN Append(s, x) = 1 .. Len(s) + 1
         /\ DOMAIN s = 1 .. Len(s) /\ Len(s) \in Nat
         /\ \A i \in DOMAIN s : Append(s, x)[i] = s[i]
         /\ Append(s, x)[Len(s) + 1] = x
OBVIOUS

-----------------------------------------------------------------------------
(* The inductive invariant.                                                *)

(* Every ticket was routed once, and its rows and events are typed. *)
RowsInv ==
  /\ ticket \in [Tickets -> Row \union {None}]
  /\ routed \in Seq(RoutedType)
  /\ \A i \in DOMAIN routed :
        routed[i].ticket \in Existing /\ ticket[routed[i].ticket].createdAt = i
  /\ \A t \in Existing : \E i \in DOMAIN routed : routed[i].ticket = t
  /\ Len(routed) = Cardinality(Existing)
  /\ log \in Seq(LogType)
  /\ \A i \in DOMAIN log : log[i].ticket \in Existing

(* FromLog without its choice: the last event, if there is one, is the     *)
(* witness.                                                                *)
SettingIn(lg, t, field) == {i \in DOMAIN lg : lg[i].ticket = t /\ lg[i].change[field] # Keep}
Replays(lg, t, field, initial, value) ==
  \/ SettingIn(lg, t, field) = {} /\ value = initial
  \/ \E l \in SettingIn(lg, t, field) :
        (\A j \in SettingIn(lg, t, field) : j <= l) /\ lg[l].change[field] = value

ClosedRight(lg, t, row) ==
  row.status = "closed" =>
    \E l \in SettingIn(lg, t, "status") :
       (\A j \in SettingIn(lg, t, "status") : j <= l) /\ lg[l].by = row.closedBy

(* Agent a has, or had, ticket t. *)
HeldIn(rt, lg, t, a) ==
  \/ \E j \in DOMAIN rt : rt[j].ticket = t /\ rt[j].agent = a
  \/ \E j \in DOMAIN lg : lg[j].ticket = t /\ lg[j].change.assignee = a
Held(t, a) == HeldIn(routed, log, t, a)

AuditInv ==
  /\ \A i \in DOMAIN routed :
        LET t == routed[i].ticket
        IN  /\ Replays(log, t, "assignee", routed[i].agent, ticket[t].assignee)
            /\ Replays(log, t, "labels", {}, ticket[t].labels)
            /\ t \notin unlogged => Replays(log, t, "status", "open", ticket[t].status) /\ ClosedRight(log, t, ticket[t])
  /\ AuditPrevious

ReqInv ==
  /\ req \in [Requests -> ReqType]
  /\ \A r \in Requests : req[r].pc # "idle" =>
        /\ req[r].todo # <<>>
        /\ \A i \in DOMAIN req[r].todo : req[r].todo[i] \in Existing
        /\ req[r].by \in Agents
        /\ req[r].op = "assign" => req[r].arg \in Agents
        /\ req[r].op = "label" => req[r].arg \in Labels
        /\ req[r].op = "close" => req[r].pc = "write"
  /\ \A r \in Requests : req[r].pc = "write" =>
        /\ req[r].op = "assign" =>
             req[r].seen \in Agents \union {None} /\ Held(Current(r), req[r].seen)
        /\ req[r].op = "label" => req[r].seen \in SUBSET Labels

WkInv ==
  /\ active \subseteq Agents
  /\ changes \in 0 .. MaxMembership
  /\ wk \in [Workers -> WkType]

Inv == RowsInv /\ AuditInv /\ ReqInv /\ WkInv

(* The greatest element is the one Last chooses. *)
LEMMA LastOf ==
  ASSUME NEW S \in SUBSET Nat, NEW l \in S, \A j \in S : j <= l
  PROVE  Last(S) = l
<1>1. \A m \in S : (\A j \in S : j <= m) => m = l
  OBVIOUS
<1> QED
  BY <1>1 DEF Last

(* Replays says the same as FromLog, without a choice. *)
LEMMA ReplaysGives ==
  ASSUME log \in Seq(LogType), NEW t, NEW field, NEW initial, NEW value,
         Replays(log, t, field, initial, value)
  PROVE  value = FromLog(t, field, initial)
<1>1. Setting(t, field) \in SUBSET Nat /\ SettingIn(log, t, field) = Setting(t, field)
  BY DEF Setting, SettingIn
<1>2. CASE Setting(t, field) = {}
  BY <1>1, <1>2 DEF Replays, FromLog
<1>3. ASSUME NEW l \in Setting(t, field), \A j \in Setting(t, field) : j <= l,
             log[l].change[field] = value
      PROVE  value = FromLog(t, field, initial)
  BY <1>1, <1>3, LastOf DEF FromLog
<1> QED
  BY <1>1, <1>2, <1>3 DEF Replays

(* The invariant contains what the theorems state. *)
LEMMA InvImplies == Inv => TypeOK /\ AuditReplays /\ AuditPrevious
<1> SUFFICES ASSUME Inv PROVE TypeOK /\ AuditReplays /\ AuditPrevious
  OBVIOUS
<1>1. TypeOK
  <2>1. \A r \in Requests : req[r].pc # "idle" => Current(r) \in Existing
    <3> SUFFICES ASSUME NEW r \in Requests, req[r].pc # "idle" PROVE Current(r) \in Existing
      OBVIOUS
    <3>1. req[r].todo \in Seq(Tickets) /\ req[r].todo # <<>>
      BY DEF Inv, ReqInv, ReqType
    <3>2. 1 \in DOMAIN req[r].todo /\ Head(req[r].todo) = req[r].todo[1]
      BY <3>1
    <3> QED
      BY <3>2 DEF Inv, ReqInv, Current
  <2>2. \A r \in Requests : req[r].pc \in {"idle", "read", "write"}
    BY DEF Inv, ReqInv, ReqType
  <2> QED
    BY <2>1, <2>2 DEF Inv, RowsInv, ReqInv, WkInv, TypeOK, Existing, LogType, WkType
<1>2. AuditReplays
  <2> SUFFICES ASSUME NEW i \in DOMAIN routed, NEW t, t = routed[i].ticket
               PROVE  /\ ticket[t].assignee = FromLog(t, "assignee", routed[i].agent)
                      /\ ticket[t].labels = FromLog(t, "labels", {})
                      /\ t \notin unlogged =>
                           /\ ticket[t].status = FromLog(t, "status", "open")
                           /\ ticket[t].status = "closed" =>
                                ticket[t].closedBy = log[Last(Setting(t, "status"))].by
    BY DEF AuditReplays
  <2>1. log \in Seq(LogType)
    BY DEF Inv, RowsInv
  <2>2. /\ Replays(log, t, "assignee", routed[i].agent, ticket[t].assignee)
        /\ Replays(log, t, "labels", {}, ticket[t].labels)
        /\ t \notin unlogged => Replays(log, t, "status", "open", ticket[t].status) /\ ClosedRight(log, t, ticket[t])
    BY DEF Inv, AuditInv
  <2>3. Setting(t, "status") \in SUBSET Nat /\ SettingIn(log, t, "status") = Setting(t, "status")
    BY <2>1 DEF Setting, SettingIn
  <2>4. t \notin unlogged /\ ticket[t].status = "closed" =>
          ticket[t].closedBy = log[Last(Setting(t, "status"))].by
    BY <2>2, <2>3, LastOf DEF ClosedRight
  <2> QED
    BY <2>1, <2>2, <2>4, ReplaysGives
<1> QED
  BY <1>1, <1>2 DEF Inv, AuditInv

LEMMA InvInit == Init => Inv
<1> SUFFICES ASSUME Init PROVE Inv
  OBVIOUS
<1>1. Existing = {} /\ Cardinality({}) = 0
  BY FS_EmptySet DEF Init, Existing
<1>2. RowsInv
  BY <1>1 DEF Init, RowsInv
<1>3. AuditInv
  BY DEF Init, AuditInv, AuditPrevious
<1>4. NoRequest \in ReqType /\ NoRequest.pc = "idle"
  BY DEF NoRequest, ReqType
<1>5. ReqInv
  BY <1>4 DEF Init, ReqInv
<1>6. NoDecision \in WkType
  BY DEF Init, NoDecision, WkType
<1>7. WkInv
  BY <1>6 DEF Init, WkInv
<1> QED
  BY <1>2, <1>3, <1>5, <1>7 DEF Inv

-----------------------------------------------------------------------------
(* What a step keeps of the history. *)
Grow ==
  /\ Existing \subseteq Existing'
  /\ Len(routed) <= Len(routed')
  /\ \A t, a : Held(t, a) => Held(t, a)'

(* A step that leaves rows, events and routings alone. *)
LEMMA Still ==
  ASSUME Inv, UNCHANGED <<ticket, log, routed, unlogged>>
  PROVE  RowsInv' /\ AuditInv' /\ Grow
<1>1. Existing' = Existing /\ \A t, a : Held(t, a)' <=> Held(t, a)
  BY DEF Existing, Held, HeldIn
<1>2. Len(routed) <= Len(routed')
  BY DEF Inv, RowsInv
<1>3. RowsInv'
  BY <1>1 DEF Inv, RowsInv
<1>4. AuditInv'
  BY DEF Inv, AuditInv, AuditPrevious
<1> QED
  BY <1>1, <1>2, <1>3, <1>4 DEF Grow

(* The number of routings is a number. *)
LEMMA LenRouted == RowsInv => Len(routed) \in Nat
BY DEF RowsInv

(* A decision under way is not disturbed by what others append. *)
LEMMA WkKept ==
  ASSUME Inv, Grow, RowsInv', UNCHANGED <<active, changes, wk>>
  PROVE  WkInv'
<1>1. Len(routed) \in Nat /\ Len(routed') \in Nat /\ Len(routed) <= Len(routed')
  BY LenRouted DEF Inv, Grow, RowsInv
<1>2. ASSUME NEW w \in Workers
      PROVE  wk[w] \in WkType'
  <2>1. wk[w] \in WkType
    BY DEF Inv, WkInv
  <2> QED
    BY <1>1, <2>1 DEF WkType
<1> QED
  BY <1>2 DEF Inv, WkInv

(* A request stays right as long as the history only grows. *)
LEMMA ReqKept ==
  ASSUME Inv, Grow, UNCHANGED req
  PROVE  ReqInv'
BY DEF Inv, ReqInv, Grow, Current

(* A request may end at any point. *)
LEMMA ReqIdle ==
  ASSUME Inv, Grow, NEW r \in Requests, req' = [req EXCEPT ![r] = NoRequest]
  PROVE  ReqInv'
<1>1. NoRequest \in ReqType /\ NoRequest.pc = "idle"
  BY DEF NoRequest, ReqType
<1>2. req' \in [Requests -> ReqType]
  BY <1>1 DEF Inv, ReqInv
<1>3. \A q \in Requests : req'[q] = req[q] \/ req'[q].pc = "idle"
  BY <1>1, <1>2 DEF Inv, ReqInv
<1>4. \A q \in Requests : req'[q].pc # "idle" => req'[q] = req[q]
  BY <1>3
<1> QED
  BY <1>2, <1>4 DEF Inv, ReqInv, Grow, Current

-----------------------------------------------------------------------------
(* The log, and what it replays to, after an event. *)

(* An event that sets a field is the last one that does. *)
LEMMA SettingNew ==
  ASSUME NEW lg \in Seq(LogType), NEW e \in LogType, NEW field, e.change[field] # Keep
  PROVE  /\ Len(lg) + 1 \in SettingIn(Append(lg, e), e.ticket, field)
         /\ \A j \in SettingIn(Append(lg, e), e.ticket, field) : j <= Len(lg) + 1
         /\ Append(lg, e)[Len(lg) + 1] = e
<1>1. /\ DOMAIN Append(lg, e) = 1 .. Len(lg) + 1 /\ DOMAIN lg = 1 .. Len(lg) /\ Len(lg) \in Nat
      /\ \A i \in DOMAIN lg : Append(lg, e)[i] = lg[i]
      /\ Append(lg, e)[Len(lg) + 1] = e
  BY Appended
<1> QED
  BY <1>1 DEF SettingIn

(* Appending an event replays one field of one ticket. *)
LEMMA ReplaysField ==
  ASSUME NEW lg \in Seq(LogType), NEW e \in LogType, NEW t, NEW field, NEW initial, NEW old,
         NEW new, new = IF e.ticket = t THEN Given(e.change[field], old) ELSE old,
         Replays(lg, t, field, initial, old)
  PROVE  Replays(Append(lg, e), t, field, initial, new)
<1>1. CASE e.ticket # t \/ e.change[field] = Keep
  <2>1. new = old
    BY <1>1 DEF Given
  <2>2. /\ SettingIn(Append(lg, e), t, field) = SettingIn(lg, t, field)
        /\ \A l \in SettingIn(lg, t, field) : Append(lg, e)[l] = lg[l]
    <3>1. /\ DOMAIN Append(lg, e) = 1 .. Len(lg) + 1 /\ DOMAIN lg = 1 .. Len(lg)
          /\ Len(lg) \in Nat
          /\ \A l \in DOMAIN lg : Append(lg, e)[l] = lg[l]
          /\ Append(lg, e)[Len(lg) + 1] = e
      BY Appended
    <3> QED
      BY <1>1, <3>1 DEF SettingIn
  <2> QED
    BY <2>1, <2>2 DEF Replays
<1>2. CASE e.ticket = t /\ e.change[field] # Keep
  <2>1. new = e.change[field]
    BY <1>2 DEF Given
  <2> QED
    BY <1>2, <2>1, SettingNew DEF Replays
<1> QED
  BY <1>1, <1>2

(* The transaction of patch and assign. *)
LEMMA ApplyStep ==
  ASSUME Inv, NEW t \in Existing, NEW c \in ChangeSet, NEW by \in Agents \union {None},
         NEW previous \in Agents \union {None, Keep},
         c.status = "closed" => by # None,
         previous # Keep => Held(t, previous),
         Apply(t, c, by, previous)
  PROVE  RowsInv' /\ AuditInv' /\ Grow
<1> DEFINE e == [ticket |-> t, by |-> by, change |-> c, previous |-> previous]
<1>1. /\ t \in Tickets /\ ticket[t] \in Row /\ ticket \in [Tickets -> Row \union {None}]
      /\ log \in Seq(LogType) /\ routed \in Seq(RoutedType)
  BY DEF Inv, RowsInv, Existing
<1>2. e \in LogType /\ log' = Append(log, e) /\ e.ticket = t /\ e.change = c /\ e.by = by
  BY <1>1 DEF Apply, Logged, LogType
<1> HIDE DEF e
<1>3. routed' = routed /\ ticket' = [ticket EXCEPT ![t] = Changed(ticket[t], c, by)]
  BY DEF Apply
<1>4. /\ Changed(ticket[t], c, by) \in Row
      /\ Changed(ticket[t], c, by).createdAt = ticket[t].createdAt
      /\ Changed(ticket[t], c, by).assignee = Given(c.assignee, ticket[t].assignee)
      /\ Changed(ticket[t], c, by).labels = Given(c.labels, ticket[t].labels)
      /\ Changed(ticket[t], c, by).status = Given(c.status, ticket[t].status)
      /\ Changed(ticket[t], c, by).closedBy =
           IF c.status = "closed" /\ by # None THEN by ELSE ticket[t].closedBy
  BY <1>1 DEF Changed, Given, Row, ChangeSet
<1>5. /\ ticket' \in [Tickets -> Row \union {None}]
      /\ ticket'[t] = Changed(ticket[t], c, by)
      /\ \A s \in Tickets \ {t} : ticket'[s] = ticket[s]
  BY <1>1, <1>3, <1>4
<1>6. Existing' = Existing
  BY <1>1, <1>4, <1>5 DEF Existing
<1>7. /\ log' \in Seq(LogType) /\ DOMAIN log' = 1 .. Len(log) + 1 /\ DOMAIN log = 1 .. Len(log)
      /\ Len(log) \in Nat /\ \A i \in DOMAIN log : log'[i] = log[i]
      /\ log'[Len(log) + 1] = e
  BY <1>1, <1>2, Appended
<1>8. RowsInv'
  <2>1. \A i \in DOMAIN routed : /\ routed[i].ticket \in Tickets
                                 /\ ticket'[routed[i].ticket].createdAt = i
    <3> SUFFICES ASSUME NEW i \in DOMAIN routed
                 PROVE  /\ routed[i].ticket \in Tickets
                        /\ ticket'[routed[i].ticket].createdAt = i
      OBVIOUS
    <3>1. routed[i].ticket \in Tickets /\ ticket[routed[i].ticket].createdAt = i
      BY DEF Inv, RowsInv, Existing
    <3> QED
      BY <1>4, <1>5, <3>1
  <2>2. \A i \in DOMAIN log' : log'[i].ticket \in Existing
    BY <1>2, <1>7 DEF Inv, RowsInv
  <2> QED
    BY <1>3, <1>5, <1>6, <1>7, <2>1, <2>2 DEF Inv, RowsInv
<1>9. Grow
  <2>1. \A s, a : Held(s, a) => Held(s, a)'
    BY <1>3, <1>7 DEF Held, HeldIn
  <2>2. Len(routed) <= Len(routed')
    BY <1>1, <1>3
  <2> QED
    BY <1>6, <2>1, <2>2 DEF Grow
<1>10. AuditPrevious'
  <2> SUFFICES ASSUME NEW i \in DOMAIN log', log'[i].previous # Keep
               PROVE  \/ \E j \in DOMAIN routed' : routed'[j].ticket = log'[i].ticket
                                                   /\ routed'[j].agent = log'[i].previous
                      \/ \E j \in 1 .. i - 1 : log'[j].ticket = log'[i].ticket
                                               /\ log'[j].change.assignee = log'[i].previous
    BY DEF AuditPrevious
  <2>1. CASE i \in DOMAIN log
    <3>1. log'[i] = log[i] /\ \A j \in 1 .. i - 1 : log'[j] = log[j]
      BY <1>7, <2>1
    <3> QED
      BY <1>3, <2>1, <3>1 DEF Inv, AuditInv, AuditPrevious
  <2>2. CASE i = Len(log) + 1
    <3>1. log'[i].ticket = t /\ log'[i].previous = previous /\ previous # Keep
      BY <1>7, <2>2 DEF e
    <3>2. Held(t, previous)
      BY <3>1
    <3>3. DOMAIN log = 1 .. i - 1
      BY <1>7, <2>2
    <3> QED
      BY <1>3, <1>7, <3>1, <3>2, <3>3 DEF Held, HeldIn
  <2> QED
    BY <1>7, <2>1, <2>2
<1>11. ASSUME NEW i \in DOMAIN routed, NEW s, s = routed[i].ticket
       PROVE  /\ Replays(log', s, "assignee", routed[i].agent, ticket'[s].assignee)
              /\ Replays(log', s, "labels", {}, ticket'[s].labels)
              /\ s \notin unlogged' => Replays(log', s, "status", "open", ticket'[s].status) /\ ClosedRight(log', s, ticket'[s])
  <2>1. /\ s \in Tickets
        /\ Replays(log, s, "assignee", routed[i].agent, ticket[s].assignee)
        /\ Replays(log, s, "labels", {}, ticket[s].labels)
        /\ s \notin unlogged => Replays(log, s, "status", "open", ticket[s].status) /\ ClosedRight(log, s, ticket[s])
    BY <1>11 DEF Inv, AuditInv, RowsInv, Existing
  <2>2. /\ ticket'[s].assignee = IF e.ticket = s THEN Given(e.change["assignee"], ticket[s].assignee) ELSE ticket[s].assignee
        /\ ticket'[s].labels = IF e.ticket = s THEN Given(e.change["labels"], ticket[s].labels) ELSE ticket[s].labels
        /\ ticket'[s].status = IF e.ticket = s THEN Given(e.change["status"], ticket[s].status) ELSE ticket[s].status
    BY <1>2, <1>4, <1>5, <2>1
  <2>3. Replays(log', s, "assignee", routed[i].agent, ticket'[s].assignee)
    BY <1>1, <1>2, <2>1, <2>2, ReplaysField
  <2>4. Replays(log', s, "labels", {}, ticket'[s].labels)
    BY <1>1, <1>2, <2>1, <2>2, ReplaysField
  <2>5. CASE s # t \/ c.status = Keep
    <3>1. s \notin unlogged' => s \notin unlogged
      BY <2>5 DEF Apply
    <3>2. s \notin unlogged => Replays(log', s, "status", "open", ticket'[s].status)
      BY <1>1, <1>2, <2>1, <2>2, ReplaysField
    <3>3. ticket'[s].status = ticket[s].status /\ ticket'[s].closedBy = ticket[s].closedBy
      BY <1>1, <1>4, <1>5, <2>1, <2>5 DEF Given, Statuses
    <3>4. /\ SettingIn(log', s, "status") = SettingIn(log, s, "status")
          /\ \A l \in SettingIn(log, s, "status") : log'[l] = log[l]
      BY <1>2, <1>7, <2>5 DEF SettingIn
    <3>5. s \notin unlogged => ClosedRight(log', s, ticket'[s])
      BY <2>1, <3>3, <3>4 DEF ClosedRight
    <3> QED
      BY <2>3, <2>4, <3>1, <3>2, <3>5
  <2>6. CASE s = t /\ c.status # Keep
    <3>1. ticket'[s].status = c.status /\ e.change["status"] = c.status
      BY <1>2, <1>4, <1>5, <2>6 DEF Given
    <3>2. /\ Len(log) + 1 \in SettingIn(log', s, "status")
          /\ \A j \in SettingIn(log', s, "status") : j <= Len(log) + 1
          /\ log'[Len(log) + 1] = e
      BY <1>1, <1>2, <2>6, <3>1, SettingNew
    <3>3. ticket'[s].status = "closed" => ticket'[s].closedBy = e.by
      BY <1>2, <1>4, <1>5, <2>6, <3>1
    <3>4. ClosedRight(log', s, ticket'[s])
      BY <3>2, <3>3 DEF ClosedRight
    <3>5. Replays(log', s, "status", "open", ticket'[s].status)
      BY <1>2, <3>1, <3>2 DEF Replays
    <3> QED
      BY <2>3, <2>4, <3>4, <3>5
  <2> QED
    BY <2>5, <2>6
<1>12. AuditInv'
  BY <1>3, <1>10, <1>11 DEF AuditInv
<1> QED
  BY <1>8, <1>9, <1>12

-----------------------------------------------------------------------------
(* One step at a time. *)

(* The changes agents ask for. *)
LEMMA ChangesTyped ==
  /\ \A s \in Statuses : StatusTo(s) \in ChangeSet /\ StatusTo(s).status = s
  /\ \A a \in Agents \union {None} : AssigneeTo(a) \in ChangeSet /\ AssigneeTo(a).status = Keep
  /\ \A ls \in SUBSET Labels : LabelsTo(ls) \in ChangeSet /\ LabelsTo(ls).status = Keep
BY DEF StatusTo, AssigneeTo, LabelsTo, NoChange, ChangeSet

LEMMA PatchStep ==
  ASSUME Inv, NEW t, NEW c \in ChangeSet, NEW by \in Agents \union {None},
         c.status = "closed" => by # None, Patch(t, c, by)
  PROVE  Inv'
<1>1. RowsInv' /\ AuditInv' /\ Grow
  BY ApplyStep DEF Patch
<1>2. ReqInv' /\ WkInv'
  BY <1>1, ReqKept, WkKept DEF Patch, Apply
<1> QED
  BY <1>1, <1>2 DEF Inv

LEMMA MarkStep ==
  ASSUME Inv, NEW t, NEW by \in Agents, MarkNotCustomer(t, by)
  PROVE  Inv'
<1>1. /\ t \in Tickets /\ t \in Existing /\ ticket[t] \in Row
      /\ ticket \in [Tickets -> Row \union {None}]
      /\ log' = log /\ routed' = routed /\ unlogged' = unlogged \union {t}
  BY DEF Inv, RowsInv, Existing, MarkNotCustomer
<1>2. ticket' = [ticket EXCEPT ![t] = [ticket[t] EXCEPT !.status = "closed", !.closedBy = by]]
  BY <1>1 DEF MarkNotCustomer, Row
<1>3. /\ ticket' \in [Tickets -> Row \union {None}] /\ ticket'[t] \in Row
      /\ ticket'[t].createdAt = ticket[t].createdAt
      /\ ticket'[t].assignee = ticket[t].assignee /\ ticket'[t].labels = ticket[t].labels
      /\ \A s \in Tickets \ {t} : ticket'[s] = ticket[s]
  BY <1>1, <1>2 DEF Row, Statuses
<1>4. Existing' = Existing
  BY <1>1, <1>3 DEF Existing
<1>5. \A i \in DOMAIN routed : routed[i].ticket \in Tickets
  BY DEF Inv, RowsInv, Existing
<1>6. \A i \in DOMAIN routed : /\ ticket'[routed[i].ticket].createdAt = i
                               /\ ticket'[routed[i].ticket].assignee = ticket[routed[i].ticket].assignee
                               /\ ticket'[routed[i].ticket].labels = ticket[routed[i].ticket].labels
  BY <1>3, <1>5 DEF Inv, RowsInv
<1>7. RowsInv'
  BY <1>1, <1>3, <1>4, <1>6 DEF Inv, RowsInv
<1>8. \A i \in DOMAIN routed : routed[i].ticket \notin unlogged' =>
        routed[i].ticket \notin unlogged /\ ticket'[routed[i].ticket] = ticket[routed[i].ticket]
  BY <1>1, <1>3, <1>5
<1>9. AuditInv'
  BY <1>1, <1>6, <1>8 DEF Inv, AuditInv, AuditPrevious
<1>10. Grow
  <2>1. \A s, a : Held(s, a) => Held(s, a)'
    BY <1>1 DEF Held, HeldIn
  <2>2. Len(routed) <= Len(routed')
    BY <1>1, LenRouted DEF Inv
  <2> QED
    BY <1>4, <2>1, <2>2 DEF Grow
<1>11. ReqInv' /\ WkInv'
  BY <1>7, <1>10, ReqKept, WkKept DEF MarkNotCustomer
<1> QED
  BY <1>7, <1>9, <1>11 DEF Inv

(* A ticket row is created with whom routing decided on. *)
LEMMA CreateStep ==
  ASSUME Inv, NEW w \in Workers, NEW t \in Tickets, Create(w, t)
  PROVE  Inv'
<1> DEFINE new == [ticket |-> t, agent |-> wk[w].pick, strategy |-> wk[w].strategy,
                   seen |-> wk[w].seen, counted |-> wk[w].counted]
           row == NewTicket(wk[w].pick)
<1>1. /\ ticket \in [Tickets -> Row \union {None}] /\ ticket[t] = None
      /\ routed \in Seq(RoutedType) /\ Len(routed) \in Nat
      /\ Len(routed) = Cardinality(Existing) /\ wk[w] \in WkType /\ log \in Seq(LogType)
      /\ log' = log /\ unlogged' = unlogged
  BY LenRouted DEF Inv, RowsInv, WkInv, Create, historyVars
<1>2. new \in RoutedType /\ new.ticket = t /\ new.agent = wk[w].pick
      /\ routed' = Append(routed, new) /\ ticket' = [ticket EXCEPT ![t] = row]
  BY <1>1 DEF RoutedType, WkType, Create
<1>3. /\ routed' \in Seq(RoutedType) /\ Len(routed') = Len(routed) + 1
      /\ DOMAIN routed' = 1 .. Len(routed) + 1 /\ DOMAIN routed = 1 .. Len(routed)
      /\ \A i \in DOMAIN routed : routed'[i] = routed[i]
      /\ routed'[Len(routed) + 1] = new
  BY <1>1, <1>2, Appended
<1>4. Cardinality(Existing \union {t}) = Len(routed) + 1
      /\ Len(routed) + 1 \in 1 .. Cardinality(Tickets)
  <2>1. Existing \in SUBSET Tickets /\ Existing \union {t} \in SUBSET Tickets /\ t \notin Existing
    BY <1>1 DEF Existing
  <2>2. IsFiniteSet(Existing)
    BY <2>1, FS_Subset
  <2>3. IsFiniteSet(Existing \union {t}) /\ Cardinality(Existing \union {t}) = Cardinality(Existing) + 1
    BY <2>1, <2>2, FS_AddElement
  <2>4. Cardinality(Existing \union {t}) <= Cardinality(Tickets) /\ Cardinality(Tickets) \in Nat
    BY <2>1, FS_Subset, FS_CardinalityType
  <2> QED
    BY <1>1, <2>3, <2>4
<1>5. /\ row \in Row /\ row # None /\ row.createdAt = Len(routed) + 1 /\ row.assignee = wk[w].pick
      /\ row.labels = {} /\ row.status = "open"
  BY <1>1, <1>4 DEF NewTicket, Row, WkType, Statuses
<1> HIDE DEF new, row
<1>6. /\ ticket' \in [Tickets -> Row \union {None}] /\ ticket'[t] = row
      /\ \A s \in Tickets \ {t} : ticket'[s] = ticket[s]
  BY <1>1, <1>2, <1>5
<1>7. Existing' = Existing \union {t} /\ t \notin Existing /\ Existing \subseteq Tickets
  BY <1>1, <1>5, <1>6 DEF Existing
<1>8. \A i \in DOMAIN routed : /\ routed[i].ticket \in Tickets \ {t}
                               /\ ticket'[routed[i].ticket] = ticket[routed[i].ticket]
  BY <1>6, <1>7 DEF Inv, RowsInv
<1>9. RowsInv'
  <2>1. \A i \in DOMAIN routed' : routed'[i].ticket \in Existing'
                                  /\ ticket'[routed'[i].ticket].createdAt = i
    <3>1. ASSUME NEW i \in DOMAIN routed
          PROVE  routed'[i].ticket \in Existing' /\ ticket'[routed'[i].ticket].createdAt = i
      BY <1>3, <1>7, <1>8 DEF Inv, RowsInv
    <3> QED
      BY <1>2, <1>3, <1>5, <1>6, <1>7, <3>1
  <2>2. \A s \in Existing' : \E i \in DOMAIN routed' : routed'[i].ticket = s
    <3> SUFFICES ASSUME NEW s \in Existing' PROVE \E i \in DOMAIN routed' : routed'[i].ticket = s
      OBVIOUS
    <3>1. CASE s \in Existing
      <4>1. PICK i \in DOMAIN routed : routed[i].ticket = s
        BY <3>1 DEF Inv, RowsInv
      <4> QED
        BY <1>3, <4>1
    <3>2. CASE s = t
      BY <1>1, <1>2, <1>3, <3>2
    <3> QED
      BY <1>7, <3>1, <3>2
  <2>3. \A i \in DOMAIN log' : log'[i].ticket \in Existing'
    BY <1>1, <1>7 DEF Inv, RowsInv
  <2> QED
    BY <1>1, <1>3, <1>4, <1>6, <1>7, <2>1, <2>2, <2>3 DEF RowsInv
<1>10. ASSUME NEW i \in DOMAIN routed', NEW s, s = routed'[i].ticket
       PROVE  /\ Replays(log', s, "assignee", routed'[i].agent, ticket'[s].assignee)
              /\ Replays(log', s, "labels", {}, ticket'[s].labels)
              /\ s \notin unlogged' => /\ Replays(log', s, "status", "open", ticket'[s].status)
                                       /\ ClosedRight(log', s, ticket'[s])
  <2>1. CASE i \in DOMAIN routed
    <3>1. s = routed[i].ticket /\ routed'[i] = routed[i] /\ ticket'[s] = ticket[s]
      BY <1>3, <1>8, <1>10, <2>1
    <3> QED
      BY <1>1, <2>1, <3>1 DEF Inv, AuditInv
  <2>2. CASE i = Len(routed) + 1
    <3>1. s = t /\ routed'[i].agent = wk[w].pick /\ ticket'[s] = row
      BY <1>2, <1>3, <1>6, <1>10, <2>2
    <3>2. \A field : SettingIn(log', s, field) = {}
      BY <1>1, <1>7, <3>1 DEF Inv, RowsInv, SettingIn
    <3>3. ClosedRight(log', s, ticket'[s])
      BY <1>5, <3>1 DEF ClosedRight
    <3> QED
      BY <1>5, <3>1, <3>2, <3>3 DEF Replays
  <2> QED
    BY <1>3, <2>1, <2>2
<1>11. Grow
  <2>1. \A s, a : Held(s, a) => Held(s, a)'
    BY <1>1, <1>3 DEF Held, HeldIn
  <2> QED
    BY <1>1, <1>3, <1>7, <2>1 DEF Grow
<1>12. AuditPrevious'
  <2> SUFFICES ASSUME NEW i \in DOMAIN log, log[i].previous # Keep
               PROVE  \/ \E j \in DOMAIN routed' : routed'[j].ticket = log[i].ticket
                                                   /\ routed'[j].agent = log[i].previous
                      \/ \E j \in 1 .. i - 1 : log[j].ticket = log[i].ticket
                                               /\ log[j].change.assignee = log[i].previous
    BY <1>1 DEF AuditPrevious
  <2>1. \A j \in DOMAIN routed : j \in DOMAIN routed' /\ routed'[j] = routed[j]
    BY <1>3
  <2> QED
    BY <2>1 DEF Inv, AuditInv, AuditPrevious
<1>13. AuditInv'
  BY <1>10, <1>12 DEF AuditInv
<1>14. ReqInv'
  BY <1>11, ReqKept DEF Create
<1>15. WkInv'
  <2>1. /\ wk' = [wk EXCEPT ![w] = NoDecision] /\ active' = active /\ changes' = changes
    BY DEF Create
  <2>2. NoDecision \in WkType' /\ \A v \in Workers : wk[v] \in WkType'
    BY <1>1, <1>3 DEF Inv, WkInv, WkType, NoDecision
  <2>3. wk' \in [Workers -> WkType']
    BY <2>1, <2>2 DEF Inv, WkInv
  <2> QED
    BY <2>1, <2>3 DEF Inv, WkInv
<1> QED
  BY <1>9, <1>13, <1>14, <1>15 DEF Inv

(* Routing picks an agent or nobody. *)
LEMMA DecisionTyped ==
  ASSUME NEW strategy, NEW members \in SUBSET Agents, NEW default \in Agents \union {None}
  PROVE  DecideAssignment(strategy, ticket, members, default) \subseteq Agents \union {None}
BY DEF DecideAssignment, LeastBusy, NextInTurn, Least

(* Routing before the row is created; the team changes. *)
LEMMA RoutingStep ==
  ASSUME Inv, NEW w \in Workers,
         \/ \E strategy \in Strategies, default \in Defaults : FindMembers(w, strategy, default)
         \/ Count(w)
         \/ Abandon(w)
  PROVE  Inv'
<1>1. UNCHANGED <<ticket, log, routed, unlogged, active, changes, req>>
  BY DEF FindMembers, Count, Abandon, historyVars
<1>2. RowsInv' /\ AuditInv' /\ ReqInv' /\ Grow
  BY <1>1, Still, ReqKept
<1>3. Len(routed) \in Nat /\ wk[w] \in WkType /\ active \in SUBSET Agents
  BY LenRouted DEF Inv, WkInv
<1>4. \E x \in WkType : wk' = [wk EXCEPT ![w] = x]
  <2>1. NoDecision \in WkType
    BY <1>3 DEF NoDecision, WkType
  <2>2. ASSUME NEW strategy \in Strategies, NEW default \in Defaults,
               FindMembers(w, strategy, default)
        PROVE  \E x \in WkType : wk' = [wk EXCEPT ![w] = x]
    <3>1. [NoDecision EXCEPT !.pc = "count", !.strategy = strategy, !.default = default,
                             !.members = active, !.seen = Len(routed)] \in WkType
      <4>1. strategy \in {"manual", "round_robin", "least_busy"}
            /\ default \in Agents \union {None} /\ Len(routed) \in 0 .. Len(routed)
        BY <1>3
      <4>2. \A x \in WkType : [[x EXCEPT !.pc = "count"] EXCEPT !.strategy = strategy] \in WkType
        BY <4>1 DEF WkType
      <4>3. \A x \in WkType : [[x EXCEPT !.default = default] EXCEPT !.members = active] \in WkType
        BY <1>3, <4>1 DEF WkType
      <4>4. \A x \in WkType : [x EXCEPT !.seen = Len(routed)] \in WkType
        BY <4>1 DEF WkType
      <4> QED
        BY ONLY <2>1, <4>2, <4>3, <4>4
    <3> QED
      BY <2>2, <3>1 DEF FindMembers
  <2>3. CASE Count(w)
    <3>1. PICK a \in DecideAssignment(wk[w].strategy, ticket, wk[w].members, wk[w].default) :
            wk' = [wk EXCEPT ![w] = [wk[w] EXCEPT !.pc = "create", !.pick = a,
                                     !.counted = Len(routed), !.default = None, !.members = {}]]
      BY <1>3, <2>3 DEF Count, Inv, WkInv
    <3>2. a \in Agents \union {None}
      BY <1>3, DecisionTyped DEF WkType
    <3>3. [wk[w] EXCEPT !.pc = "create", !.pick = a, !.counted = Len(routed), !.default = None,
                        !.members = {}] \in WkType
      <4>1. Len(routed) \in 0 .. Len(routed)
        BY <1>3
      <4>2. \A x \in WkType : [[x EXCEPT !.pc = "create"] EXCEPT !.pick = a] \in WkType
        BY <3>2 DEF WkType
      <4>3. \A x \in WkType : [[x EXCEPT !.counted = Len(routed)] EXCEPT !.default = None] \in WkType
        BY <4>1 DEF WkType
      <4>4. \A x \in WkType : [x EXCEPT !.members = {}] \in WkType
        BY DEF WkType
      <4> QED
        BY ONLY <1>3, <4>2, <4>3, <4>4
    <3> QED
      BY <3>1, <3>3
  <2>4. CASE Abandon(w)
    BY <2>1, <2>4 DEF Abandon
  <2> QED
    BY <2>2, <2>3, <2>4
<1>5. wk' \in [Workers -> WkType]
  BY <1>4 DEF Inv, WkInv
<1>6. WkType' = WkType
  BY <1>1 DEF WkType
<1>7. WkInv'
  BY <1>1, <1>5, <1>6 DEF Inv, WkInv
<1> QED
  BY <1>2, <1>7 DEF Inv

LEMMA MembershipStep ==
  ASSUME Inv, NEW a \in Agents, Membership(a)
  PROVE  Inv'
<1>1. UNCHANGED <<ticket, log, routed, unlogged, wk, req>>
  BY DEF Membership
<1>2. RowsInv' /\ AuditInv' /\ ReqInv' /\ Grow
  BY <1>1, Still, ReqKept
<1>3. WkInv'
  BY <1>1 DEF Membership, Inv, WkInv, WkType
<1> QED
  BY <1>2, <1>3 DEF Inv

(* A request takes a new state q; the others are untouched. *)
LEMMA ReqSet ==
  ASSUME Inv, Grow, NEW r \in Requests, NEW q \in ReqType, req' = [req EXCEPT ![r] = q],
         q.pc # "idle" =>
           /\ q.todo # <<>>
           /\ \A i \in DOMAIN q.todo : q.todo[i] \in Existing'
           /\ q.by \in Agents
           /\ q.op = "assign" => q.arg \in Agents
           /\ q.op = "label" => q.arg \in Labels
           /\ q.op = "close" => q.pc = "write",
         q.pc = "write" =>
           /\ q.op = "assign" => q.seen \in Agents \union {None} /\ HeldIn(routed', log', Head(q.todo), q.seen)
           /\ q.op = "label" => q.seen \in SUBSET Labels
  PROVE  ReqInv'
<1>1. req' \in [Requests -> ReqType] /\ req'[r] = q /\ \A p \in Requests \ {r} : req'[p] = req[p]
  BY DEF Inv, ReqInv
<1>2. \A p \in Requests : req'[p].pc # "idle" =>
        /\ req'[p].todo # <<>>
        /\ \A i \in DOMAIN req'[p].todo : req'[p].todo[i] \in Existing'
        /\ req'[p].by \in Agents
        /\ req'[p].op = "assign" => req'[p].arg \in Agents
        /\ req'[p].op = "label" => req'[p].arg \in Labels
        /\ req'[p].op = "close" => req'[p].pc = "write"
  BY <1>1 DEF Inv, ReqInv, Grow
<1>3. \A p \in Requests : req'[p].pc = "write" =>
        /\ req'[p].op = "assign" =>
             req'[p].seen \in Agents \union {None}
             /\ HeldIn(routed', log', Head(req'[p].todo), req'[p].seen)
        /\ req'[p].op = "label" => req'[p].seen \in SUBSET Labels
  BY <1>1 DEF Inv, ReqInv, Grow, Current, Held
<1> QED
  BY <1>1, <1>2, <1>3 DEF ReqInv, Held, Current

(* The first ticket of a bulk request, and those after it. *)
LEMMA HeadTail ==
  ASSUME NEW S, NEW s \in Seq(S), s # <<>>
  PROVE  /\ 1 \in DOMAIN s /\ Head(s) = s[1] /\ Head(s) \in S /\ Tail(s) \in Seq(S)
         /\ \A i \in DOMAIN Tail(s) : i + 1 \in DOMAIN s /\ Tail(s)[i] = s[i + 1]
OBVIOUS

LEMMA BeginStep ==
  ASSUME Inv, NEW r \in Requests, NEW op \in {"assign", "label", "close"}, NEW todo \in Lists,
         NEW arg \in Agents \union Labels \union {None}, NEW by \in Operators,
         op = "assign" => arg \in Agents, op = "label" => arg \in Labels,
         Begin(r, op, todo, arg, by)
  PROVE  Inv'
<1> DEFINE q == [pc |-> FirstStep(op), op |-> op, todo |-> todo, arg |-> arg, by |-> by,
                 seen |-> Keep]
<1>1. UNCHANGED <<ticket, log, routed, unlogged, active, changes, wk>>
  BY DEF Begin, historyVars
<1>2. RowsInv' /\ AuditInv' /\ Grow /\ WkInv'
  BY <1>1, Still, WkKept
<1>3. todo \in Seq(Tickets) /\ todo # <<>> /\ \A i \in DOMAIN todo : todo[i] \in Existing'
  <2>1. Existing' = Existing /\ Existing \subseteq Tickets
    BY <1>1 DEF Existing
  <2>2. \/ \E t \in Existing : todo = <<t>>
        \/ \E t, u \in Existing : todo = <<t, u>>
    BY DEF Lists
  <2>3. ASSUME NEW t \in Existing, todo = <<t>>
        PROVE  todo \in Seq(Tickets) /\ todo # <<>> /\ \A i \in DOMAIN todo : todo[i] \in Existing'
    BY <2>1, <2>3
  <2>4. ASSUME NEW t \in Existing, NEW u \in Existing, todo = <<t, u>>
        PROVE  todo \in Seq(Tickets) /\ todo # <<>> /\ \A i \in DOMAIN todo : todo[i] \in Existing'
    BY <2>1, <2>4
  <2> QED
    BY <2>2, <2>3, <2>4
<1>4. q \in ReqType /\ (op # "close" => q.pc = "read") /\ (op = "close" => q.pc = "write")
  BY <1>3 DEF ReqType, FirstStep
<1>5. /\ req' = [req EXCEPT ![r] = q]
      /\ q.op = op /\ q.todo = todo /\ q.arg = arg /\ q.by = by
  BY DEF Begin
<1> HIDE DEF q
<1>6. ReqInv'
  BY <1>2, <1>3, <1>4, <1>5, ReqSet
<1> QED
  BY <1>2, <1>6 DEF Inv

(* What assign reads is who holds the ticket. *)
LEMMA AssigneeHeld ==
  ASSUME Inv, NEW t \in Existing
  PROVE  Held(t, ticket[t].assignee)
<1>1. PICK i \in DOMAIN routed : routed[i].ticket = t
  BY DEF Inv, RowsInv
<1>2. Replays(log, t, "assignee", routed[i].agent, ticket[t].assignee)
  BY <1>1 DEF Inv, AuditInv
<1> QED
  BY <1>1, <1>2 DEF Replays, SettingIn, Held, HeldIn

LEMMA ReadStep ==
  ASSUME Inv, NEW r \in Requests, Read(r)
  PROVE  Inv'
<1> DEFINE t == Current(r)
           seen == IF req[r].op = "assign" THEN ticket[t].assignee ELSE ticket[t].labels
           q == [[req[r] EXCEPT !.pc = "write"] EXCEPT !.seen = seen]
<1>1. UNCHANGED <<ticket, log, routed, unlogged, active, changes, wk>>
  BY DEF Read, historyVars
<1>2. RowsInv' /\ AuditInv' /\ Grow /\ WkInv'
  BY <1>1, Still, WkKept
<1>3. /\ req[r] \in ReqType /\ req[r].pc = "read" /\ req[r].todo \in Seq(Tickets)
      /\ req[r].todo # <<>> /\ req[r].by \in Agents /\ req[r].op # "close"
      /\ \A i \in DOMAIN req[r].todo : req[r].todo[i] \in Existing
      /\ req[r].op = "assign" => req[r].arg \in Agents
      /\ req[r].op = "label" => req[r].arg \in Labels
  BY DEF Read, Inv, ReqInv, ReqType
<1>4. t \in Existing /\ ticket[t] \in Row
  BY <1>3, HeadTail DEF Current, Inv, RowsInv, Existing
<1>5. /\ req[r].op = "assign" => seen \in Agents \union {None} /\ Held(t, seen)
      /\ req[r].op # "assign" => seen \in SUBSET Labels
  BY <1>4, AssigneeHeld DEF Row
<1>6. seen \in Agents \union {None, Keep} \union SUBSET Labels
  BY <1>5
<1>7. /\ q \in ReqType /\ q.pc = "write" /\ q.seen = seen /\ q.todo = req[r].todo
      /\ q.by = req[r].by /\ q.op = req[r].op /\ q.arg = req[r].arg
  BY <1>3, <1>6 DEF ReqType
<1>8. req' = [req EXCEPT ![r] = q]
  BY DEF Read
<1>9. t = Head(req[r].todo)
  BY DEF Current
<1> HIDE DEF q, seen, t
<1>10. /\ q.todo # <<>>
       /\ \A i \in DOMAIN q.todo : q.todo[i] \in Existing'
       /\ q.by \in Agents
       /\ q.op = "assign" => q.arg \in Agents
       /\ q.op = "label" => q.arg \in Labels
       /\ q.op = "close" => q.pc = "write"
  BY <1>2, <1>3, <1>7 DEF Grow
<1>11. /\ q.op = "assign" => q.seen \in Agents \union {None} /\ HeldIn(routed', log', Head(q.todo), q.seen)
       /\ q.op = "label" => q.seen \in SUBSET Labels
  <2>1. q.op = "assign" => Held(Head(q.todo), q.seen)
    BY <1>5, <1>7, <1>9
  <2>2. Held(Head(q.todo), q.seen) => HeldIn(routed', log', Head(q.todo), q.seen)
    BY <1>1 DEF Held
  <2> QED
    BY <1>5, <1>7, <2>1, <2>2
<1>12. ReqInv'
  BY <1>2, <1>7, <1>8, <1>10, <1>11, ReqSet
<1> QED
  BY <1>2, <1>12 DEF Inv

(* What a request is about to write has a type. *)
LEMMA WriteTyped ==
  ASSUME Inv, NEW r \in Requests, Write(r)
  PROVE  Current(r) \in Existing /\ Change(r) \in ChangeSet
<1>1. /\ req[r] \in ReqType /\ req[r].pc = "write" /\ req[r].todo \in Seq(Tickets)
      /\ req[r].todo # <<>> /\ req[r].by \in Agents
      /\ \A i \in DOMAIN req[r].todo : req[r].todo[i] \in Existing
      /\ req[r].op \in {"assign", "label", "close"}
      /\ req[r].op = "assign" => /\ req[r].arg \in Agents /\ req[r].seen \in Agents \union {None}
                                 /\ Held(Current(r), req[r].seen)
      /\ req[r].op = "label" => req[r].arg \in Labels /\ req[r].seen \in SUBSET Labels
  BY DEF Write, Inv, ReqInv, ReqType
<1>2. /\ Current(r) \in Existing
      /\ Tail(req[r].todo) \in Seq(Tickets)
      /\ \A i \in DOMAIN Tail(req[r].todo) : Tail(req[r].todo)[i] \in Existing
  BY <1>1, HeadTail DEF Current
<1> DEFINE c == Change(r)
<1>3. c \in ChangeSet
  <2>1. CASE req[r].op = "assign"
    BY <1>1, <2>1, ChangesTyped DEF Change
  <2>2. CASE req[r].op = "label"
    <3>1. req[r].seen \union {req[r].arg} \in SUBSET Labels
      BY <1>1, <2>2
    <3> QED
      BY <2>2, <3>1, ChangesTyped DEF Change
  <2>3. CASE req[r].op = "close"
    BY <2>3, ChangesTyped DEF Change, Statuses
  <2> QED
    BY <1>1, <2>1, <2>2, <2>3
<1> QED
  BY <1>2, <1>3

LEMMA WriteStep ==
  ASSUME Inv, NEW r \in Requests, Write(r)
  PROVE  Inv'
<1>1. /\ req[r] \in ReqType /\ req[r].pc = "write" /\ req[r].todo \in Seq(Tickets)
      /\ req[r].todo # <<>> /\ req[r].by \in Agents
      /\ \A i \in DOMAIN req[r].todo : req[r].todo[i] \in Existing
      /\ req[r].op \in {"assign", "label", "close"}
      /\ req[r].op = "assign" => /\ req[r].arg \in Agents /\ req[r].seen \in Agents \union {None}
                                 /\ Held(Current(r), req[r].seen)
      /\ req[r].op = "label" => req[r].arg \in Labels /\ req[r].seen \in SUBSET Labels
  BY DEF Write, Inv, ReqInv, ReqType
<1>2. /\ Current(r) \in Existing
      /\ Tail(req[r].todo) \in Seq(Tickets)
      /\ \A i \in DOMAIN Tail(req[r].todo) : Tail(req[r].todo)[i] \in Existing
  BY <1>1, HeadTail DEF Current
<1> DEFINE c == Change(r)
           previous == IF req[r].op = "assign" THEN req[r].seen ELSE Keep
<1>3. c \in ChangeSet
  BY WriteTyped
<1>4. previous \in Agents \union {None, Keep} /\ (previous # Keep => Held(Current(r), previous))
  BY <1>1
<1>5. Apply(Current(r), c, req[r].by, previous)
  BY DEF Write
<1>6. req[r].by \in Agents \union {None} /\ req[r].by # None
  BY <1>1
<1> HIDE DEF c, previous
<1>7. RowsInv' /\ AuditInv' /\ Grow
  BY <1>2, <1>3, <1>4, <1>5, <1>6, ApplyStep
<1>8. WkInv'
  BY <1>5, <1>7, WkKept DEF Apply
<1>9. ReqInv'
  <2>1. CASE Tail(req[r].todo) = <<>>
    BY <1>7, <2>1, ReqIdle DEF Write
  <2>2. CASE Tail(req[r].todo) # <<>>
    <3> DEFINE q == [[[req[r] EXCEPT !.pc = FirstStep(req[r].op)] EXCEPT !.todo = Tail(req[r].todo)]
                       EXCEPT !.seen = Keep]
    <3>1. req' = [req EXCEPT ![r] = q]
      BY <2>2 DEF Write
    <3>2. [req[r] EXCEPT !.pc = FirstStep(req[r].op)] \in ReqType
      BY <1>1 DEF ReqType, FirstStep
    <3>3. /\ q \in ReqType /\ q.pc = FirstStep(req[r].op) /\ q.todo = Tail(req[r].todo)
          /\ q.by = req[r].by /\ q.op = req[r].op /\ q.arg = req[r].arg
      BY <1>1, <1>2, <3>2 DEF ReqType
    <3> HIDE DEF q
    <3>4. /\ q.todo # <<>>
          /\ \A i \in DOMAIN q.todo : q.todo[i] \in Existing'
          /\ q.by \in Agents
          /\ q.op = "assign" => q.arg \in Agents
          /\ q.op = "label" => q.arg \in Labels
          /\ q.op = "close" => q.pc = "write"
      BY <1>1, <1>2, <1>7, <2>2, <3>3 DEF Grow, FirstStep
    <3>5. q.pc = "write" => q.op = "close"
      BY <3>3 DEF FirstStep
    <3> QED
      BY <1>7, <3>1, <3>3, <3>4, <3>5, ReqSet
  <2> QED
    BY <2>1, <2>2
<1> QED
  BY <1>7, <1>8, <1>9 DEF Inv

LEMMA FailStep ==
  ASSUME Inv, NEW r \in Requests, Fail(r)
  PROVE  Inv'
<1>1. UNCHANGED <<ticket, log, routed, unlogged, active, changes, wk>>
  BY DEF Fail, historyVars
<1>2. RowsInv' /\ AuditInv' /\ Grow /\ WkInv'
  BY <1>1, Still, WkKept
<1>3. ReqInv'
  BY <1>2, ReqIdle DEF Fail
<1> QED
  BY <1>2, <1>3 DEF Inv

LEMMA InvNext == Inv /\ [Next]_vars => Inv'
<1> SUFFICES ASSUME Inv, [Next]_vars PROVE Inv'
  OBVIOUS
<1>1. CASE UNCHANGED vars
  <2>1. UNCHANGED <<ticket, log, routed, unlogged, active, changes, wk, req>>
    BY <1>1 DEF vars, historyVars
  <2>2. RowsInv' /\ AuditInv' /\ Grow
    BY <2>1, Still
  <2> QED
    BY <2>1, <2>2, WkKept, ReqKept DEF Inv
<1>2. CASE Routed
  BY <1>2, RoutingStep, CreateStep DEF Routed
<1>3. ASSUME NEW a \in Agents, Membership(a)
      PROVE  Inv'
  BY <1>3, MembershipStep
<1>4. ASSUME NEW t \in Tickets, Revive(t)
      PROVE  Inv'
  BY <1>4, PatchStep, ChangesTyped DEF Revive, Statuses
<1>5. ASSUME NEW t \in Tickets, NEW by \in Operators, NEW c \in Patches, Patch(t, c, by)
      PROVE  Inv'
  <2>1. c \in ChangeSet
    BY ChangesTyped DEF Patches
  <2> QED
    BY <1>5, <2>1, PatchStep
<1>6. ASSUME NEW t \in Tickets, NEW by \in Operators, MarkNotCustomer(t, by)
      PROVE  Inv'
  BY <1>6, MarkStep
<1>7. ASSUME NEW r \in Requests, NEW todo \in Lists, NEW by \in Operators,
             \/ \E a \in Agents : Begin(r, "assign", todo, a, by)
             \/ \E l \in Labels : Begin(r, "label", todo, l, by)
             \/ Begin(r, "close", todo, None, by)
      PROVE  Inv'
  BY <1>7, BeginStep
<1>8. ASSUME NEW r \in Requests, Read(r) \/ Write(r) \/ Fail(r)
      PROVE  Inv'
  BY <1>8, ReadStep, WriteStep, FailStep
<1>9. CASE AgentRequest
  BY <1>5, <1>6, <1>7, <1>8, <1>9 DEF AgentRequest
<1> QED
  BY <1>1, <1>2, <1>3, <1>4, <1>9 DEF Next

LEMMA Invariant == Spec => []Inv
BY InvInit, InvNext, PTL DEF Spec

-----------------------------------------------------------------------------
(* Every reachable state has its type, for any number of tickets, agents   *)
(* and concurrent requests: bulk requests of TicketsService never work on a *)
(* ticket that is not there or on labels they did not read.                *)
THEOREM TypeCorrect == Spec => []TypeOK
BY Invariant, InvImplies, PTL

(* Whatever patches, assigns, bulk requests and workers interleave, the    *)
(* events TicketsService writes replay to the assignee, the labels, the    *)
(* status and the closer of every ticket.                                  *)
THEOREM AuditReplaysHolds == Spec => []AuditReplays
BY Invariant, InvImplies, PTL

(* An assignment event's previous assignee, read before the transaction,   *)
(* did have the ticket earlier.                                            *)
THEOREM AuditPreviousHolds == Spec => []AuditPrevious
BY Invariant, InvImplies, PTL
-----------------------------------------------------------------------------
(* Routing.  A decision is right when it is made, and stays right: what it *)
(* looked at only grows, and an agent who leaves the team and comes back   *)
(* counts as a new member.                                                 *)

Member(b, seen) == b \in active /\ since[b] < seen

(* What RoundRobinRotates and LeastBusySpreads say of one decision. *)
TurnRight(d) ==
  ~byHand /\ d.strategy = "round_robin" =>
    \A i \in 1 .. d.counted, b \in Agents :
      routed[i].agent = d.agent /\ d.agent \in Agents /\ Member(b, d.seen)
      => \E k \in i .. d.counted : routed[k].agent = b

NoneReopened == \A i \in DOMAIN log : log[i].change.status \in Done \union {Keep}
LiveUpTo(n, a) == {t \in UpTo(n, a) : ticket[t].status \notin Done}
SpreadRight(d) ==
  ~byHand /\ NoneReopened /\ d.strategy = "least_busy" /\ d.agent \in Agents =>
    \A b \in Agents : Member(b, d.seen) =>
      Cardinality(LiveUpTo(d.counted, d.agent)) <= Cardinality(UpTo(d.counted, b))

(* The decisions that were carried out, and those about to be. *)
DecisionAt(n) == [strategy |-> routed[n].strategy, agent |-> routed[n].agent,
                  seen |-> routed[n].seen, counted |-> routed[n].counted]
DecisionOf(w) == [strategy |-> wk[w].strategy, agent |-> wk[w].pick,
                  seen |-> wk[w].seen, counted |-> wk[w].counted]
Decisions == {DecisionAt(n) : n \in DOMAIN routed}
               \union {DecisionOf(w) : w \in {v \in Workers : wk[v].pc = "create"}}

DecisionRight(d) ==
  /\ d.seen \in 0 .. Len(routed)
  /\ d.counted \in 0 .. Len(routed)
  /\ TurnRight(d)
  /\ SpreadRight(d)

RouteInv ==
  /\ since \in [Agents -> Nat]
  /\ byHand \in BOOLEAN
  /\ ~byHand => \A i \in DOMAIN routed : ticket[routed[i].ticket].assignee = routed[i].agent
  /\ \A d \in Decisions : DecisionRight(d)
  /\ \A w \in Workers : wk[w].pc = "count" =>
       \A b \in Agents : Member(b, wk[w].seen) => b \in wk[w].members

(* What every step keeps of what a decision looked at. *)
Settled ==
  /\ Len(routed) <= Len(routed')
  /\ \A i \in 1 .. Len(routed) : routed'[i] = routed[i]
  /\ \A b \in Agents, seen \in 0 .. Len(routed) : Member(b, seen)' => Member(b, seen)
  /\ since' \in [Agents -> Nat]
  /\ byHand' \in BOOLEAN
  /\ byHand => byHand'
  /\ ~byHand' => \A t \in Existing : ticket'[t].assignee = ticket[t].assignee
  /\ NoneReopened' =>
       NoneReopened /\ \A t \in Existing : ticket'[t].status \notin Done => ticket[t].status \notin Done

LEMMA RightLasts ==
  ASSUME Inv, Inv', Settled, NEW d, DecisionRight(d)
  PROVE  DecisionRight(d)'
<1>1. /\ Len(routed) \in Nat /\ Len(routed') \in Nat /\ DOMAIN routed = 1 .. Len(routed)
      /\ DOMAIN routed' = 1 .. Len(routed') /\ Len(routed) <= Len(routed')
  BY LenRouted DEF Inv, RowsInv, Settled
<1>2. d.seen \in 0 .. Len(routed) /\ d.counted \in 0 .. Len(routed)
  BY DEF DecisionRight
<1>3. \A i \in 1 .. d.counted : i \in DOMAIN routed /\ i \in DOMAIN routed' /\ routed'[i] = routed[i]
  BY <1>1, <1>2 DEF Settled
<1>4. TurnRight(d)'
  <2> SUFFICES ASSUME ~byHand', d.strategy = "round_robin", NEW i \in 1 .. d.counted,
                      NEW b \in Agents, routed'[i].agent = d.agent, d.agent \in Agents,
                      Member(b, d.seen)'
               PROVE  \E k \in i .. d.counted : routed'[k].agent = b
    BY DEF TurnRight
  <2>1. ~byHand /\ Member(b, d.seen) /\ routed[i].agent = d.agent
    BY <1>2, <1>3 DEF Settled
  <2>2. PICK k \in i .. d.counted : routed[k].agent = b
    BY <2>1 DEF DecisionRight, TurnRight
  <2>3. k \in 1 .. d.counted
    BY <1>2, <2>2
  <2> QED
    BY <1>3, <2>2, <2>3
<1>5. SpreadRight(d)'
  <2> SUFFICES ASSUME ~byHand', NoneReopened', d.strategy = "least_busy", d.agent \in Agents,
                      NEW b \in Agents, Member(b, d.seen)'
               PROVE  Cardinality(LiveUpTo(d.counted, d.agent)') <= Cardinality(UpTo(d.counted, b)')
    BY DEF SpreadRight
  <2>1. \A e : UpTo(d.counted, e)' = UpTo(d.counted, e) /\ UpTo(d.counted, e) \subseteq Existing
               /\ UpTo(d.counted, e) \subseteq Tickets
    <3>1. \A i \in 1 .. d.counted : routed[i].ticket \in Existing /\ Existing \subseteq Tickets
      BY <1>3 DEF Inv, RowsInv, Existing
    <3> QED
      BY <1>3, <3>1 DEF UpTo
  <2>2. LiveUpTo(d.counted, d.agent)' \subseteq LiveUpTo(d.counted, d.agent)
    BY <2>1 DEF LiveUpTo, Settled
  <2>3. /\ IsFiniteSet(LiveUpTo(d.counted, d.agent)) /\ IsFiniteSet(UpTo(d.counted, b))
        /\ Cardinality(UpTo(d.counted, b)) \in Nat /\ Cardinality(LiveUpTo(d.counted, d.agent)) \in Nat
    <3>1. LiveUpTo(d.counted, d.agent) \in SUBSET Tickets /\ UpTo(d.counted, b) \in SUBSET Tickets
      BY <2>1 DEF LiveUpTo
    <3> QED
      BY <3>1, FS_Subset, FS_CardinalityType
  <2>4. /\ Cardinality(LiveUpTo(d.counted, d.agent)') <= Cardinality(LiveUpTo(d.counted, d.agent))
        /\ Cardinality(LiveUpTo(d.counted, d.agent)') \in Nat
    BY <2>2, <2>3, FS_Subset, FS_CardinalityType
  <2>5. ~byHand /\ NoneReopened /\ Member(b, d.seen)
    BY <1>2 DEF Settled
  <2>6. Cardinality(LiveUpTo(d.counted, d.agent)) <= Cardinality(UpTo(d.counted, b))
    BY <2>5 DEF DecisionRight, SpreadRight
  <2> QED
    BY <2>1, <2>3, <2>4, <2>6
<1>6. d.seen \in 0 .. Len(routed') /\ d.counted \in 0 .. Len(routed')
  BY <1>1, <1>2
<1> QED
  BY <1>4, <1>5, <1>6 DEF DecisionRight

(* A step that makes no new decision and reads no team. *)
LEMMA RouteKept ==
  ASSUME Inv, RouteInv, Inv', Settled, Decisions' \subseteq Decisions,
         \A i \in DOMAIN routed' : i \in DOMAIN routed
           \/ ticket'[routed'[i].ticket].assignee = routed'[i].agent,
         \A w \in Workers : wk'[w] = wk[w] \/ wk'[w].pc # "count"
  PROVE  RouteInv'
<1>1. \A d \in Decisions' : DecisionRight(d)'
  BY RightLasts DEF RouteInv
<1>2. ~byHand' => \A i \in DOMAIN routed' : ticket'[routed'[i].ticket].assignee = routed'[i].agent
  <2> SUFFICES ASSUME ~byHand', NEW i \in DOMAIN routed
               PROVE  ticket'[routed'[i].ticket].assignee = routed'[i].agent
    OBVIOUS
  <2>1. i \in 1 .. Len(routed) /\ routed[i].ticket \in Existing
    BY DEF Inv, RowsInv
  <2>2. routed'[i] = routed[i] /\ ~byHand
    BY <2>1 DEF Settled
  <2> QED
    BY <2>1, <2>2 DEF Settled, RouteInv
<1>3. ASSUME NEW w \in Workers, wk'[w].pc = "count", NEW b \in Agents, Member(b, wk[w].seen)'
      PROVE  b \in wk'[w].members
  <2>1. wk'[w] = wk[w] /\ wk[w].seen \in 0 .. Len(routed)
    BY <1>3 DEF Inv, WkInv, WkType
  <2>2. Member(b, wk[w].seen)
    BY <1>3, <2>1 DEF Settled
  <2> QED
    BY <1>3, <2>1, <2>2 DEF RouteInv
<1> QED
  BY <1>1, <1>2, <1>3 DEF RouteInv, Settled

(* Nothing changes for the decisions but perhaps what ~byHand guards. *)
LEMMA RouteStill ==
  ASSUME Inv, RouteInv, Inv', UNCHANGED <<routed, active, since, wk>>,
         byHand' \in BOOLEAN, byHand => byHand',
         ~byHand' => \A t \in Existing : ticket'[t].assignee = ticket[t].assignee,
         NoneReopened' =>
           NoneReopened /\ \A t \in Existing : ticket'[t].status \notin Done => ticket[t].status \notin Done
  PROVE  RouteInv'
<1>1. Settled
  <2>1. Len(routed) <= Len(routed')
    BY LenRouted DEF Inv
  <2> QED
    BY <2>1 DEF Settled, Member, RouteInv
<1>2. Decisions' \subseteq Decisions
  BY DEF Decisions, DecisionAt, DecisionOf
<1> QED
  BY <1>1, <1>2, RouteKept

LEMMA RouteApply ==
  ASSUME Inv, RouteInv, Inv', NEW t \in Existing, NEW c \in ChangeSet, NEW by, NEW previous,
         Apply(t, c, by, previous)
  PROVE  RouteInv'
<1>1. /\ t \in Tickets /\ ticket[t] \in Row /\ ticket \in [Tickets -> Row \union {None}]
      /\ Existing \subseteq Tickets
  BY DEF Inv, RowsInv, Existing
<1>2. /\ ticket'[t] = Changed(ticket[t], c, by)
      /\ \A s \in Tickets \ {t} : ticket'[s] = ticket[s]
      /\ UNCHANGED <<routed, active, since, wk>>
      /\ byHand' = (byHand \/ c.assignee # Keep)
  BY <1>1 DEF Apply
<1>3. /\ Changed(ticket[t], c, by).assignee = Given(c.assignee, ticket[t].assignee)
      /\ Changed(ticket[t], c, by).status = Given(c.status, ticket[t].status)
  BY <1>1 DEF Changed, Given, Row
<1>4. ~byHand' => \A s \in Existing : ticket'[s].assignee = ticket[s].assignee
  BY <1>1, <1>2, <1>3 DEF Given
<1> DEFINE e == [ticket |-> t, by |-> by, change |-> c, previous |-> previous]
<1>5. log \in Seq(LogType) /\ log' \in Seq(LogType) /\ log' = Append(log, e)
  BY DEF Inv, RowsInv, Apply, Logged
<1>6. /\ DOMAIN log \subseteq DOMAIN log' /\ \A i \in DOMAIN log : log'[i] = log[i]
      /\ Len(log) + 1 \in DOMAIN log' /\ log'[Len(log) + 1].change = c
  BY <1>5
<1>7. ASSUME NoneReopened'
      PROVE  NoneReopened /\ \A s \in Existing : ticket'[s].status \notin Done => ticket[s].status \notin Done
  <2>1. c.status \in Done \union {Keep} /\ NoneReopened
    BY <1>6, <1>7 DEF NoneReopened
  <2> QED
    BY <1>1, <1>2, <1>3, <2>1 DEF Given
<1> QED
  BY <1>2, <1>4, <1>7, RouteStill DEF RouteInv

LEMMA RouteMark ==
  ASSUME Inv, RouteInv, Inv', NEW t, NEW by \in Agents, MarkNotCustomer(t, by)
  PROVE  RouteInv'
<1>1. /\ t \in Tickets /\ ticket[t] \in Row /\ ticket \in [Tickets -> Row \union {None}]
      /\ Existing \subseteq Tickets
  BY DEF Inv, RowsInv, Existing, MarkNotCustomer
<1>2. ticket' = [ticket EXCEPT ![t] = [ticket[t] EXCEPT !.status = "closed", !.closedBy = by]]
      /\ UNCHANGED <<log, routed, active, since, wk, byHand>>
  BY <1>1 DEF MarkNotCustomer, Row
<1>3. /\ ticket'[t].assignee = ticket[t].assignee /\ ticket'[t].status \in Done
      /\ \A s \in Tickets \ {t} : ticket'[s] = ticket[s]
  BY <1>1, <1>2 DEF Row, Done
<1>4. \A s \in Existing : /\ ticket'[s].assignee = ticket[s].assignee
                          /\ ticket'[s].status \notin Done => ticket[s].status \notin Done
  BY <1>1, <1>3
<1>5. NoneReopened' => NoneReopened
  BY <1>2 DEF NoneReopened
<1> QED
  BY <1>2, <1>4, <1>5, RouteStill DEF RouteInv

(* The requests that only read leave routing alone. *)
LEMMA RouteRead ==
  ASSUME Inv, RouteInv, Inv', UNCHANGED <<ticket, log, active, wk, routed, historyVars>>
  PROVE  RouteInv'
<1>1. NoneReopened' => NoneReopened
  BY DEF NoneReopened
<1> QED
  BY <1>1, RouteStill DEF RouteInv, historyVars

LEMMA RouteMembership ==
  ASSUME Inv, RouteInv, Inv', NEW a \in Agents, Membership(a)
  PROVE  RouteInv'
<1>1. Len(routed) \in Nat /\ UNCHANGED <<ticket, log, wk, routed, byHand>>
  BY LenRouted DEF Inv, Membership
<1>2. /\ since' \in [Agents -> Nat] /\ active' \subseteq active \union {a}
      /\ \A b \in Agents \ {a} : since'[b] = since[b]
      /\ a \in active' => since'[a] = Len(routed)
  BY <1>1 DEF Membership, RouteInv
<1>3. \A b \in Agents, seen \in 0 .. Len(routed) : Member(b, seen)' => Member(b, seen)
  <2> SUFFICES ASSUME NEW b \in Agents, NEW seen \in 0 .. Len(routed), Member(b, seen)'
               PROVE  Member(b, seen)
    OBVIOUS
  <2>1. b \in active' /\ since'[b] < seen
    BY DEF Member
  <2>2. CASE b = a
    <3>1. since'[b] = Len(routed)
      BY <1>2, <2>1, <2>2
    <3>2. \A n \in Nat : \A k \in 0 .. n : ~(n < k)
      OBVIOUS
    <3> QED
      BY <1>1, <2>1, <3>1, <3>2
  <2>3. CASE b # a
    <3>1. since'[b] = since[b] /\ b \in active
      BY <1>2, <2>1, <2>3
    <3> QED
      BY <2>1, <3>1 DEF Member
  <2> QED
    BY <2>2, <2>3
<1>4. Settled
  <2>1. NoneReopened' => NoneReopened
    BY <1>1 DEF NoneReopened
  <2> QED
    BY <1>1, <1>2, <1>3, <2>1 DEF Settled, RouteInv
<1>5. Decisions' \subseteq Decisions
  BY <1>1 DEF Decisions, DecisionAt, DecisionOf
<1> QED
  BY <1>1, <1>4, <1>5, RouteKept

LEMMA RouteAbandon ==
  ASSUME Inv, RouteInv, Inv', NEW w \in Workers, Abandon(w)
  PROVE  RouteInv'
<1>1. UNCHANGED <<ticket, log, active, routed, since, byHand>>
  BY DEF Abandon, historyVars
<1>2. Settled
  <2>1. NoneReopened' => NoneReopened
    BY <1>1 DEF NoneReopened
  <2>2. Len(routed) <= Len(routed')
    BY <1>1, LenRouted DEF Inv
  <2> QED
    BY <1>1, <2>1, <2>2 DEF Settled, RouteInv, Member
<1>3. \A v \in Workers : wk'[v] = wk[v] \/ wk'[v].pc = "idle"
  BY DEF Abandon, Inv, WkInv, NoDecision
<1>4. Decisions' \subseteq Decisions
  <2>1. {v \in Workers : wk'[v].pc = "create"} \subseteq {v \in Workers : wk[v].pc = "create"}
    BY <1>3
  <2>2. \A v \in Workers : wk'[v].pc = "create" => DecisionOf(v)' = DecisionOf(v)
    BY <1>3 DEF DecisionOf
  <2> QED
    BY <1>1, <2>1, <2>2 DEF Decisions, DecisionAt
<1> QED
  BY <1>1, <1>2, <1>3, <1>4, RouteKept

(* The decision is carried out. *)
LEMMA RouteCreate ==
  ASSUME Inv, RouteInv, Inv', NEW w \in Workers, NEW t \in Tickets, Create(w, t)
  PROVE  RouteInv'
<1> DEFINE new == [ticket |-> t, agent |-> wk[w].pick, strategy |-> wk[w].strategy,
                   seen |-> wk[w].seen, counted |-> wk[w].counted]
<1>1. /\ routed \in Seq(RoutedType) /\ routed' = Append(routed, new)
      /\ Len(routed) \in Nat /\ ticket[t] = None /\ ticket \in [Tickets -> Row \union {None}]
      /\ ticket' = [ticket EXCEPT ![t] = NewTicket(wk[w].pick)]
      /\ wk' = [wk EXCEPT ![w] = NoDecision] /\ wk[w].pc = "create"
      /\ UNCHANGED <<log, active, since, byHand>>
  BY LenRouted DEF Create, Inv, RowsInv, historyVars
<1>2. routed' \in Seq(RoutedType)
  BY DEF Inv, RowsInv
<1>3. /\ DOMAIN routed' = 1 .. Len(routed) + 1 /\ DOMAIN routed = 1 .. Len(routed)
      /\ \A i \in DOMAIN routed : routed'[i] = routed[i]
      /\ routed'[Len(routed) + 1] = new /\ Len(routed') = Len(routed) + 1
  BY <1>1, <1>2
<1>4. /\ \A s \in Existing : ticket'[s] = ticket[s]
      /\ ticket'[t].assignee = wk[w].pick
  BY <1>1 DEF Existing, NewTicket
<1>5. Settled
  <2>1. NoneReopened' => NoneReopened
    BY <1>1 DEF NoneReopened
  <2> QED
    BY <1>1, <1>3, <1>4, <2>1 DEF Settled, RouteInv, Member
<1>6. \A v \in Workers : wk'[v] = wk[v] \/ wk'[v].pc = "idle"
  BY <1>1 DEF Inv, WkInv, NoDecision
<1>7. Decisions' \subseteq Decisions
  <2>1. \A v \in Workers : wk'[v].pc = "create" => wk[v].pc = "create" /\ DecisionOf(v)' = DecisionOf(v)
    BY <1>6 DEF DecisionOf
  <2>2. \A n \in DOMAIN routed : DecisionAt(n)' = DecisionAt(n)
    BY <1>3 DEF DecisionAt
  <2>3. \A n : n = Len(routed) + 1 => DecisionAt(n)' = DecisionOf(w)
    BY <1>3 DEF DecisionAt, DecisionOf
  <2>4. \A n \in DOMAIN routed' : DecisionAt(n)' \in Decisions
    BY <1>1, <1>3, <2>2, <2>3 DEF Decisions
  <2>5. \A v \in Workers : wk'[v].pc = "create" => DecisionOf(v)' \in Decisions
    BY <2>1 DEF Decisions
  <2> QED
    BY <2>4, <2>5 DEF Decisions
<1> QED
  BY <1>3, <1>4, <1>5, <1>6, <1>7, RouteKept

(* FindMembers reads the team. *)
LEMMA RouteFind ==
  ASSUME Inv, RouteInv, Inv', NEW w \in Workers, NEW strategy, NEW default,
         FindMembers(w, strategy, default)
  PROVE  RouteInv'
<1>1. UNCHANGED <<ticket, log, active, routed, since, byHand>>
  BY DEF FindMembers, historyVars
<1>2. Settled
  <2>1. NoneReopened' => NoneReopened
    BY <1>1 DEF NoneReopened
  <2>2. Len(routed) <= Len(routed')
    BY <1>1, LenRouted DEF Inv
  <2> QED
    BY <1>1, <2>1, <2>2 DEF Settled, RouteInv, Member
<1>3. /\ wk'[w].pc = "count" /\ wk'[w].members = active
      /\ \A v \in Workers \ {w} : wk'[v] = wk[v]
  BY DEF FindMembers, Inv, WkInv, NoDecision
<1>4. Decisions' \subseteq Decisions
  <2>1. \A v \in Workers : wk'[v].pc = "create" => wk[v].pc = "create" /\ DecisionOf(v)' = DecisionOf(v)
    BY <1>3 DEF DecisionOf
  <2> QED
    BY <1>1, <2>1 DEF Decisions, DecisionAt
<1>5. \A d \in Decisions' : DecisionRight(d)'
  BY <1>2, <1>4, RightLasts DEF RouteInv
<1>6. \A v \in Workers : wk'[v].pc = "count" =>
        \A b \in Agents : Member(b, wk[v].seen)' => b \in wk'[v].members
  <2> SUFFICES ASSUME NEW v \in Workers, wk'[v].pc = "count",
                      NEW b \in Agents, Member(b, wk[v].seen)'
               PROVE  b \in wk'[v].members
    OBVIOUS
  <2>1. CASE v = w
    BY <1>1, <1>3, <2>1 DEF Member
  <2>2. CASE v # w
    <3>1. wk'[v] = wk[v]
      BY <1>3, <2>2
    <3> QED
      BY <1>1, <3>1 DEF Member, RouteInv
  <2> QED
    BY <2>1, <2>2
<1> QED
  BY <1>1, <1>5, <1>6 DEF RouteInv

(* A bounded set of numbers that is not empty has a greatest element. *)
LEMMA GreatestOf ==
  ASSUME NEW S \in SUBSET Nat, S # {}, NEW n \in Nat, \A x \in S : x <= n
  PROVE  \E m \in S : \A x \in S : x <= m
<1> DEFINE D == {n - x : x \in S}
<1>1. PICK d \in D : \A e \in D : ~ (e < d)
  <2> DEFINE R == OpToRel(<, Nat)
  <2>1. IsWellFoundedOn(R, Nat)
    BY NatLessThanWellFounded
  <2>4. D \subseteq Nat /\ D # {}
    <3>1. \A x \in S : n - x \in Nat
      OBVIOUS
    <3>2. \A d \in D : d \in Nat
      BY <3>1
    <3>3. PICK x \in S : TRUE
      OBVIOUS
    <3>4. n - x \in D
      BY <3>3
    <3> HIDE DEF D
    <3> QED
      BY <3>2, <3>4
  <2>2. \A k, m \in Nat : <<k, m>> \in R <=> k < m
    BY DEF OpToRel
  <2> HIDE DEF R, D
  <2>3. PICK d \in D : \A e \in D : ~ (<<e, d>> \in R)
    BY <2>1, <2>4, WFMin
  <2> QED
    BY <2>2, <2>3, <2>4
<1>2. PICK m \in S : d = n - m
  BY <1>1
<1>3. \A x \in S : ~ (n - x < n - m)
  BY <1>1, <1>2
<1>4. \A x \in S : x <= m
  BY <1>3
<1> QED
  BY <1>4

(* LastAssignedAt without its choice. *)
LEMMA LastAssigned ==
  ASSUME Inv, NEW a
  PROVE  LET m == LastAssignedAt(ticket, a)
         IN  /\ m \in Nat
             /\ m = 0 \/ \E t \in AssignedTo(ticket, a) : ticket[t].createdAt = m
             /\ \A t \in AssignedTo(ticket, a) : ticket[t].createdAt <= m
<1> DEFINE times == {ticket[t].createdAt : t \in AssignedTo(ticket, a)}
           m == LastAssignedAt(ticket, a)
<1>1. PICK n \in Nat : n = Cardinality(Tickets)
  BY FS_CardinalityType
<1>2. \A t \in AssignedTo(ticket, a) : ticket[t] \in Row
  BY DEF Inv, RowsInv, AssignedTo
<1>3. times \subseteq Nat /\ \A x \in times : x <= n
  BY <1>1, <1>2 DEF Row
<1>4. m = CHOOSE x \in times \union {0} : \A y \in times : y <= x
  BY DEF LastAssignedAt
<1>5. \E x \in times \union {0} : \A y \in times : y <= x
  <2> HIDE DEF times
  <2>1. CASE times = {}
    BY <2>1
  <2>2. CASE times # {}
    BY <1>1, <1>3, <2>2, GreatestOf
  <2> QED
    BY <2>1, <2>2
<1>6. m \in times \union {0} /\ \A y \in times : y <= m
  <2> HIDE DEF times, m
  <2> QED
    BY <1>4, <1>5
<1>7. m \in Nat /\ (m = 0 \/ m \in times)
  <2> HIDE DEF times, m
  <2> QED
    BY <1>3, <1>6
<1>8. \A t \in AssignedTo(ticket, a) : ticket[t].createdAt \in times
  OBVIOUS
<1> HIDE DEF m
<1>9. m = 0 \/ \E t \in AssignedTo(ticket, a) : ticket[t].createdAt = m
  BY <1>7
<1>10. \A t \in AssignedTo(ticket, a) : ticket[t].createdAt <= m
  <2> HIDE DEF times
  <2> QED
    BY <1>6, <1>8
<1> QED
  BY <1>7, <1>9, <1>10 DEF m

(* Nobody was assigned by hand: who holds a ticket is who it was routed to. *)
LEMMA HeldAsRouted ==
  ASSUME Inv, RouteInv, ~byHand, NEW a \in Agents
  PROVE  /\ AssignedTo(ticket, a) = UpTo(Len(routed), a)
         /\ \A i \in 1 .. Len(routed) :
              routed[i].agent = a <=> routed[i].ticket \in AssignedTo(ticket, a)
         /\ \A t \in AssignedTo(ticket, a) :
              \E i \in 1 .. Len(routed) : routed[i].ticket = t /\ ticket[t].createdAt = i
<1>0. DOMAIN routed = 1 .. Len(routed) /\ DOMAIN ticket = Tickets
  BY DEF Inv, RowsInv
<1>1. /\ \A i \in 1 .. Len(routed) : /\ routed[i].ticket \in Existing
                                     /\ ticket[routed[i].ticket].createdAt = i
                                     /\ ticket[routed[i].ticket].assignee = routed[i].agent
      /\ \A t \in Existing : \E i \in 1 .. Len(routed) : routed[i].ticket = t
  BY <1>0 DEF Inv, RowsInv, RouteInv
<1> QED
  BY <1>0, <1>1 DEF AssignedTo, UpTo, Existing

(* NextInTurn picks who was assigned longest ago. *)
LEMMA TurnDecided ==
  ASSUME Inv, RouteInv, ~byHand, NEW members \in SUBSET Agents, NEW a \in NextInTurn(ticket, members),
         NEW b \in members, NEW i \in 1 .. Len(routed), routed[i].agent = a
  PROVE  \E k \in i .. Len(routed) : routed[k].agent = b
<1> DEFINE la == LastAssignedAt(ticket, a)
           lb == LastAssignedAt(ticket, b)
<1>1. a \in members /\ a \in Agents /\ b \in Agents /\ la <= lb
  BY DEF NextInTurn, Least
<1>2. routed[i].ticket \in AssignedTo(ticket, a) /\ ticket[routed[i].ticket].createdAt = i
  <2>1. i \in DOMAIN routed
    BY DEF Inv, RowsInv
  <2> QED
    BY <1>1, <2>1, HeldAsRouted DEF Inv, RowsInv
<1>3. la \in Nat /\ lb \in Nat /\ i <= la
  BY <1>2, LastAssigned
<1>4. lb = 0 \/ \E t \in AssignedTo(ticket, b) : ticket[t].createdAt = lb
  BY LastAssigned
<1> HIDE DEF la, lb
<1>5. Len(routed) \in Nat
  BY LenRouted DEF Inv
<1>6. lb # 0 /\ i <= lb
  BY <1>1, <1>3, <1>5
<1>7. PICK t \in AssignedTo(ticket, b) : ticket[t].createdAt = lb
  BY <1>4, <1>6
<1>8. PICK k \in 1 .. Len(routed) : routed[k].ticket = t /\ ticket[t].createdAt = k
  BY <1>1, <1>7, HeldAsRouted
<1>9. routed[k].agent = b /\ k = lb
  BY <1>1, <1>7, <1>8, HeldAsRouted
<1> QED
  BY <1>5, <1>6, <1>8, <1>9

(* LeastBusy picks who has the fewest open tickets. *)
LEMMA SpreadDecided ==
  ASSUME Inv, RouteInv, ~byHand, NEW members \in SUBSET Agents, NEW a \in LeastBusy(ticket, members),
         NEW b \in members
  PROVE  Cardinality(LiveUpTo(Len(routed), a)) <= Cardinality(UpTo(Len(routed), b))
<1>1. a \in Agents /\ b \in Agents /\ OpenCount(ticket, a) <= OpenCount(ticket, b)
  BY DEF LeastBusy, Least
<1>2. OpenCount(ticket, a) = Cardinality(LiveUpTo(Len(routed), a))
  BY <1>1, HeldAsRouted DEF OpenCount, LiveUpTo
<1>3. OpenCount(ticket, b) = Cardinality(LiveUpTo(Len(routed), b))
  BY <1>1, HeldAsRouted DEF OpenCount, LiveUpTo
<1>4. /\ \A e : UpTo(Len(routed), e) \in SUBSET Tickets
      /\ \A e : LiveUpTo(Len(routed), e) \in SUBSET UpTo(Len(routed), e)
      /\ \A e : LiveUpTo(Len(routed), e) \in SUBSET Tickets
  BY DEF UpTo, LiveUpTo
<1>5. /\ IsFiniteSet(UpTo(Len(routed), b)) /\ IsFiniteSet(LiveUpTo(Len(routed), a))
      /\ IsFiniteSet(LiveUpTo(Len(routed), b))
  BY <1>4, FS_Subset
<1>6. /\ Cardinality(LiveUpTo(Len(routed), b)) <= Cardinality(UpTo(Len(routed), b))
      /\ Cardinality(LiveUpTo(Len(routed), a)) \in Nat /\ Cardinality(UpTo(Len(routed), b)) \in Nat
      /\ Cardinality(LiveUpTo(Len(routed), b)) \in Nat
  BY <1>4, <1>5, FS_Subset, FS_CardinalityType
<1> QED
  BY <1>1, <1>2, <1>3, <1>6

(* Count decides. *)
LEMMA RouteCount ==
  ASSUME Inv, RouteInv, Inv', NEW w \in Workers, Count(w)
  PROVE  RouteInv'
<1>1. UNCHANGED <<ticket, log, active, routed, since, byHand>>
  BY DEF Count, historyVars
<1>2. Settled
  <2>1. NoneReopened' => NoneReopened
    BY <1>1 DEF NoneReopened
  <2>2. Len(routed) <= Len(routed')
    BY <1>1, LenRouted DEF Inv
  <2> QED
    BY <1>1, <2>1, <2>2 DEF Settled, RouteInv, Member
<1>3. PICK a \in DecideAssignment(wk[w].strategy, ticket, wk[w].members, wk[w].default) :
        wk' = [wk EXCEPT ![w] = [wk[w] EXCEPT !.pc = "create", !.pick = a,
                                 !.counted = Len(routed), !.default = None, !.members = {}]]
  BY DEF Count, Inv, WkInv
<1>4. wk[w] \in WkType /\ wk[w].pc = "count" /\ wk[w].members \in SUBSET Agents
      /\ wk[w].seen \in 0 .. Len(routed) /\ Len(routed) \in Nat
  BY LenRouted DEF Count, Inv, WkInv, WkType
<1>5. /\ wk'[w].pc = "create" /\ wk'[w].pick = a /\ wk'[w].counted = Len(routed)
      /\ wk'[w].strategy = wk[w].strategy /\ wk'[w].seen = wk[w].seen
      /\ \A v \in Workers \ {w} : wk'[v] = wk[v]
  BY <1>3, <1>4 DEF Inv, WkInv, WkType
<1> DEFINE new == [strategy |-> wk[w].strategy, agent |-> a, seen |-> wk[w].seen, counted |-> Len(routed)]
<1>6. \A d \in Decisions' : d \in Decisions \/ d = new
  <2>1. DecisionOf(w)' = new
    BY <1>5 DEF DecisionOf
  <2>2. \A v \in Workers \ {w} : wk'[v].pc = "create" => wk[v].pc = "create" /\ DecisionOf(v)' = DecisionOf(v)
    BY <1>5 DEF DecisionOf
  <2>3. \A v \in Workers : wk'[v].pc = "create" => DecisionOf(v)' \in Decisions \/ DecisionOf(v)' = new
    BY <2>1, <2>2 DEF Decisions
  <2> QED
    BY <1>1, <2>3 DEF Decisions, DecisionAt
<1>7. \A b \in Agents : Member(b, wk[w].seen) => b \in wk[w].members
  BY <1>4 DEF RouteInv
<1>8. TurnRight(new)
  <2> SUFFICES ASSUME ~byHand, wk[w].strategy = "round_robin", NEW i \in 1 .. Len(routed),
                      NEW b \in Agents, routed[i].agent = a, a \in Agents, Member(b, wk[w].seen)
               PROVE  \E k \in i .. Len(routed) : routed[k].agent = b
    BY DEF TurnRight
  <2>1. b \in wk[w].members
    BY <1>7
  <2>2. a \in NextInTurn(ticket, wk[w].members)
    BY <1>3, <2>1 DEF DecideAssignment
  <2> QED
    BY <1>4, <2>1, <2>2, TurnDecided
<1>9. SpreadRight(new)
  <2> SUFFICES ASSUME ~byHand, wk[w].strategy = "least_busy", NEW b \in Agents, Member(b, wk[w].seen)
               PROVE  Cardinality(LiveUpTo(Len(routed), a)) <= Cardinality(UpTo(Len(routed), b))
    BY DEF SpreadRight
  <2>1. b \in wk[w].members
    BY <1>7
  <2>2. a \in LeastBusy(ticket, wk[w].members)
    BY <1>3, <2>1 DEF DecideAssignment
  <2> QED
    BY <1>4, <2>1, <2>2, SpreadDecided
<1>10. DecisionRight(new)
  BY <1>4, <1>8, <1>9 DEF DecisionRight
<1> HIDE DEF new
<1>11. \A d \in Decisions' : DecisionRight(d)'
  BY <1>2, <1>6, <1>10, RightLasts DEF RouteInv
<1>12. \A v \in Workers : wk'[v].pc = "count" =>
         \A b \in Agents : Member(b, wk[v].seen)' => b \in wk'[v].members
  <2> SUFFICES ASSUME NEW v \in Workers, wk'[v].pc = "count",
                      NEW b \in Agents, Member(b, wk[v].seen)'
               PROVE  b \in wk'[v].members
    OBVIOUS
  <2>1. wk'[v] = wk[v]
    BY <1>5
  <2> QED
    BY <1>1, <2>1 DEF Member, RouteInv
<1> QED
  BY <1>1, <1>11, <1>12 DEF RouteInv

LEMMA RouteInit == Init => RouteInv
<1> SUFFICES ASSUME Init PROVE RouteInv
  OBVIOUS
<1>1. DOMAIN routed = {} /\ \A w \in Workers : wk[w].pc = "idle"
  BY DEF Init, NoDecision
<1>2. Decisions = {}
  BY <1>1 DEF Decisions
<1> QED
  BY <1>1, <1>2 DEF Init, RouteInv

LEMMA RouteNext == Inv /\ RouteInv /\ Inv' /\ [Next]_vars => RouteInv'
<1> SUFFICES ASSUME Inv, RouteInv, Inv', [Next]_vars PROVE RouteInv'
  OBVIOUS
<1>1. CASE UNCHANGED vars
  BY <1>1, RouteRead DEF vars
<1>2. CASE Routed
  BY <1>2, RouteFind, RouteCount, RouteCreate, RouteAbandon DEF Routed
<1>3. ASSUME NEW a \in Agents, Membership(a)
      PROVE  RouteInv'
  BY <1>3, RouteMembership
<1>4. ASSUME NEW t \in Tickets, NEW c \in ChangeSet, NEW by, Patch(t, c, by)
      PROVE  RouteInv'
  BY <1>4, RouteApply DEF Patch
<1>5. ASSUME NEW t \in Tickets, Revive(t)
      PROVE  RouteInv'
  BY <1>4, <1>5, ChangesTyped DEF Revive, Statuses
<1>6. \A c \in Patches : c \in ChangeSet
  BY ChangesTyped DEF Patches
<1>7. ASSUME NEW t \in Tickets, NEW by \in Operators, MarkNotCustomer(t, by)
      PROVE  RouteInv'
  BY <1>7, RouteMark
<1>8. ASSUME NEW r \in Requests, NEW op, NEW todo, NEW arg, NEW by, Begin(r, op, todo, arg, by)
      PROVE  RouteInv'
  BY <1>8, RouteRead DEF Begin
<1>9. ASSUME NEW r \in Requests, Read(r) \/ Fail(r)
      PROVE  RouteInv'
  BY <1>9, RouteRead DEF Read, Fail
<1>10. ASSUME NEW r \in Requests, Write(r)
       PROVE  RouteInv'
  <2>1. Current(r) \in Existing /\ Change(r) \in ChangeSet
    BY <1>10, WriteTyped
  <2> QED
    BY <1>10, <2>1, RouteApply DEF Write
<1>11. CASE AgentRequest
  BY <1>4, <1>6, <1>7, <1>8, <1>9, <1>10, <1>11 DEF AgentRequest
<1> QED
  BY <1>1, <1>2, <1>3, <1>5, <1>11 DEF Next

LEMMA RouteInvariant == Spec => [](Inv /\ RouteInv)
<1>1. Inv /\ RouteInv /\ [Next]_vars => Inv' /\ RouteInv'
  BY InvNext, RouteNext
<1> QED
  BY <1>1, InvInit, RouteInit, PTL DEF Spec

(* The invariant has the two properties as the decisions already made. *)
LEMMA RouteImplies == Inv /\ RouteInv => RoundRobinRotates /\ LeastBusySpreads
<1> SUFFICES ASSUME Inv, RouteInv PROVE RoundRobinRotates /\ LeastBusySpreads
  OBVIOUS
<1>1. \A n \in DOMAIN routed : TurnRight(DecisionAt(n)) /\ SpreadRight(DecisionAt(n))
  BY DEF RouteInv, Decisions, DecisionRight
<1>2. RoundRobinRotates
  <2> SUFFICES ASSUME NEW n \in DOMAIN routed, ~byHand, routed[n].strategy = "round_robin",
                      NEW i \in 1 .. routed[n].counted, NEW b \in Agents,
                      routed[i].agent = routed[n].agent, routed[i].agent \in Agents, MemberFor(n, b)
               PROVE  \E k \in i .. routed[n].counted : routed[k].agent = b
    BY DEF RoundRobinRotates
  <2> DEFINE d == DecisionAt(n)
  <2>1. /\ d.strategy = "round_robin" /\ d.counted = routed[n].counted
        /\ d.agent = routed[n].agent /\ d.seen = routed[n].seen /\ TurnRight(d)
    BY <1>1 DEF DecisionAt
  <2>2. Member(b, routed[n].seen)
    BY DEF MemberFor, Member
  <2> HIDE DEF d
  <2> QED
    BY <2>1, <2>2 DEF TurnRight
<1>3. LeastBusySpreads
  BY <1>1 DEF LeastBusySpreads, SpreadRight, DecisionAt, MemberFor, Member, NoneReopened, LiveUpTo
<1> QED
  BY <1>2, <1>3

(* Whatever workers route at the same time, and however the team changes   *)
(* meanwhile, round robin gives no agent a second ticket, of those that    *)
(* RoutingService.decideAssignment can see, before each member got one.    *)
THEOREM RoundRobinHolds == Spec => []RoundRobinRotates
BY RouteInvariant, RouteImplies, PTL

(* The agent least_busy picked has, of the tickets the counting could see, *)
(* never more open than any other member got, whatever is closed later.    *)
THEOREM LeastBusyHolds == Spec => []LeastBusySpreads
BY RouteInvariant, RouteImplies, PTL
=============================================================================
