--------------------------- MODULE ThreadGrouping ---------------------------
(***************************************************************************)
(* The pure part of the thread-grouping rules (section 4 of the product    *)
(* specification): which ticket an incoming customer message belongs to.   *)
(*                                                                         *)
(* The two repository queries return the SET of rows that `findFirst` with *)
(* its ORDER BY may return: one row, several when the sort key ties (the   *)
(* database then picks any), or none.                                      *)
(***************************************************************************)
EXTENDS Integers

CONSTANT None   \* SQL NULL, JavaScript undefined, "no such row"

(* TicketStatus, split the way ThreadGroupingService splits it. *)
Reopenable == {"open", "pending", "on_hold", "solved"}
Terminal == {"closed", "archived"}
Statuses == Reopenable \union Terminal

(* ORDER BY key DESC, first row: the candidates no other candidate beats. *)
Latest(S, key(_)) == {x \in S : \A y \in S : key(y) <= key(x)}

(***************************************************************************)
(* findTicketByAnchorMessage: the tickets of `chat` owning a message row   *)
(* with Telegram id `tg`, newest row first.  rowAt[u][t] is the createdAt  *)
(* of the row of ticket t for the Telegram message u = <<chat, id>>, or    *)
(* None.  The row itself stores only the id: u[1] is never looked at.      *)
(***************************************************************************)
AnchorRows(ticket, rowAt, tg) ==
  {q \in (DOMAIN ticket) \X (DOMAIN rowAt) :
     ticket[q[1]] # None /\ q[2][2] = tg /\ rowAt[q[2]][q[1]] # None}

(* Mutant: the query filters on the Telegram id only. *)
FindTicketByAnchorMessageAnyChat(ticket, rowAt, chat, tg) ==
  {r[1] : r \in Latest(AnchorRows(ticket, rowAt, tg), LAMBDA q : rowAt[q[2]][q[1]])}

FindTicketByAnchorMessage(ticket, rowAt, chat, tg) ==
  {r[1] : r \in Latest({q \in AnchorRows(ticket, rowAt, tg) : ticket[q[1]].chat = chat},
                       LAMBDA q : rowAt[q[2]][q[1]])}

(***************************************************************************)
(* findMostRecentActiveTicket: the customer's non-terminal tickets in this *)
(* chat, most recently updated first.                                      *)
(***************************************************************************)
ActiveTickets(ticket, chat) ==
  {t \in DOMAIN ticket : /\ ticket[t] # None
                         /\ ticket[t].chat = chat
                         /\ ticket[t].status \notin Terminal}

(* Mutant: any customer's ticket of the chat will do. *)
FindMostRecentActiveTicketOfAnyone(ticket, chat, customer) ==
  Latest(ActiveTickets(ticket, chat), LAMBDA t : ticket[t].updatedAt)

(* Mutant: ordered ascending, the stalest ticket comes first. *)
FindLeastRecentActiveTicket(ticket, chat, customer) ==
  Latest({t \in ActiveTickets(ticket, chat) : ticket[t].customer = customer},
         LAMBDA t : -ticket[t].updatedAt)

FindMostRecentActiveTicket(ticket, chat, customer) ==
  Latest({t \in ActiveTickets(ticket, chat) : ticket[t].customer = customer},
         LAMBDA t : ticket[t].updatedAt)

(* Mutant: only archived threads are out of rule 1's reach. *)
AnchorMatchesUnlessArchived(status) == status # "archived"

(* Rule 1's test of the anchor's thread. *)
AnchorMatches(status) == status \notin Terminal

(* Rule 2's window test, strict: a ticket exactly `window` old is idle. *)
WithinIdleWindow(updatedAt, at, window) == at - updatedAt < window

(* Rule 2's test of the freshest thread. *)
ActiveMatches(row, at, window) ==
  row.status \in Reopenable /\ WithinIdleWindow(row.updatedAt, at, window)
=============================================================================
