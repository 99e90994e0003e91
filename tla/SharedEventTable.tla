--------------------------- MODULE SharedEventTable ---------------------------
(***************************************************************************)
(* What the stores over an SQL table promise to the command handlers of    *)
(* all tenants: one table, from which a caller reads the events of its own *)
(* tenant at a single instant; and an append that puts all its rows there  *)
(* at a single instant, under the next numbers, or nothing at all          *)
(* (packages/core/src/eventstore/types.ts, interface EventStore).          *)
(*                                                                         *)
(* Where statements do not overlap, the append is decided at that instant: *)
(* the events its caller has read are still those its query would give.    *)
(* Where they do, it is decided when its statement begins, and can rely    *)
(* only on this: nothing its query would give has a number that was drawn  *)
(* after its caller has read.                                              *)
(***************************************************************************)
EXTENDS EventLog

CONSTANTS Caller, Tenant

VARIABLES
  overlapping, tenantOf, \* whether statements may overlap; each caller's tenant
  table, drawn,          \* the rows; the last number drawn
  view,                  \* the query each caller made last, the events it saw,
                         \* and the last number drawn then
  request,               \* what a caller has asked to append; is it decided
  draft                  \* the rows its statement has numbered

rigid   == <<overlapping, tenantOf>>
absVars == <<rigid, table, drawn, view, request, draft>>

NothingSeen == [query |-> [types |-> {}, min |-> 0], events |-> {}, drawn |-> 0]
NoRequest   == [batch |-> <<>>, conditional |-> FALSE, decided |-> FALSE]

AbsInit ==
  /\ overlapping \in BOOLEAN /\ \A c \in Caller : tenantOf[c] \in Tenant
  /\ table = {} /\ drawn = 0
  /\ view = [c \in Caller |-> NothingSeen]
  /\ request = [c \in Caller |-> NoRequest]
  /\ draft = [c \in Caller |-> <<>>]

Answer(c, query) == {r \in table : r.scope = tenantOf[c] /\ Matches(query, r)}

(* The store promises nothing for some queries: their answer counts as     *)
(* nothing seen.                                                           *)
Read(c) ==
  LET answer == view'[c]
  IN  /\ request[c] = NoRequest
      /\ \/ answer = NothingSeen
         \/ /\ answer.drawn = drawn
            /\ answer.query \in EventQuery
            /\ answer.events = Answer(c, answer.query)
      /\ view' = [view EXCEPT ![c] = answer]
      /\ UNCHANGED <<rigid, table, drawn, request, draft>>

Ask(c) ==
  LET asked == request'[c]
  IN  /\ request[c] = NoRequest
      /\ asked.batch \in Seq(EventType) \ {<<>>}
      /\ asked.conditional \in BOOLEAN /\ ~asked.decided
      /\ request' = [request EXCEPT ![c] = asked]
      /\ UNCHANGED <<rigid, table, drawn, view, draft>>

DecisionHolds(c) ==
  request[c].conditional =>
    IF overlapping
    THEN \A r \in Answer(c, view[c].query) : r.sequenceNumber <= view[c].drawn
    ELSE Answer(c, view[c].query) = view[c].events

Asked(c) == request[c] # NoRequest /\ ~request[c].decided

RowsOf(c, last) ==
  [i \in DOMAIN request[c].batch |->
     [sequenceNumber |-> last + i, scope |-> tenantOf[c],
      eventType |-> request[c].batch[i]]]

Over(c) ==
  /\ request' = [request EXCEPT ![c] = NoRequest]
  /\ draft' = [draft EXCEPT ![c] = <<>>]

AppendAtOnce(c) ==
  LET records == RowsOf(c, drawn)
  IN  /\ ~overlapping /\ Asked(c) /\ DecisionHolds(c)
      /\ table' = table \cup {records[i] : i \in DOMAIN records}
      /\ drawn' = drawn + Len(records)
      /\ Over(c)
      /\ UNCHANGED <<rigid, view>>

Decide(c) ==
  /\ overlapping /\ Asked(c) /\ DecisionHolds(c)
  /\ request' = [request EXCEPT ![c].decided = TRUE]
  /\ UNCHANGED <<rigid, table, drawn, view, draft>>

Draw(c) ==
  LET next == Len(draft[c]) + 1
  IN  /\ request[c].decided /\ next <= Len(request[c].batch)
      /\ drawn' = drawn + 1
      /\ draft' = [draft EXCEPT ![c] =
           Append(@, [sequenceNumber |-> drawn + 1, scope |-> tenantOf[c],
                      eventType |-> request[c].batch[next]])]
      /\ UNCHANGED <<rigid, table, view, request>>

Commit(c) ==
  /\ request[c].decided /\ Len(draft[c]) = Len(request[c].batch)
  /\ table' = table \cup {draft[c][i] : i \in DOMAIN draft[c]}
  /\ Over(c)
  /\ UNCHANGED <<rigid, drawn, view>>

(* A refusal, or an error: nothing but numbers is left.                    *)
Abort(c) ==
  /\ request[c] # NoRequest
  /\ Over(c)
  /\ UNCHANGED <<rigid, table, drawn, view>>

AbsNext ==
  \E c \in Caller :
    \/ Read(c) \/ Ask(c)
    \/ AppendAtOnce(c) \/ Decide(c) \/ Draw(c) \/ Commit(c) \/ Abort(c)

AbsSpec == AbsInit /\ [][AbsNext]_absVars
=============================================================================
