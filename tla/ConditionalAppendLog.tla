------------------------- MODULE ConditionalAppendLog -------------------------
(***************************************************************************)
(* What an event store promises to a command handler that queries events,  *)
(* decides on them and appends with the query and its maximum: one log,    *)
(* and an append that takes effect at a single instant, only if the query  *)
(* would still give the events the decision was made on                    *)
(* (packages/core/src/eventstore/types.ts, interface EventStore).          *)
(***************************************************************************)
EXTENDS EventLog

CONSTANT Caller

VARIABLES
  log,      \* the records stored
  view,     \* the query each caller made last, and the events it saw
  request,  \* the batch a caller has asked to append, conditionally or not
  status    \* "idle", "asked", "accepted", "refused"

absVars == <<log, view, request, status>>

NothingSeen == [query |-> [types |-> {}, min |-> 0], events |-> {}]
NoRequest   == [batch |-> <<>>, conditional |-> FALSE]

FreshCallers ==
  /\ view = [c \in Caller |-> NothingSeen]
  /\ request = [c \in Caller |-> NoRequest]
  /\ status = [c \in Caller |-> "idle"]

AbsInit == log = <<>> /\ FreshCallers

Read(c) ==
  LET answer == view'[c]
  IN  /\ status[c] # "asked"
      /\ answer.query \in EventQuery
      /\ answer.events = MatchingEvents(log, answer.query)
      /\ view' = [view EXCEPT ![c] = answer]
      /\ UNCHANGED <<log, request, status>>

Ask(c) ==
  /\ status[c] # "asked"
  /\ request'[c].batch \in Seq(EventType)
  /\ request' = [request EXCEPT ![c] = request'[c]]
  /\ status' = [status EXCEPT ![c] = "asked"]
  /\ UNCHANGED <<log, view>>

Settle(c, verdict) ==
  /\ status' = [status EXCEPT ![c] = verdict]
  /\ request' = [request EXCEPT ![c] = NoRequest]

IsCurrent(c) == MatchingEvents(log, view[c].query) = view[c].events

Accept(c) ==
  /\ status[c] = "asked"
  /\ request[c].conditional => IsCurrent(c)
  /\ log' = log \o Numbered(request[c].batch, Len(log))
  /\ Settle(c, "accepted")
  /\ UNCHANGED view

Refuse(c) ==
  /\ status[c] = "asked"
  /\ request[c].conditional /\ ~IsCurrent(c)
  /\ Settle(c, "refused")
  /\ UNCHANGED <<log, view>>

(* The process is replaced by another one, which may find only a prefix.   *)
Restart ==
  /\ \E n \in 0..Len(log) : log' = SubSeq(log, 1, n)
  /\ FreshCallers'

AbsNext ==
  \/ \E c \in Caller : Read(c) \/ Ask(c) \/ Accept(c) \/ Refuse(c)
  \/ Restart

AbsSpec == AbsInit /\ [][AbsNext]_absVars
=============================================================================
