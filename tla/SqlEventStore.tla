---------------------------- MODULE SqlEventStore ----------------------------
(***************************************************************************)
(* The event stores over an SQL table: PostgresEventStore, D1EventStore    *)
(* and SupabaseEventStore, the last one with its own notifier or with      *)
(* Supabase Realtime (packages/postgres, packages/d1, packages/supabase).  *)
(*                                                                         *)
(* The stores share their interface, the check of the context inside the   *)
(* statement that inserts, and the table; "kind" says which of them a      *)
(* behaviour is about.  There is one store object per scope: a tenant, or  *)
(* the shared stream of a store without tenantId.                          *)
(*                                                                         *)
(* The database is not part of the repository.  It is modelled from the    *)
(* statements the stores send: D1 runs one at a time; Postgres, also under *)
(* Supabase, runs each in a transaction of its own at READ COMMITTED, so   *)
(* that it reads the rows committed when it started and its own rows       *)
(* become visible when it commits, and draws the BIGSERIAL numbers of the  *)
(* rows as it inserts them, outside any transaction.                       *)
(***************************************************************************)
EXTENDS EventLog, FiniteSetsExt

CONSTANTS
  Kind,            \* the stores considered, a subset of StoreKind
  Proc,            \* callers with at most one call under way each
  Scope,           \* the tenants, and the shared stream
  Subscription,    \* the subscriptions that are ever made
  Deployment,      \* the scopes the stores of callers and subscriptions may have
  Filters,         \* the lists of filters of the queries
  Batch,           \* the arguments of append(): sequences of event types
  PoolSize,        \* clients in the connection pool of a Postgres store
  StatementErrors, \* statements may fail, and answers may be lost
  MaxCalls         \* bound: calls made by each caller, a function

StoreKind == {"postgres", "d1", "supabase", "realtime"}

(* A filter is the set of event types it lists; {} matches every event.    *)
Filter == SUBSET EventType

ASSUME SqlAssumption ==
  /\ Kind \subseteq StoreKind
  /\ Deployment \subseteq [Proc \cup Subscription -> Scope]
  /\ Filters \subseteq Seq(Filter)
  /\ Batch \subseteq Seq(EventType)
  /\ PoolSize \in Nat \ {0}
  /\ StatementErrors \in BOOLEAN
  /\ MaxCalls \in [Proc -> Nat]

Row == [sequenceNumber : Nat, eventType : EventType, scope : Scope]
SqlQuery == [filters : Seq(Filter), min : Nat]

VARIABLES
  kind, scopeOf,              \* the stores this behaviour is about
  rows, lastNumber,           \* the committed rows; the last number drawn
  pc, calls, args,            \* where each call awaits; its arguments
  view, collected,            \* the last result; what polling has gathered
  result,                     \* outcome of the caller's last call
  connecting, checkedOut,     \* the pools: callers waiting, callers with a client
  snapshot, inserted,         \* what a running statement reads; its new rows
  handling,                   \* the handlers a call to notify() waits for
  subscriptions, created,     \* the notifiers, or the realtime channels
  joined, channel, delivered, \* channels joined; rows under way; rows handled
  before                      \* history: the rows committed before each join

tableVars == <<rows, lastNumber>>
callVars  == <<pc, calls, args, view, collected, result>>
poolVars  == <<connecting, checkedOut>>
stmtVars  == <<snapshot, inserted>>
subVars   == <<subscriptions, created>>
channelVars == <<joined, channel, before>>
rigid == <<kind, scopeOf>>
vars == <<rigid, tableVars, callVars, poolVars, stmtVars, handling, subVars,
          channelVars, delivered>>

Pooled   == kind = "postgres"
Atomic   == kind = "d1"
Realtime == kind = "realtime"

NoQuery == [filters |-> <<>>, min |-> 0]
NoView  == [query |-> NoQuery, events |-> {}, max |-> 0, drawn |-> 0]
NoArgs  == [query |-> NoQuery, batch |-> <<>>, conditional |-> FALSE,
            expected |-> 0, basis |-> NoView]

Init ==
  /\ kind \in Kind /\ scopeOf \in Deployment
  /\ rows = {} /\ lastNumber = 0
  /\ pc = [p \in Proc |-> "idle"] /\ calls = [p \in Proc |-> 0]
  /\ args = [p \in Proc |-> NoArgs]
  /\ view = [p \in Proc |-> NoView] /\ collected = [p \in Proc |-> {}]
  /\ result = [p \in Proc |-> "none"]
  /\ connecting = [c \in Scope |-> <<>>] /\ checkedOut = {}
  /\ snapshot = [p \in Proc |-> {}] /\ inserted = [p \in Proc |-> <<>>]
  /\ handling = [p \in Proc |-> {}]
  /\ subscriptions = {} /\ created = {}
  /\ joined = {} /\ channel = [s \in Subscription |-> <<>>]
  /\ delivered = [s \in Subscription |-> <<>>]
  /\ before = [s \in Subscription |-> {}]

-----------------------------------------------------------------------------
(* What the stores translate a query to.  "after" is the minimum sequence  *)
(* number where the statement honours it.                                  *)
InScope(scope, row) == row.scope = scope

FilterMatches(filter, row) == filter = {} \/ row.eventType \in filter

SomeFilterMatches(filters, row) ==
  \E i \in DOMAIN filters : FilterMatches(filters[i], row)

(* Postgres: tenant AND number AND (f1) OR (f2) OR ..., where AND binds    *)
(* stronger.  An empty filter compiles to nothing: before the first clause *)
(* it disappears, after it it leaves an OR without an operand.             *)
Clauses(filters) == {i \in DOMAIN filters : filters[i] # {}}

(* Mutant: the minimum itself is included.                                 *)
PostgresWhereFrom(scope, filters, after, row) ==
  LET guarded == InScope(scope, row) /\ row.sequenceNumber >= after
  IN  IF Clauses(filters) = {} THEN guarded
      ELSE \E i \in Clauses(filters) :
             /\ row.eventType \in filters[i]
             /\ i = Min(Clauses(filters)) => guarded

PostgresWhere(scope, filters, after, row) ==
  LET guarded == InScope(scope, row) /\ row.sequenceNumber > after
  IN  IF Clauses(filters) = {} THEN guarded
      ELSE \E i \in Clauses(filters) :
             /\ row.eventType \in filters[i]
             /\ i = Min(Clauses(filters)) => guarded

Malformed(filters) ==
  Pooled /\ \E i \in Clauses(filters), j \in DOMAIN filters \ Clauses(filters) : i < j

(* Mutant: the first number after the minimum is skipped.                  *)
ParenthesisedWhereSkipping(scope, filters, after, row) ==
  /\ InScope(scope, row) /\ (after > 0 => row.sequenceNumber > after + 1)
  /\ filters = <<>> \/ SomeFilterMatches(filters, row)

(* D1 and Supabase: the filters are one operand of the conjunction.        *)
ParenthesisedWhere(scope, filters, after, row) ==
  /\ InScope(scope, row) /\ row.sequenceNumber > after
  /\ filters = <<>> \/ SomeFilterMatches(filters, row)

Where(scope, filters, after, row) ==
  IF Pooled THEN PostgresWhere(scope, filters, after, row)
  ELSE ParenthesisedWhere(scope, filters, after, row)

(* D1 filters once more in JavaScript, where no filters match no event.    *)
PostFilter(filters, row) == Atomic => SomeFilterMatches(filters, row)

(* Mutant: no fallback to 0 when nothing matches.                          *)
LargestWithoutFallback(records) ==
  IF records = {} THEN -1 ELSE Max({r.sequenceNumber : r \in records})

Largest(records) ==
  IF records = {} THEN 0 ELSE Max({r.sequenceNumber : r \in records})

Selected(scope, query) ==
  {r \in rows : /\ Where(scope, query.filters, query.min, r)
                /\ PostFilter(query.filters, r)}

(* Mutant: the check has lost its tenant clause.                           *)
ContextMaxOfAnyScope(p, visible) ==
  IF args[p].conditional
  THEN Largest({r \in visible : Where(r.scope, args[p].query.filters, 0, r)})
  ELSE 0

(* The maximum the statement of an append() compares, among the rows it    *)
(* reads.  minSequenceNumber is not part of the context.  Without filters  *)
(* the context is that of an event type that does not exist.               *)
ContextMax(p, visible) ==
  IF args[p].conditional
  THEN Largest({r \in visible : Where(scopeOf[p], args[p].query.filters, 0, r)})
  ELSE 0

(* Mutant: events beyond the expected maximum are no conflict.             *)
ContextHoldsAtLeast(p, visible) == ContextMax(p, visible) >= args[p].expected

ContextHolds(p, visible) == ContextMax(p, visible) = args[p].expected

-----------------------------------------------------------------------------
At(p, label) == pc[p] = label
Goto(p, label) == pc' = [pc EXCEPT ![p] = label]
Outcome(p, outcome) == result' = [result EXCEPT ![p] = outcome]

(* A call that needs the database: pool.connect() first, in the order of   *)
(* the requests, or the statement at once.                                 *)
StartCall(p, label, arguments) ==
  /\ At(p, "idle") /\ calls[p] < MaxCalls[p]
  /\ calls' = [calls EXCEPT ![p] = @ + 1]
  /\ args' = [args EXCEPT ![p] = arguments]
  /\ Outcome(p, "none")
  /\ IF Pooled
     THEN /\ Goto(p, "connecting")
          /\ connecting' = [connecting EXCEPT ![scopeOf[p]] = Append(@, p)]
     ELSE Goto(p, label) /\ UNCHANGED connecting
  /\ UNCHANGED checkedOut

Connect(p) ==
  LET c == scopeOf[p]
  IN  /\ At(p, "connecting") /\ Head(connecting[c]) = p
      /\ Cardinality({q \in checkedOut : scopeOf[q] = c}) < PoolSize
      /\ checkedOut' = checkedOut \cup {p}
      /\ connecting' = [connecting EXCEPT ![c] = Tail(@)]
      /\ Goto(p, IF args[p].batch = <<>> THEN "querying" ELSE "executing")
      /\ UNCHANGED <<rigid, tableVars, calls, args, view, collected, result,
                     stmtVars, handling, subVars, channelVars, delivered>>

(* client.release() in the finally block of every call.                    *)
Release(p) == checkedOut' = checkedOut \ {p} /\ UNCHANGED connecting

(* The end of a call, whatever its outcome; its local variables go.        *)
Settle(p, outcome) ==
  /\ Goto(p, "idle") /\ Outcome(p, outcome)
  /\ Release(p)
  /\ args' = [args EXCEPT ![p] = NoArgs]
  /\ snapshot' = [snapshot EXCEPT ![p] = {}]
  /\ inserted' = [inserted EXCEPT ![p] = <<>>]

(* query() of a list of filters; or of the same list again, for the events *)
(* after the maximum of the last result only (incremental loading).        *)
QueryCall(p) ==
  \E q \in {[filters |-> f, min |-> 0] : f \in Filters}
           \cup {[view[p].query EXCEPT !.min = view[p].max]} :
    /\ StartCall(p, "querying", [NoArgs EXCEPT !.query = q])
    /\ UNCHANGED <<rigid, tableVars, view, collected, stmtVars, handling, subVars,
                   channelVars, delivered>>

(* One SELECT, whose rows become the result.                               *)
QueryRead(p) ==
  LET q      == args[p].query
      events == Selected(scopeOf[p], q)
  IN  /\ At(p, "querying") /\ ~Malformed(q.filters)
      /\ view' = [view EXCEPT ![p] =
                    [query |-> q, events |-> events, max |-> Largest(events),
                     drawn |-> lastNumber]]
      /\ collected' = [collected EXCEPT
                         ![p] = IF q.filters = view[p].query.filters
                                THEN @ \cup events ELSE events]
      /\ Settle(p, "resolved")
      /\ UNCHANGED <<rigid, tableVars, calls, handling, subVars, channelVars, delivered>>

QueryFails(p) ==
  /\ At(p, "querying")
  /\ StatementErrors \/ Malformed(args[p].query.filters)
  /\ Settle(p, "failed")
  /\ UNCHANGED <<rigid, tableVars, calls, view, collected, handling, subVars,
                 channelVars, delivered>>

-----------------------------------------------------------------------------
(* append(): an empty batch returns, filters need an expected maximum, and *)
(* without filters nothing is checked.  A command handler passes the query *)
(* it has read with and the maximum it was told.                           *)
AppendArgs(p, batch, conditional) ==
  [query |-> view[p].query, batch |-> batch, conditional |-> conditional,
   expected |-> IF conditional THEN view[p].max ELSE 0, basis |-> view[p]]

AppendCall(p) ==
  \E b \in Batch \ {<<>>}, conditional \in BOOLEAN :
    /\ conditional => view[p].query.filters # <<>>
    /\ StartCall(p, "executing", AppendArgs(p, b, conditional))
    /\ UNCHANGED <<rigid, tableVars, view, collected, stmtVars, handling, subVars,
                   channelVars, delivered>>

AppendReturnsEarly(p) ==
  /\ At(p, "idle") /\ calls[p] < MaxCalls[p]
  /\ calls' = [calls EXCEPT ![p] = @ + 1]
  /\ \/ <<>> \in Batch /\ Outcome(p, "resolved")
     \/ view[p].query.filters # <<>> /\ Outcome(p, "failed")
  /\ UNCHANGED <<rigid, tableVars, pc, args, view, collected, poolVars, stmtVars,
                 handling, subVars, channelVars, delivered>>

NewRow(p, number) ==
  [sequenceNumber |-> number, scope |-> scopeOf[p],
   eventType |-> args[p].batch[Len(inserted[p]) + 1]]

(* The rows of a commit reach the channels that have joined.               *)
Broadcast(records) ==
  channel' = [s \in Subscription |->
                IF s \in joined THEN channel[s] \o records ELSE channel[s]]

(* Mutant: the INSERT has lost its WHERE clause.                           *)
ExecuteUnchecked(p) ==
  LET records == [i \in DOMAIN args[p].batch |->
                    [sequenceNumber |-> lastNumber + i, scope |-> scopeOf[p],
                     eventType |-> args[p].batch[i]]]
  IN  /\ Atomic /\ At(p, "executing")
      /\ inserted' = [inserted EXCEPT ![p] = records]
      /\ rows' = rows \cup {records[i] : i \in DOMAIN records}
      /\ lastNumber' = lastNumber + Len(records)
      /\ Goto(p, "committed")
      /\ UNCHANGED <<rigid, calls, args, view, collected, result, poolVars, snapshot,
                     handling, subVars, channelVars, delivered>>

(* D1: the check, the numbers and the rows in one indivisible statement.   *)
ExecuteAtOnce(p) ==
  LET records == [i \in DOMAIN args[p].batch |->
                    [sequenceNumber |-> lastNumber + i, scope |-> scopeOf[p],
                     eventType |-> args[p].batch[i]]]
  IN  /\ Atomic /\ At(p, "executing") /\ ContextHolds(p, rows)
      /\ inserted' = [inserted EXCEPT ![p] = records]
      /\ rows' = rows \cup {records[i] : i \in DOMAIN records}
      /\ lastNumber' = lastNumber + Len(records)
      /\ Goto(p, "committed")
      /\ UNCHANGED <<rigid, calls, args, view, collected, result, poolVars, snapshot,
                     handling, subVars, channelVars, delivered>>

(* Postgres: the statement starts with the rows committed at that moment.  *)
StatementStart(p) ==
  /\ ~Atomic /\ At(p, "executing") /\ ~Malformed(args[p].query.filters)
  /\ snapshot' = [snapshot EXCEPT ![p] = rows]
  /\ inserted' = [inserted EXCEPT ![p] = <<>>]
  /\ Goto(p, "inserting")
  /\ UNCHANGED <<rigid, tableVars, calls, args, view, collected, result, poolVars,
                 handling, subVars, channelVars, delivered>>

(* Mutant: a statement of its own for every row, which is visible at once.  *)
InsertRowByItself(p) ==
  /\ At(p, "inserting") /\ ContextHolds(p, snapshot[p])
  /\ Len(inserted[p]) < Len(args[p].batch)
  /\ lastNumber' = lastNumber + 1
  /\ rows' = rows \cup {NewRow(p, lastNumber + 1)}
  /\ inserted' = [inserted EXCEPT ![p] = Append(@, NewRow(p, lastNumber + 1))]
  /\ UNCHANGED <<rigid, callVars, poolVars, snapshot, handling, subVars,
                 channelVars, delivered>>

(* ... inserts its rows, each under the next number of the sequence ...    *)
InsertRow(p) ==
  /\ At(p, "inserting") /\ ContextHolds(p, snapshot[p])
  /\ Len(inserted[p]) < Len(args[p].batch)
  /\ lastNumber' = lastNumber + 1
  /\ inserted' = [inserted EXCEPT ![p] = Append(@, NewRow(p, lastNumber + 1))]
  /\ UNCHANGED <<rigid, rows, callVars, poolVars, snapshot, handling, subVars,
                 channelVars, delivered>>

(* ... and commits.                                                        *)
Commit(p) ==
  /\ At(p, "inserting") /\ Len(inserted[p]) = Len(args[p].batch)
  /\ rows' = rows \cup {inserted[p][i] : i \in DOMAIN inserted[p]}
  /\ Broadcast(inserted[p])
  /\ Goto(p, "committed")
  /\ UNCHANGED <<rigid, lastNumber, calls, args, view, collected, result, poolVars,
                 stmtVars, handling, subVars, joined, before, delivered>>

(* No rows come back: the context has changed.                             *)
Refused(p) ==
  /\ \/ At(p, "executing") /\ Atomic /\ ~ContextHolds(p, rows)
     \/ At(p, "inserting") /\ ~ContextHolds(p, snapshot[p])
  /\ Settle(p, "refused")
  /\ UNCHANGED <<rigid, tableVars, calls, view, collected, handling, subVars,
                 channelVars, delivered>>

(* The statement fails, and numbers it has drawn are lost; or it commits   *)
(* and its answer is lost.  append() rejects, and nobody is notified.      *)
StatementFails(p) ==
  /\ \/ StatementErrors /\ pc[p] \in {"executing", "inserting", "committed"}
     \/ At(p, "executing") /\ Malformed(args[p].query.filters)
  /\ Settle(p, "failed")
  /\ UNCHANGED <<rigid, tableVars, calls, view, collected, handling, subVars,
                 channelVars, delivered>>

-----------------------------------------------------------------------------
Listeners(p) == {s \in subscriptions : scopeOf[s] = scopeOf[p]}

(* notify(): the batch goes to every subscription of this store object,    *)
(* and append() waits, with its client, for their handlers.  Calls for     *)
(* different appends run side by side.  With Realtime there is no notify.  *)
NotifyStart(p) ==
  /\ At(p, "committed")
  /\ IF Realtime
     THEN Settle(p, "resolved") /\ UNCHANGED <<handling, delivered>>
     ELSE /\ handling' = [handling EXCEPT ![p] = Listeners(p)]
          /\ delivered' = [s \in Subscription |->
               IF s \in Listeners(p) THEN delivered[s] \o inserted[p] ELSE delivered[s]]
          /\ Goto(p, "notifying")
          /\ UNCHANGED <<result, args, poolVars, stmtVars>>
  /\ UNCHANGED <<rigid, tableVars, calls, view, collected, subVars,
                 channelVars>>

HandlerSettles(p) ==
  /\ \E s \in handling[p] : handling' = [handling EXCEPT ![p] = @ \ {s}]
  /\ UNCHANGED <<rigid, tableVars, callVars, poolVars, stmtVars, subVars, channelVars,
                 delivered>>

(* Mutant: the client is not released.                                     *)
NotifyEndKeepingClient(p) ==
  /\ At(p, "notifying") /\ handling[p] = {}
  /\ Goto(p, "idle") /\ Outcome(p, "resolved")
  /\ UNCHANGED <<rigid, tableVars, calls, args, view, collected, poolVars, stmtVars,
                 handling, subVars, channelVars, delivered>>

NotifyEnd(p) ==
  /\ At(p, "notifying") /\ handling[p] = {}
  /\ Settle(p, "resolved")
  /\ UNCHANGED <<rigid, tableVars, calls, view, collected, handling, subVars,
                 channelVars, delivered>>

(* subscribe() resolves at once; a channel joins later.                    *)
Subscribe(s) ==
  /\ s \notin created
  /\ created' = created \cup {s} /\ subscriptions' = subscriptions \cup {s}
  /\ UNCHANGED <<rigid, tableVars, callVars, poolVars, stmtVars, handling, channelVars,
                 delivered>>

ChannelJoins(s) ==
  /\ Realtime /\ s \in subscriptions \ joined
  /\ joined' = joined \cup {s} /\ before' = [before EXCEPT ![s] = rows]
  /\ UNCHANGED <<rigid, tableVars, callVars, poolVars, stmtVars, handling, subVars,
                 channel, delivered>>

(* unsubscribe(), and each step of the loop in SupabaseEventStore.close(): *)
(* the channel is left and what it still carried is lost.                  *)
Unsubscribe(s) ==
  /\ s \in subscriptions
  /\ subscriptions' = subscriptions \ {s}
  /\ joined' = joined \ {s} /\ channel' = [channel EXCEPT ![s] = <<>>]
  /\ before' = [before EXCEPT ![s] = {}]
  /\ UNCHANGED <<rigid, tableVars, callVars, poolVars, stmtVars, handling, created,
                 delivered>>

(* Mutant: the rows of other scopes are not left out.                      *)
RealtimeRowOfAnyScope(s) ==
  /\ channel[s] # <<>>
  /\ channel' = [channel EXCEPT ![s] = Tail(@)]
  /\ delivered' = [delivered EXCEPT ![s] = Append(@, Head(channel[s]))]
  /\ UNCHANGED <<rigid, tableVars, callVars, poolVars, stmtVars, handling, subVars,
                 joined, before>>

(* Mutant: a row whose number is not larger than the last one is taken for *)
(* a repetition, though statements may commit in another order.            *)
RealtimeRowAscending(s) ==
  /\ channel[s] # <<>>
  /\ channel' = [channel EXCEPT ![s] = Tail(@)]
  /\ delivered' =
       IF /\ InScope(scopeOf[s], Head(channel[s]))
          /\ \A i \in DOMAIN delivered[s] :
               delivered[s][i].sequenceNumber < Head(channel[s]).sequenceNumber
       THEN [delivered EXCEPT ![s] = Append(@, Head(channel[s]))]
       ELSE delivered
  /\ UNCHANGED <<rigid, tableVars, callVars, poolVars, stmtVars, handling, subVars,
                 joined, before>>

(* The callback of a channel gets every row of the table and hands those   *)
(* of its scope to the handler, one by one, without waiting for it.        *)
RealtimeRow(s) ==
  /\ channel[s] # <<>>
  /\ channel' = [channel EXCEPT ![s] = Tail(@)]
  /\ delivered' = IF InScope(scopeOf[s], Head(channel[s]))
                  THEN [delivered EXCEPT ![s] = Append(@, Head(channel[s]))]
                  ELSE delivered
  /\ UNCHANGED <<rigid, tableVars, callVars, poolVars, stmtVars, handling, subVars,
                 joined, before>>

(* notifier.close().                                                       *)
CloseNotifier(c) ==
  /\ ~Realtime
  /\ \E s \in subscriptions : scopeOf[s] = c
  /\ subscriptions' = {s \in subscriptions : scopeOf[s] # c}
  /\ UNCHANGED <<rigid, tableVars, callVars, poolVars, stmtVars, handling, created,
                 channelVars, delivered>>

CallStep(p) ==
  \/ QueryCall(p) \/ AppendCall(p) \/ AppendReturnsEarly(p) \/ Connect(p)
  \/ QueryRead(p) \/ QueryFails(p)
  \/ ExecuteAtOnce(p) \/ StatementStart(p) \/ InsertRow(p) \/ Commit(p)
  \/ Refused(p) \/ StatementFails(p)
  \/ NotifyStart(p) \/ HandlerSettles(p) \/ NotifyEnd(p)

SubscriptionStep(s) ==
  Subscribe(s) \/ ChannelJoins(s) \/ Unsubscribe(s) \/ RealtimeRow(s)

Next ==
  \/ \E p \in Proc : CallStep(p)
  \/ \E s \in Subscription : SubscriptionStep(s)
  \/ \E c \in Scope : CloseNotifier(c)

Spec == Init /\ [][Next]_vars

-----------------------------------------------------------------------------
Label == {"idle", "connecting", "querying", "executing", "inserting", "committed",
          "notifying"}
View == [query : SqlQuery, events : SUBSET Row, max : Nat, drawn : Nat]

SqlTypeOK ==
  /\ kind \in StoreKind /\ scopeOf \in [Proc \cup Subscription -> Scope]
  /\ rows \subseteq Row /\ lastNumber \in Nat
  /\ pc \in [Proc -> Label] /\ calls \in [Proc -> Nat]
  /\ args \in [Proc -> [query : SqlQuery, batch : Seq(EventType),
                        conditional : BOOLEAN, expected : Nat, basis : View]]
  /\ view \in [Proc -> View] /\ collected \in [Proc -> SUBSET Row]
  /\ result \in [Proc -> {"none", "resolved", "refused", "failed"}]
  /\ connecting \in [Scope -> Seq(Proc)] /\ checkedOut \subseteq Proc
  /\ snapshot \in [Proc -> SUBSET Row] /\ inserted \in [Proc -> Seq(Row)]
  /\ handling \in [Proc -> SUBSET Subscription]
  /\ subscriptions \subseteq Subscription /\ created \subseteq Subscription
  /\ joined \subseteq Subscription /\ channel \in [Subscription -> Seq(Row)]
  /\ before \in [Subscription -> SUBSET Row]
  /\ delivered \in [Subscription -> Seq(Row)]

(* What a query asks for, as the in-memory store answers it.               *)
Meaning(query) ==
  [types |-> IF \E i \in DOMAIN query.filters : query.filters[i] = {} THEN {}
             ELSE UNION {query.filters[i] : i \in DOMAIN query.filters},
   min |-> query.min]

Requested(scope, query, records) ==
  {r \in records : InScope(scope, r) /\ Matches(Meaning(query), r)}

(* The queries a store translates faithfully: in Postgres several filters  *)
(* escape the other conditions, in D1 no filters match nothing.            *)
Faithful(query) ==
  /\ Pooled => Len(query.filters) <= 1
  /\ Atomic => query.filters # <<>>

(* A faithful query answers with the committed events of its scope that    *)
(* its filters and its minimum ask for, and with no others (sql.ts,        *)
(* query-filter.ts, processQuery and matchesTenantScope agree).            *)
AnswersMatchTheQuery ==
  [][\A p \in Proc :
       At(p, "querying") /\ result'[p] = "resolved" /\ Faithful(args[p].query) =>
         view'[p].events = Requested(scopeOf[p], args[p].query, rows)]_vars

TakesEffect(p) == ~At(p, "committed") /\ pc'[p] = "committed"

(* README.md:292: an append() "only succeeds if no conflicting events were *)
(* added": when it takes effect, its query would still give the events the *)
(* decision was made on.                                                   *)
DecisionHolds(p) ==
  args[p].conditional /\ Faithful(args[p].query) =>
    Requested(scopeOf[p], args[p].basis.query, rows) = args[p].basis.events

ConflictsAreRefused == [][\A p \in Proc : TakesEffect(p) => DecisionHolds(p)]_vars

(* D1's single statement keeps the promise (d1/src/store.ts:103-124).      *)
DecisionIsCurrentInD1 ==
  [][\A p \in Proc : Atomic /\ TakesEffect(p) => DecisionHolds(p)]_vars

(* In every store, an append() never takes effect over a conflicting event *)
(* that was committed before its statement began and numbered after its    *)
(* query: what the check can miss are only statements that overlapped the  *)
(* query or the append itself.                                             *)
LaterConflictsAreRefused ==
  [][\A p \in Proc :
       TakesEffect(p) /\ args[p].conditional /\ Faithful(args[p].query) =>
         \A r \in Requested(scopeOf[p], args[p].query,
                            IF Atomic THEN rows ELSE snapshot[p]) :
           r.sequenceNumber <= args[p].basis.drawn]_vars

(* A refusal is justified: the events that its caller decided on are no    *)
(* longer those its query would give among the rows the statement reads,   *)
(* whatever other tenants append.  A caller who has read on from a minimum *)
(* and found nothing has no maximum to pass and is refused without cause   *)
(* (d1/src/store.ts:103-131, postgres/src/store.ts:198-208).               *)
RefusalsAreJustified ==
  [][\A p \in Proc :
       LET basis == args[p].basis
       IN  /\ result'[p] = "refused" /\ ~At(p, "idle")
           /\ Faithful(args[p].query)
           /\ basis.query.min = 0 \/ basis.events # {}
           => Requested(scopeOf[p], basis.query, IF Atomic THEN rows ELSE snapshot[p])
                # basis.events]_vars

(* Reading on from the maximum of the last result gathers everything D1    *)
(* had committed when it was asked (README.md:267).                        *)
PollingMissesNothing ==
  Atomic => \A p \in Proc :
    Faithful(view[p].query) =>
      \A r \in Requested(scopeOf[p], [view[p].query EXCEPT !.min = 0], rows) :
        r.sequenceNumber <= view[p].drawn => r \in collected[p]

(* A subscription receives no event twice, none that is not committed, and *)
(* none of another scope, from notify() and from Realtime alike.           *)
DeliveredOnce ==
  \A s \in Subscription : \A i \in DOMAIN delivered[s] :
    /\ delivered[s][i] \in rows /\ InScope(scopeOf[s], delivered[s][i])
    /\ \A j \in DOMAIN delivered[s] : i < j => delivered[s][i] # delivered[s][j]

(* Rows committed before its channel has joined do not reach a Realtime    *)
(* subscription, but from then on, until it leaves, every row of its scope *)
(* has been handled or is under way, also when the answer of the append    *)
(* was lost (supabase/src/store.ts:231-261).                               *)
JoinedChannelsMissNothing ==
  \A s \in joined : \A r \in rows \ before[s] :
    InScope(scopeOf[s], r) =>
      \/ \E i \in DOMAIN channel[s] : channel[s][i] = r
      \/ \E i \in DOMAIN delivered[s] : delivered[s][i] = r

(* README.md:263: a query with minSequenceNumber gives "only events with   *)
(* sequenceNumber >" that number.                                          *)
MinimumIsRespected ==
  \A p \in Proc : \A e \in view[p].events : e.sequenceNumber > view[p].query.min

(* A client of the pool is checked out exactly while its call is between   *)
(* pool.connect() and the end, whatever the end is, and a call waits for   *)
(* one exactly while it is queued: none is lost when the check or the      *)
(* statement throws, and append() keeps its client until its handlers have *)
(* settled (store.ts:131-145 and 192-216).                                 *)
PoolFollowsCalls ==
  /\ checkedOut = {p \in Proc : Pooled /\ pc[p] \notin {"idle", "connecting"}}
  /\ \A c \in Scope :
       /\ {connecting[c][i] : i \in DOMAIN connecting[c]}
            = {p \in Proc : scopeOf[p] = c /\ At(p, "connecting")}
       /\ Cardinality({p \in checkedOut : scopeOf[p] = c}) <= PoolSize

-----------------------------------------------------------------------------
(* The stores as one table with atomic appends: what the mapping makes of  *)
(* a call.  An append asks when it is called, is decided by the check of   *)
(* its statement, and takes effect when the statement commits, or in D1 at *)
(* once.  A query that is not translated faithfully shows nothing, and an  *)
(* append() that checks with one is unconditional: nothing is promised.    *)
Asking(p) == args[p].batch # <<>> /\ pc[p] \in {"connecting", "executing", "inserting"}

Seen ==
  [p \in Proc |->
     IF Faithful(view[p].query)
     THEN [query |-> Meaning(view[p].query), events |-> view[p].events,
           drawn |-> view[p].drawn]
     ELSE [query |-> Meaning(NoQuery), events |-> {}, drawn |-> 0]]

Asked ==
  [p \in Proc |->
     IF Asking(p)
     THEN [batch |-> args[p].batch,
           conditional |-> args[p].conditional /\ Faithful(args[p].query),
           decided |-> At(p, "inserting") /\ ContextHolds(p, snapshot[p])]
     ELSE [batch |-> <<>>, conditional |-> FALSE, decided |-> FALSE]]

Drafted == [p \in Proc |-> IF At(p, "inserting") THEN inserted[p] ELSE <<>>]

Shared == INSTANCE SharedEventTable WITH
  Caller <- Proc, Tenant <- Scope, overlapping <- ~Atomic, tenantOf <- scopeOf,
  table <- rows, drawn <- lastNumber, view <- Seen, request <- Asked, draft <- Drafted

(* The stores implement the shared table with atomic appends: the rows of  *)
(* an append() become visible together or not at all, under numbers drawn  *)
(* for it alone, and only if its check, made at one instant, found nothing *)
(* that was numbered after its caller had read; in D1, if the events read  *)
(* are still those the query would give (the append() of the interface     *)
(* EventStore, packages/core/src/eventstore/types.ts:43-54).               *)
ImplementsTable == Shared!AbsSpec
=============================================================================
