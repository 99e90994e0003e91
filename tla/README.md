# Verification of eventstore-typescript

TLA+ models of the event stores of this repository and of the banking application
built on them, TLC runs that check them on small instances, and TLAPS proofs of the
safety properties of the lock, of the in-memory store (with its notification chain,
its file, and the abstract log it implements), of the SQL stores (with the shared
table they implement), and of the banking application with the tables it projects. Paths in this file are relative to the
root of the repository; `core/`, `postgres/`, `d1/` and `supabase/` stand for
`packages/core/src/` and so on, and `mem/` for
`packages/core/src/eventstore/stores/memory/`.

## 1. The system

An event store keeps one log of events, each with a sequence number. A command
handler *queries* the log with filters, *decides* on what it sees, and *appends*
events together with its query and the maximum number it saw. The append is
refused if the query would have another maximum by then (optimistic locking, with
the query as the consistency boundary). Subscribers are told of every event
appended.

| Component | State | Operations | Interacts with |
|---|---|---|---|
| Readers/writer lock, `mem/readwritelock.ts` | two counters, FIFO queue of waiting promises | `acquireRead/Write`, `releaseRead/Write`, `processQueue` | taken by `query()` and `append()` of the in-memory store |
| Event stream and matching, `mem/eventstream.ts`, `mem/queryprocessor.ts`, `core/eventstore/filter` | array of records, last number | `append`, `getAll`, `serialize`, `deserialize`, `processQuery`, `createQuery` | owned by the in-memory store |
| In-memory store, `mem/index.ts` | stream, lock, notification chain, name of the write-through file | `query`, `queryAll`, `append`, `subscribe`, `storeToFile`, `createFromFile` | lock, stream, notifier, file system |
| In-memory notifier, `core/eventstore/notifiers/memory` | map of subscriptions | `subscribe`, `unsubscribe`, `notify`, `close` | called by every store; calls the handlers |
| Postgres store, `postgres/` | connection pool; the table is in the database | `query`, `append`, `subscribe`, `initializeDatabase`, `close` | database, notifier |
| D1 store, `d1/` | the table is in the database | as above, with a second filter over the rows in memory | database, notifier |
| Supabase store, `supabase/` | map of Realtime channels or a notifier | as above; `append` calls a database function | database, Realtime |
| Banking commands, `core/examples/banking/features/*` | none: state is folded from the log for each command | open, deposit, withdraw, transfer, get-account | any event store |
| Banking projections, `list-accounts`, `analytics` | two tables | listeners, rebuilds | subscriptions and `query()` of the store; their own connections |
| Banking read side, `list-accounts/handler.ts`, `analytics/handler.ts`, `get-account` | none | the list of accounts, the count of openings, one account folded from the log | the two tables; `query()` of the store |
| Banking command line, `banking/cli.ts` | the menu it waits in | one command after the other, rebuilds, end of the process | commands, projections, read side |
| Scripts, schemas | none of the running system | text generation | — |

What is hard here:

* **Interleaving at every await.** `append()` of the in-memory store reads the
  context, awaits, and compares; without the lock its check would be worthless.
  An unfiltered `query()` answers with the live array, so a caller may hold
  events that are newer than the maximum it was given.
* **Promises that wait for promises.** The lock wakes waiters from `processQueue`,
  where a forgotten call leaves somebody asleep for ever. Notifications of the
  in-memory store are chained, and `append()` waits for its own.
* **Files and crashes.** Write-through rewrites one file in place; a failed write
  leaves the events in memory; a restart must restore the counter with the records.
* **Somebody else's atomicity.** The SQL stores put check and insert into one
  statement, which is atomic in D1 but reads its own snapshot in Postgres. Numbers
  are drawn before the commit.
* **One promise, four translations.** What a query means (filters, none, an empty
  one, a minimum) is compiled differently by each store.
* **Queries that must cover a decision.** A banking command is only as safe as its
  query is complete, and a projection is only right if every event reaches it once.
* **Answers that are lost.** A statement may commit and its answer never arrive:
  `append()` rejects, nobody is notified, and the caller tries again.

The list of hazards with their lines is in `PROJECT.json`.

## 2. The modules

```
ReadWriteLock ──EXTENDS──┐                ConditionalAppendLog   (abstract)
                         ├─ MemoryEventStore ──implements──┘
EventLog ────EXTENDS─────┤
                         ├─ SqlEventStore ────implements─── SharedEventTable (abstract)
                         │    (Postgres, D1, Supabase, Realtime)
                         └─ Banking            (INSTANCE EventLog WITH EventType <- BankEvent)

ReadWriteLockProofs ─┐
EventLogProofs ──────┴─ MemoryEventStoreProofs ── MemoryDeliveryProofs
EventLogProofs ─INSTANCE─ BankingProofs ── BankingTablesProofs
SqlEventStoreProofs ── SqlDeliveryProofs
MCReadWriteLock, MCMemoryEventStore, MCSqlEventStore, MCBanking   (instances for TLC)
```

### EventLog

Records, queries, what matches, the maximum of an answer, the numbering of a
batch. Type and payload of an event matter only for which filters match them: they
are a member of `EventType`, and the filters of a query, which are combined with
OR, are the set of event types at least one of them matches. The structural
comparison `isPredicateASubsetOfPayload` is not modelled further; `Banking`
instantiates the event types with records and its filters with predicates on them.

### ReadWriteLock

`readwritelock.ts` method by method. The two arms of an acquire (granted at once,
or queued) are disjuncts of one action; a release runs `processQueue` in the same
action, because the code does so without an await. `grant` says what a call was
granted: it is the promise the call awaits. A release that throws changes nothing
and is the predicate `ReleaseThrows`.

### MemoryEventStore

One action is the code between two awaits of a call; nothing else of the process
can run in between. A member of `Proc` has one call at a time: an application
client, a `Workflow` (a subscription whose handler appends and awaits that), or a
`Saver` (`storeToFile()` called from outside).

| Code | Actions |
|---|---|
| `query()`, 45–69 | `QueryCall` (acquireRead) → `QueryRead` (process, release, answer) |
| `queryAll()` | `QueryAll`, without the lock |
| `append()`, 92–135 | `AppendCall` (acquireWrite) → `CheckContext` → `ContextChanged` (throws) or `AppendToStream` → with write-through `Serialize` → `WriteSucceeds` or `SaveFails` → `Publish` inside the last of them |
| `storeToFile()` | `SaveCall` → `Serialize` → `WriteSucceeds` or `SaveFails` |
| notification chain and notifier | `NotifyStart`, `HandlerSettles`, `NotifyEnd`, `Subscribe`, `Unsubscribe`, `Close` |
| `createFromFile()`, death of the process | `CreateFromFile`, `CrashAndRestart` |

The file is `missing`, `torn` or `intact`. `fs.writeFile` truncates before it
writes, so a crash or an error during a write leaves it torn; two writes that
overlap leave a torn file or one of the two texts. A handler that throws counts as
settled (`notify()` catches). Handlers that never settle are the constant `Stuck`.
History variables: `acknowledged` (events of appends that resolved), `observed`
(shown by a query or to a handler), `delivered`, and `basis` in the arguments of a
call (the events the caller had in hand when it called `append()`, with the live
array as it is at that moment).

### ConditionalAppendLog

What a store promises to a command handler: one log; an append takes effect at one
instant, only if its caller's query would still give the events the caller saw; a
restart keeps a prefix. `MemoryEventStore` implements it (`ImplementsLog`) with the
instant at `AppendToStream` or at `ContextChanged`.

### SqlEventStore

All SQL stores at once. `kind` (which store) and `scopeOf` (the tenant of each
caller and subscription) are chosen in the initial state and never change, so one
run compares the stores on the same inputs. The database is modelled from the
statements the stores send, on these assumptions: D1 runs statements one at a time
(`ExecuteAtOnce`); Postgres, also under Supabase, runs each in a READ COMMITTED
transaction of its own, so `StatementStart` takes a snapshot of the committed rows,
`InsertRow` draws a number and `Commit` makes the rows visible. The check of the
context happens against the snapshot. A statement may fail, or commit and lose its
answer (`StatementFails`). Postgres has a pool of `PoolSize` clients with a FIFO
of waiting calls, and `append()` keeps its client until the handlers have settled,
as the code does. Realtime delivers row by row to channels that have joined.

The translation of queries is modelled per store, since the properties are about
it: `PostgresWhere` (tenant AND number AND (f1) OR (f2) …, without parentheses
round the OR), `ParenthesisedWhere` for D1 and Supabase, and the `PostFilter` of D1.

### SharedEventTable

What the SQL stores promise to the command handlers of all tenants: one table; a read
shows the events of one's own tenant at a single instant; an append puts all its rows
there at a single instant, under numbers of its own, or nothing. In D1 statements do
not overlap, and an append is decided at that instant, as in `ConditionalAppendLog`.
In Postgres and Supabase they do (`overlapping`), and three instants are left of the
one: it is decided when its statement starts (`Decide`), draws its numbers one by one
(`Draw`), and shows its rows when it commits. The decision can rely only on finding
nothing that was numbered after its caller had read. `SqlEventStore` implements it
(`ImplementsTable`); `Seen`, `Asked` and `Drafted` are the mapping. For queries that
are not translated faithfully nothing is promised: their answer counts as nothing
seen, and an append that checks with one as unconditional.

### Banking

A client is a process of the application. `OpenAccount` and `MoneyCommand` are a
command up to its `append()`: query, fold, validation, decision, with the folds and
the four queries translated predicate by predicate. They are one action because
nothing is awaited between the answer of the query and the call of `append()`.
`AppendEvent` is a conditional append that succeeds, `AppendFails` one that throws
(the context has changed, or the database refuses), `AnswerLost` one that is stored
although its caller is told that it failed; `Return` is the end of the call. The two
listeners handle the event concurrently, as `Promise.allSettled` in `notify()` runs
them, one SQL statement per step (`RunStatement`); a transfer is two statements.
`StatementFails` drops the rest of the event (the listener catches the error) or ends
a rebuild. `Clear` and `ReadHistory` are a rebuild: DELETE, query, then the statements
of all events; `RebuildFails` is the query that throws and leaves the table empty.
`Crash` kills a process that has something in hand beyond a decision: before its
append, a process that dies is no different from one that is refused.

The store under it is the abstract one: append checks and stores at one instant. The
in-memory store does that by `ImplementsLog` and D1 by `DecisionIsCurrentInD1`;
Postgres does for statements that do not overlap (section 3, `postgres_overlap`).
Account ids are uuids. `told` is what anybody can know of them: the call that opened
the account has returned, or the list of accounts has shown its row (`Listed`); only
such ids can be named in a command (`Nameable`). The read side adds no state to
this: the properties say at every instant what the list and the count show. Amounts
are integers; customer names are values, trimmed; the months of the analytics are
one row.

## 3. The runs

| Run | What it asks | Instance | States |
|---|---|---|---|
| `lock` | exclusion, counters, no lost wake-up, FIFO, every waiter served | 4 calls, each again and again | 528 |
| `store_contexts` | are conditional appends decided on current events; does the store implement the abstract log | 2 callers × 3 calls, 2 event types, three queries (one live, one with a minimum) | 526 000 |
| `store_progress` | does every call settle, does every subscriber hear | 2 callers, an external `storeToFile`, 1 subscription, fairness | 7 900 |
| `store_publishing` | is the chain in order and without gaps, is nothing shown that is not on file | write-through, a handler that appends, 2 subscriptions that come and go, batches of 0, 1 and 2 events | 293 000 |
| `store_recovery` | numbering, file and log across failures of the file and a crash | write-through, 2 callers × 2 calls, 1 crash | 369 000 |
| `sql_stores` | do the four stores answer alike, what do their checks guarantee, whom do they refuse, is the pool kept, is delivery exact and, once a channel has joined, complete, do they implement one table with atomic appends | all kinds, 2 tenants, pool of 1, one caller with 3 calls and one with 1, failing statements | 814 000 |
| `banking` | uniqueness, covered balances, projections, under races, failures and rebuilds | 2 processes, 2 accounts, 2 currencies and an unsupported one, logs of 4 events, 1 failure, 1 rebuild | 1.19 million |
| `reentrant_handler`, `crash_while_writing`, `postgres_overlap`, `incremental_query`, `transfer_overdraft` | see below | minimal | stop at the violation |

Properties, in the words of their comments: the modules state each one above its
definition. The ones that carry most:

* `DecisionIsCurrent`: a conditional append takes effect only while the events its
  caller had in hand are exactly those its query would give, live arrays included.
* `ImplementsLog`: refinement of `ConditionalAppendLog`, with and without crashes.
* `NoLostWakeup`, `NoOvertaking`, `WaitersAreServed` of the lock.
* `ChainFollowsStream`, `DeliveredWithoutGaps`, `ObservedIsOnFile`,
  `AcknowledgedIsOnFile`: what subscribers and the file see, and in which order.
* `OnlyTheWriterIsAhead`: `queryAll()` and the live array take no lock and may show
  events whose write could still fail, but only the one batch of the `append()` that
  holds the write lock.
* `AnswersMatchTheQuery`, `LaterConflictsAreRefused`, `PollingMissesNothing`: what
  the SQL translations keep of the in-memory meaning. `LaterConflictsAreRefused`
  says that what a Postgres append can miss are only statements that overlapped
  its query or itself.
* `ImplementsTable`: refinement of `SharedEventTable` by all four kinds of store; the
  rows of an append become visible together, and no statement of another caller, of
  another tenant or one that fails makes a part of them visible.
* `RefusalsAreJustified`, the other half: an append is refused only if the events its
  caller decided on have changed, whatever other tenants write. Excluded is the caller
  who has read on from a minimum and found nothing, who has no maximum to pass.
* `DeliveredOnce` and `JoinedChannelsMissNothing`: `notify()` and Realtime hand out no
  row twice or to another tenant, and a channel that has joined gets every row
  committed since, also when the answer of the append was lost.
* `WithdrawalsAreCovered`: a withdrawal, in whatever currency, never takes more than
  the whole history has left on the account, because its query covers every event that
  moves money there.
* `ListedBalancesAreRight`: at every instant the table and the fold differ by the
  statements of handlers that have not answered yet and by nothing else, unless a
  failure or an overlapping rebuild came in between; a rebuild that overlaps no append
  repairs it. So a client finds its own deposit in the list when its call returns. It
  depends on `append()` returning only after the handlers: otherwise a deposit could be
  applied before the row exists. `OpeningsAreCountedOnce` says the same of the
  analytics, whose statement adds and so counts whatever is applied twice.

### Bounds and why they are enough

Two callers are enough for every race of one append with one other call; the third
and fourth in `lock` make a queue with a reader between writers. Two event types
and the queries over them give a context that an append disturbs and one that it
does not. Three calls give read, decide, and a further read. One crash suffices:
`CrashAndRestart` starts from nothing but the file. In `banking`, a pair of openings
and two movements are the shortest history in which a balance can be wrong; one
failure followed by one rebuild is repair. `MaxCalls`, `MaxCrashes`, `MaxEvents`,
`MaxFailures` and `MaxRebuilds` are the bounds, each in a guard. Runs with bounds say
`CHECK_DEADLOCK FALSE`: a caller that has used up its calls stops. Permutations of
callers, accounts and customers are used as symmetries only where no liveness
property is checked.

Two runs have a `VIEW`. `MCSqlEventStore` leaves out what no later step and no property
depends on: the outcome of calls that are over; except for D1, what a caller has
gathered and the last result of a caller that makes no other call; what an
unconditional append was decided on and what its statement reads, since it compares
nothing; and the arguments of an append that is committed. `MCBanking` leaves out what a table holds after a failure once no rebuild
can follow, but keeps the ids it lists: `ListedBalancesAreRight` and
`OpeningsAreCountedOnce` say nothing of such a table, and only the ids matter to later
commands.

### Fairness

`WF` on the continuation of each call, on each handler, and on the steps of the
notification chain: a promise that is resolved is continued by the event loop, and
file operations end in success or failure. Callers need not call, subscribers need
not subscribe, processes need not crash. Handlers settle unless they are in `Stuck`.
In `ReadWriteLock` the holders release, as `query()` and `append()` do in `finally`;
no fairness is needed for acquiring. There is no fairness in `SqlEventStore` and in
`Banking`, and no liveness is claimed there.

### What the program does other than its documents say

* `reentrant_handler`: a handler that awaits its own `append()` never settles, and
  with it every later append. `README.md:179-188` proposes such subscribers.
* `crash_while_writing`: a crash during a write-through loses everything
  acknowledged before, since the only copy is rewritten in place (`README.md:500`).
* `postgres_overlap`: two overlapping statements both find the maximum they expect
  and both insert (`README.md:292`, `README.md:312`).
* `incremental_query`: in Postgres, `minSequenceNumber` binds only the first of
  several filters (`README.md:263`); so does the tenant.
* `transfer_overdraft`: a transfer's query does not select transfers that left its
  source earlier, so a second transfer of the whole balance succeeds, also with the
  same transfer id (`transfer-money/core.test.ts:320` and `:345`).

Differences met while modelling that have no run of their own:

* With file errors, the events of a failed append stay in the stream and are never
  published: `DeliveredWithoutGaps` does not hold then (it is checked without).
* With a handler that never settles, other subscribers stop hearing
  (`SubscribersAreNotified` fails when `Stuck` is not empty).
* A query without filters: the in-memory store and Postgres return everything, D1
  nothing; an append with such a query is checked by the in-memory store and
  unconditional in Postgres.
* `minSequenceNumber` of the query passed to `append()` is honoured by the
  in-memory store and ignored by the SQL stores.
* An incremental query that finds nothing has maximum 0, not the minimum it was
  asked for, so storing it as the next minimum (`README.md:267`) starts over.
* Supabase `subscribe()` resolves before its channel has joined; events committed in
  between are not delivered.
* A withdrawal or transfer in another currency than the account's is compared with
  the balance and never debited from it; a transfer between accounts of different
  currencies is debited and not credited.

## 4. What is proved

Each theorem holds for every value of the constants that meets the named
assumptions: `ProcAssumption` (finitely many calls), `StoreAssumption` (the
constants have their types; workflows are subscriptions and not savers),
`SqlAssumption` (types; the pool has at least one client) and `BankAssumption`
(finitely many processes and amounts; the default currency is supported: what all
processes together have in hand is a sum over them). A theorem that needs
more says so in its ASSUME. The bounds on calls, crashes, events and failures are
constants like the others: the theorems hold for all of them.

**Lock** (`ReadWriteLockProofs`): `LockSafety` proves that `LockInv`, the
conjunction of types, exclusion, counters equal to holders, distinct waiters and no
lost wake-up, is inductive. Exclusion alone is not: that a reader may enter when
`writeCount` is 0 excludes a writer only if the counter tells the truth, and
`processQueue` grants the right calls only if nobody is queued twice. From it
follow `LockTypeCorrect`, `WritersExclude`, `ReleasesNeverThrow`, `NobodyWaitsTwice`,
`WakeupsAreNotLost`, and, as an action property, `LockIsFair` (FIFO).

**Event log** (`EventLogProofs`): in a densely numbered log the maximum of a query
bounds every record it matches, and appending leaves the answers of queries alone
up to the old length. These are the lemmas that make comparing maxima as good as
comparing answers.

**In-memory store** (`MemoryEventStoreProofs`): the inductive invariant `StoreInv`
is built in layers, each inductive relative to those before it:

1. `LockInv`: every step of the store is a step of the lock, leaves it alone, or
   makes a new one (`StoreLockSafety`).
2. `TypeInv`, with `RunHasJob` and `BatchIsInStream`: the records published after a
   write-through are looked up at the end of the stream, so their type depends on
   the batch having been appended (`StoreTypeCorrect`).
3. `CallInv`: the lock and the notification chain agree with where the calls are. A
   call becomes idle when its notification ends, which is safe only because it had
   released the lock when it joined the chain and is in the chain once
   (`LockIsReleased`).
4. `NumberInv`: numbers are dense in the stream, in the file and in every text being
   written (`StreamStaysDense`).
5. `KnowledgeInv`: what a caller has seen is a past answer of its query, and the
   maximum a check has read is current as long as the write lock is held.
   Together with the lemmas on maxima this gives `AcceptedDecisionsHold`.

**Its subscribers and its file** (`MemoryDeliveryProofs`) rest on `StoreInv`:

* `OrderInv`. A number is *finished* when no append that is writing through has it
  among its own records. What waits in the chain or was delivered is finished, so
  the next job comes after it, although the lock is released before the job joins
  the chain: `ChainIsInOrder` and `DeliveriesAreInOrder`, for any failures, savers
  and crashes. A subscription does not outlive its process, so a restart that gives
  numbers out again does not repeat one to it.
* `GapInv`. While files do not fail, every number that is finished after an event a
  subscription has is delivered to it or waits in the chain: `DeliveriesAreComplete`,
  under `FileErrors = FALSE`.
* `FileInv`. If only `append()` writes the file, writes do not overlap, a text being
  written is the stream of the moment, and what was acknowledged is in it and in
  the file: `AcknowledgedIsKept`, under `Saver = {}`.
* `ShownInv`. If, besides, files do not fail, the file is torn only while somebody is
  writing, and is one batch behind the stream at most: `ShownIsKept` and
  `AheadByOneBatch`.

**Refinement** (the last part of `MemoryEventStoreProofs`): `StoreImplementsLog` proves
`Spec => ImplementsLog` without any condition on files, savers or crashes.
`MappingInv` adds to `StoreInv` that every text, on file or being written, is a
beginning of the stream (a restart keeps a prefix), that the maximum of an answer is
the number of one of its events (so a changed maximum means a changed answer, and a
refusal is one of the abstract log), and that an append keeps its verdict until it
returns. Then each action has its lemma: `QueryRead` and `QueryAll` read, `AppendCall`
asks, `AppendToStream` accepts, `ContextChanged` refuses, `CrashAndRestart` restarts,
and the other steps stutter.

**SQL stores** (`SqlEventStoreProofs`, `SqlDeliveryProofs`), for all four kinds, any
tenants, callers and queries:

1. `TypeInv`: types; every number in use has been drawn; a snapshot holds committed
   rows only (`SqlTypeCorrect`).
2. `PoolInv`: a client is out exactly while its call is between connecting and the
   end, and nobody waits twice: otherwise a release would hand a client to a call that
   does not wait for it (`ClientsAreReleased`).
3. `CallInv`, `KnowledgeInv`: a call under way carries the query and the maximum of its
   caller's last answer; what was read stays in the table, at or below the last number
   drawn at the time, and in D1 nothing turns up later among those numbers. With the
   lemmas on the compiled WHERE clauses these give `QueriesAreAnswered`,
   `ConflictsSeenAreRefused`, `D1KeepsThePromise` and `NobodyIsRefusedWithoutCause`.
4. `PollInv`: calls read from the beginning or on from the last result, and what was
   asked for has been gathered (`PollingIsComplete`, for D1).
5. `DeliveryInv`: no two calls insert one row, a row is not in the table before its
   commit and stays after it (`RowsBooked`), and a row that a subscription will still
   be handed has not been delivered to it (`RowsDelivered`); hence
   `NothingIsDeliveredTwice`. `JoinedInv`, on top of it, gives
   `JoinedChannelsAreComplete`.

The last part of `SqlEventStoreProofs` is the refinement: `StoresImplementTable` proves
`Spec => ImplementsTable`. Besides the invariant above it needs only `DecidedOnView`,
that nobody reads between the call of an `append()` and its end, so that what the
append was decided on is what the abstract caller has seen. Each action has its lemma:
`QueryRead` reads, `AppendCall` asks, `ExecuteAtOnce` appends at once,
`StatementStart` decides or does nothing, `InsertRow` draws, `Commit` commits, `Refused`
and `StatementFails` abort, unless the rows are committed already, and the other steps
stutter. That the check of the code, which compares two maxima, is the decision of the
abstract table is `CheckDecides`.

**Banking commands** (`BankingProofs`), for any number of clients, accounts, amounts
and events:

1. `BankInv`: the log is well-formed, whatever in the log repeats an event about to be
   appended is numbered after the maximum its command was told (`DecisionsAreFresh`),
   and nothing in the log is repeated. The proof is where the completeness of a query
   matters: the event a command must not repeat is selected by the command's own query,
   so an append over it is refused (`NamesStayUnique`, `DepositsStayUnique`).
2. `CoverInv`: as long as the log has not moved past what a command knows, the balance
   it folded pays for what it takes. `WithdrawalsAreCovered` is not inductive without
   this, since nothing else says why a withdrawal in flight is covered. The balance of
   the whole log and that of the query are then equal, because the events the query
   leaves out have no effect on the account (`NoEffectOutside`); for transfers this is
   true only while none has left the source (`NoEffectOutsideTransfer`), which is why
   `FirstTransfersStayCovered` says no more, and `transfer_overdraft` shows that more
   would be false.

**Banking tables** (`BankingTablesProofs`), on top of both:

1. `WorkInv`: work in hand is statements of the right table and exists only while the
   listeners or the rebuild run; every command that has decided has room in the log,
   or `Len(log) <= MaxEvents` would not be inductive (`BankTypesHold`).
2. `RebuildInv`: on a table that is not spoiled, a rebuild is alone and found the table
   empty.
3. `Counted`: count plus statements due are the openings of the log; without the
   statements due the step of a handler could not be told from a lost opening
   (`OpeningsStayCountedOnce`). A replay is counted event by event.
4. `IdentityInv`: an account is opened once, by the one client that drew its id; who
   was told of it, has its row or is about to write it, does so after the opening is in
   the log; and money moves on accounts opened earlier, never from an account to
   itself. It is what keeps an `INSERT ... ON CONFLICT DO UPDATE` from overwriting a
   balance.
5. `RowsInv`: every row, due or written, is of an opening and in its currency; it comes
   once; nobody is told of the account while the listener of its opening still runs,
   so that no process handles a deposit before the row is there; within one client a
   statement that adds comes after the row it adds to; and the balance of a row plus
   what all clients have still to add is what the log has booked. Without the order of
   rows and additions the sum alone is not inductive: an UPDATE of a row that is missing
   changes nothing. `ListedBalancesStayRight` follows.

These theorems speak of sums over sets of events (`MapThenSumSet`) and of joined
sequences (`FlattenSeq`), which the library defines by a CHOOSE of a recursive
function. The induction theorems of the library cannot be instantiated here, but the
induction itself can be done with sets in the place of predicates: `LeastNumber` from
the well-foundedness of the naturals, `AllNumbers` and `AllSubsets` from it. From these
come the existence and the uniqueness of the recursive functions (`SumHasSums`,
`JoinsExist`) and the laws the proofs use: `SumFrom`, `SumRenamed`, `SumOfBoth`,
`SumOfTheRest`, `FlattenedStepwise`.

Trying to prove them changed the model twice. `Effect` was a CASE whose first arm
(another currency) overlapped the others, which in TLA+ chooses any arm that is true;
TLC takes the first, the provers may not, and it is an IF now. And `BankAssumption`
says that the processes are finitely many.

All safety properties of the passing runs are theorems now. Model-checked only: liveness
(`WaitersAreServed`, `CallsSettle`, `SubscribersAreNotified`), which needs fairness and
enabledness, and of course the counterexamples of section 3.

## 5. What is not modelled

* `setStream()` and `setNotifier()`, which nothing in the repository calls while a
  store is in use; connection strings, DDL text, identifier checks,
  `initializeDatabase()`, row level security: set-up, with no state of the running
  system. `simple.ts` is a demonstration, `scripts/` generate text.
* The comparison of payloads in `queryprocessor.ts`, beyond which filter matches
  which event. In D1 `json_extract` gives 1 for `true` and for 1, and the second filter
  in JavaScript tells them apart; the model, where the two filters agree, does not show
  this. Nor does it show the predicates that D1 refuses to translate.
* Handlers that query a Postgres store while `append()` holds its client, and so could
  wait for one another.
* Two Supabase stores of one process that share a client and name their channels
  alike: what happens then is up to the Supabase library.
* The months, years and limits of the analytics query; the dialogue of the command
  line and a start-up that fails, which changes no event and no row.
* Floating point and the rounding to DECIMAL(19,2): amounts are integers. Timestamps.

## 6. Plan

Order of the work so far: lock, in-memory store, its proofs, SQL stores, banking;
then the lost answers, the read side and the refusals; then the proofs of the SQL
stores, of uniqueness, of delivery and of the refinement; then the proofs of the
balances and of the projections, and the table the SQL stores implement, with its
refinement. What is left, in order of weight:

1. `Banking` over `SharedEventTable` instead of a store that checks and stores at one
   instant: which of its properties survive statements that overlap in Postgres.
2. Model: handlers that query a Postgres store; the predicates of D1 that are
   evaluated in memory only; `setStream()` and `setNotifier()` should anything call
   them.
3. Liveness stays with TLC: the provers have no support for fairness.
