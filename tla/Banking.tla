------------------------------- MODULE Banking -------------------------------
(***************************************************************************)
(* The banking application of the repository                               *)
(* (packages/core/src/examples/banking): commands that query the log, fold *)
(* what they see, decide, and append one event on the condition that their *)
(* query has not changed; and two projections, tables that listeners keep  *)
(* up to date event by event and that can be rebuilt from the log.         *)
(*                                                                         *)
(* A client is a process of the application.  The store is what            *)
(* ConditionalAppendLog promises: a query sees one state of the log, an    *)
(* append is checked and stored at one instant.  Notifications are those   *)
(* of the SQL stores: each append runs the handlers for its own event and  *)
(* returns when they have settled, beside those of other appends.          *)
(***************************************************************************)
EXTENDS Integers, Sequences, FiniteSets, SequencesExt

CONSTANTS
  Client, Account, Customer, Id,
  Currency, SupportedCurrency, DefaultCurrency,
  Money,        \* amounts a command may name, a finite set of integers
  Limit,        \* the largest amount of each type of event
  MaxEvents,    \* bound: length of the log
  MaxFailures,  \* bound: failed statements and crashes
  MaxRebuilds   \* bound: rebuilds started

ASSUME BankAssumption ==
  /\ IsFiniteSet(Client) /\ IsFiniteSet(Money) /\ Money \subseteq Int
  /\ SupportedCurrency \subseteq Currency /\ "none" \notin Currency
  /\ DefaultCurrency \in SupportedCurrency
  /\ MaxEvents \in Nat /\ MaxFailures \in Nat /\ MaxRebuilds \in Nat

VARIABLES
  log,       \* the events stored
  client,    \* what each client is doing
  jobs,      \* the statements each client still has to run on each table
  accounts,  \* the table of list-accounts: a row per account
  openings,  \* the table of analytics: the count (one month)
  told,      \* the account ids that an answer or the list has shown
  spoiled,   \* history: tables hit by a failure or by an overlapping rebuild
  failures, rebuilds

vars == <<log, client, jobs, accounts, openings, told, spoiled, failures, rebuilds>>

Table   == {"accounts", "account_analytics"}
EventTypeName ==
  {"BankAccountOpened", "MoneyDeposited", "MoneyWithdrawn", "MoneyTransferred"}

Opened(account, customer, amount, currency) ==
  [type |-> "BankAccountOpened", accountId |-> account, customerName |-> customer,
   amount |-> amount, currency |-> currency]

OnAccount(type, account, amount, currency, id) ==
  [type |-> type, accountId |-> account, amount |-> amount, currency |-> currency,
   id |-> id]

Transferred(from, to, amount, currency, id) ==
  [type |-> "MoneyTransferred", fromAccountId |-> from, toAccountId |-> to,
   amount |-> amount, currency |-> currency, id |-> id]

BankEvent ==
  {Opened(a, n, m, u) : a \in Account, n \in Customer, m \in Money, u \in Currency}
  \cup {OnAccount(t, a, m, u, i) : t \in {"MoneyDeposited", "MoneyWithdrawn"},
          a \in Account, m \in Money, u \in Currency, i \in Id}
  \cup {Transferred(a, b, m, u, i) :
          a \in Account, b \in Account, m \in Money, u \in Currency, i \in Id}

INSTANCE EventLog WITH EventType <- BankEvent

-----------------------------------------------------------------------------
(* The queries.  A payload predicate matches an event whose payload has    *)
(* its field with its value; the predicates of a filter are alternatives.  *)

Query(events) == [types |-> events, min |-> 0]

Concerns(event, field, accountIds) ==
  field \in DOMAIN event /\ event[field] \in accountIds

OfType(types) == {e \in BankEvent : e.type \in types}

OpenQuery == Query(OfType({"BankAccountOpened"}))

(* Mutant: only the opening of the account.                                *)
DepositQueryOfOpening == [a \in Account |->
  Query({e \in OfType({"BankAccountOpened"}) : e.accountId = a})]

DepositQuery == [a \in Account |->
  Query({e \in OfType({"BankAccountOpened", "MoneyDeposited"}) : e.accountId = a})]

(* Mutant: no transfers from the account, the omission of TransferQuery.   *)
AccountQueryWithoutFrom == [a \in Account |->
  Query({e \in BankEvent : \/ Concerns(e, "accountId", {a})
                           \/ Concerns(e, "toAccountId", {a})})]

(* The queries of withdraw-money and of get-account.                       *)
AccountQuery == [a \in Account |->
  Query({e \in BankEvent : \/ Concerns(e, "accountId", {a})
                           \/ Concerns(e, "fromAccountId", {a})
                           \/ Concerns(e, "toAccountId", {a})})]

(* Mutant: of the source's own events only its opening.                    *)
TransferQueryOfOpening == [from \in Account |-> [to \in Account |->
  Query({e \in BankEvent :
           \/ Concerns(e, "accountId", {to})
           \/ e.type = "BankAccountOpened" /\ Concerns(e, "accountId", {from})
           \/ Concerns(e, "toAccountId", {from})
           \/ Concerns(e, "fromAccountId", {to})})]]

(* The predicates pair fromAccountId with the target and toAccountId with  *)
(* the source, so transfers that left the source are not among them.       *)
TransferQuery == [from \in Account |-> [to \in Account |->
  Query({e \in BankEvent : \/ Concerns(e, "accountId", {from, to})
                           \/ Concerns(e, "toAccountId", {from})
                           \/ Concerns(e, "fromAccountId", {to})})]]

(* The query an event's command was decided on, and appends with.          *)
ContextOf(event) ==
  CASE event.type = "BankAccountOpened" -> OpenQuery
    [] event.type = "MoneyDeposited"    -> DepositQuery[event.accountId]
    [] event.type = "MoneyWithdrawn"    -> AccountQuery[event.accountId]
    [] event.type = "MoneyTransferred"  ->
         TransferQuery[event.fromAccountId][event.toAccountId]

-----------------------------------------------------------------------------
(* The folds over the records a query gave.                                *)

Seen(query) == MatchingEvents(log, query)

OfKind(records, type) == {r.eventType : r \in {s \in records : s.eventType.type = type}}

Openings(records, a) == {e \in OfKind(records, "BankAccountOpened") : e.accountId = a}

Opening(records, a) == CHOOSE e \in Openings(records, a) : TRUE

(* What an event adds to an account kept in the given currency: events in  *)
(* another currency do not count.                                          *)
Effect(event, a, currency) ==
  IF event.currency # currency THEN 0
  ELSE CASE event.type \in {"BankAccountOpened", "MoneyDeposited"} ->
              IF event.accountId = a THEN event.amount ELSE 0
         [] event.type = "MoneyWithdrawn" ->
              IF event.accountId = a THEN -event.amount ELSE 0
         [] event.type = "MoneyTransferred" ->
              IF event.fromAccountId = a THEN -event.amount
              ELSE IF event.toAccountId = a THEN event.amount ELSE 0

Balance(records, a) ==
  LET EffectOf(r) == Effect(r.eventType, a, Opening(records, a).currency)
  IN  MapThenSumSet(EffectOf, records)

NoRow == [balance |-> 0, currency |-> "none"]

AccountState(records, a) ==
  IF Openings(records, a) = {} THEN NoRow
  ELSE [balance |-> Balance(records, a), currency |-> Opening(records, a).currency]

-----------------------------------------------------------------------------
NoEvent == [type |-> "none"]

Idle == [pc |-> "idle", event |-> NoEvent, known |-> 0, table |-> "none"]

NoJobs == [t \in Table |-> <<>>]

Init ==
  /\ log = <<>>
  /\ client = [c \in Client |-> Idle]
  /\ jobs = [c \in Client |-> NoJobs]
  /\ accounts = [a \in Account |-> NoRow]
  /\ openings = 0
  /\ told = {} /\ spoiled = {}
  /\ failures = 0 /\ rebuilds = 0

tables  == <<accounts, openings, told, spoiled>>
bounds  == <<failures, rebuilds>>

At(c, pc) == client[c].pc = pc

(* An account id is a random one.  Nobody can name it before the list of  *)
(* accounts shows it, or before the open-bank-account that drew it has     *)
(* answered, which it does after the handlers have settled.                *)
Nameable(a) == a \in told

(* What list-accounts gives: the rows of its table.                        *)
Listed(table) == {a \in Account : table[a] # NoRow}

Fresh(a) ==
  /\ Openings({log[i] : i \in 1..Len(log)}, a) = {}
  /\ \A c \in Client : client[c].event.type = "BankAccountOpened" =>
                         client[c].event.accountId # a

Room == Len(log) + Cardinality({c \in Client : At(c, "append")}) < MaxEvents

(* What execute() has in hand when it calls append(): the event and the    *)
(* maximum of its query.  A command that is refused changes nothing.       *)
Decide(c, event) ==
  /\ client' = [client EXCEPT ![c] =
                  [pc |-> "append", event |-> event, table |-> "none",
                   known |-> MaxSequenceNumber(log, ContextOf(event))]]
  /\ UNCHANGED <<log, jobs, tables, bounds>>

ValidAmount(type, amount) == amount > 0 /\ amount <= Limit[type]

(* The optional currency of a command: "none" if it is not given.          *)
CurrencyInput == Currency \cup {"none"}

ValidCurrency(input) == input # "none" => input \in SupportedCurrency

OrElse(input, default) == IF input = "none" THEN default ELSE input

Open(c, a, customer, amount, input) ==
  /\ amount >= 0 /\ amount <= Limit["BankAccountOpened"]
  /\ ValidCurrency(input)
  /\ customer \notin
       {e.customerName : e \in OfKind(Seen(OpenQuery), "BankAccountOpened")}
  /\ Decide(c, Opened(a, customer, amount, OrElse(input, DefaultCurrency)))

Deposit(c, a, amount, input, id) ==
  LET seen == Seen(DepositQuery[a])
  IN  /\ ValidAmount("MoneyDeposited", amount) /\ ValidCurrency(input)
      /\ Openings(seen, a) # {}
      /\ id \notin {e.id : e \in OfKind(seen, "MoneyDeposited")}
      /\ Decide(c, OnAccount("MoneyDeposited", a, amount,
                             OrElse(input, Opening(seen, a).currency), id))

(* The balance bounds the amount whatever currency the command names.      *)
Withdraw(c, a, amount, input, id) ==
  LET seen == Seen(AccountQuery[a])
  IN  /\ ValidAmount("MoneyWithdrawn", amount) /\ ValidCurrency(input)
      /\ Openings(seen, a) # {}
      /\ id \notin {e.id : e \in OfKind(seen, "MoneyWithdrawn")}
      /\ Balance(seen, a) >= amount
      /\ Decide(c, OnAccount("MoneyWithdrawn", a, amount,
                             OrElse(input, Opening(seen, a).currency), id))

Transfer(c, from, to, amount, input, id) ==
  LET seen == Seen(TransferQuery[from][to])
  IN  /\ from # to
      /\ ValidAmount("MoneyTransferred", amount) /\ ValidCurrency(input)
      /\ Openings(seen, from) # {} /\ Openings(seen, to) # {}
      /\ id \notin {e.id : e \in OfKind(seen, "MoneyTransferred")}
      /\ Balance(seen, from) >= amount
      /\ Decide(c, Transferred(from, to, amount,
                               OrElse(input, Opening(seen, from).currency), id))

-----------------------------------------------------------------------------
(* The statements a projection runs for an event: one, two for a transfer. *)

Upsert(event) == [op |-> "upsert", accountId |-> event.accountId,
                  amount |-> event.amount, currency |-> event.currency]

Add(a, amount, currency) == [op |-> "add", accountId |-> a,
                             amount |-> amount, currency |-> currency]

(* Mutant: a transfer that only debits.                                    *)
AccountStatementsDebiting(event) ==
  CASE event.type = "BankAccountOpened" -> <<Upsert(event)>>
    [] event.type = "MoneyDeposited" ->
         <<Add(event.accountId, event.amount, event.currency)>>
    [] event.type \in {"MoneyWithdrawn", "MoneyTransferred"} ->
         <<Add(IF event.type = "MoneyWithdrawn" THEN event.accountId
               ELSE event.fromAccountId, -event.amount, event.currency)>>

AccountStatements(event) ==
  CASE event.type = "BankAccountOpened" -> <<Upsert(event)>>
    [] event.type = "MoneyDeposited" ->
         <<Add(event.accountId, event.amount, event.currency)>>
    [] event.type = "MoneyWithdrawn" ->
         <<Add(event.accountId, -event.amount, event.currency)>>
    [] event.type = "MoneyTransferred" ->
         <<Add(event.fromAccountId, -event.amount, event.currency),
           Add(event.toAccountId, event.amount, event.currency)>>

(* The analytics upsert adds one to the row of the month, whatever the     *)
(* account: it is counted here for one month.                              *)
AnalyticsStatements(event) ==
  IF event.type = "BankAccountOpened" THEN <<[op |-> "count"]>> ELSE <<>>

Statements(table, event) ==
  IF table = "accounts" THEN AccountStatements(event) ELSE AnalyticsStatements(event)

(* INSERT ... ON CONFLICT DO UPDATE overwrites a row; UPDATE ... WHERE     *)
(* account_id AND currency does nothing where there is no such row.        *)
Execute(statement) ==
  CASE statement.op = "upsert" ->
         /\ accounts' = [accounts EXCEPT ![statement.accountId] =
              [balance |-> statement.amount, currency |-> statement.currency]]
         /\ UNCHANGED openings
    [] statement.op = "add" ->
         /\ accounts' = IF accounts[statement.accountId].currency = statement.currency
                        THEN [accounts EXCEPT ![statement.accountId].balance =
                                @ + statement.amount]
                        ELSE accounts
         /\ UNCHANGED openings
    [] statement.op = "count" -> openings' = openings + 1 /\ UNCHANGED accounts

-----------------------------------------------------------------------------
(* A rebuild lasts from its DELETE to its last statement.                  *)
Rebuilding(c, table) == client[c].pc \in {"cleared", "replay"} /\ client[c].table = table

(* Mutant: append() without the query and its maximum.                     *)
AppendEventUnconditionally(c) ==
  LET event == client[c].event
  IN  /\ At(c, "append")
      /\ log' = log \o Numbered(<<event>>, Len(log))
      /\ jobs' = [jobs EXCEPT ![c] = [t \in Table |-> Statements(t, event)]]
      /\ client' = [client EXCEPT ![c].pc = "notify", ![c].known = 0]
      /\ spoiled' = spoiled \cup {t \in Table : /\ Statements(t, event) # <<>>
                                              /\ \E d \in Client : Rebuilding(d, t)}
      /\ UNCHANGED <<accounts, openings, told, bounds>>

(* The append is stored, and both listeners begin to handle its event.     *)
AppendEvent(c) ==
  LET event == client[c].event
  IN  /\ At(c, "append")
      /\ MaxSequenceNumber(log, ContextOf(event)) = client[c].known
      /\ log' = log \o Numbered(<<event>>, Len(log))
      /\ jobs' = [jobs EXCEPT ![c] = [t \in Table |-> Statements(t, event)]]
      /\ client' = [client EXCEPT ![c].pc = "notify", ![c].known = 0]
      /\ spoiled' = spoiled \cup {t \in Table : /\ Statements(t, event) # <<>>
                                              /\ \E d \in Client : Rebuilding(d, t)}
      /\ UNCHANGED <<accounts, openings, told, bounds>>

(* The append throws and nothing is stored, so that execute() gives up:    *)
(* the context has changed, or the statement fails, or the process dies.   *)
(* Only a failure that leaves something behind counts in failures.         *)
AppendFails(c) ==
  /\ At(c, "append")
  /\ client' = [client EXCEPT ![c] = Idle]
  /\ UNCHANGED <<log, jobs, tables, bounds>>

(* The append is stored but its answer is lost: it throws before it runs a *)
(* handler, and execute() answers that the event could not be saved.       *)
AnswerLost(c) ==
  LET event == client[c].event
  IN  /\ failures < MaxFailures
      /\ At(c, "append")
      /\ MaxSequenceNumber(log, ContextOf(event)) = client[c].known
      /\ log' = log \o Numbered(<<event>>, Len(log))
      /\ client' = [client EXCEPT ![c] = Idle]
      /\ spoiled' = spoiled \cup {t \in Table : Statements(t, event) # <<>>}
      /\ failures' = failures + 1
      /\ UNCHANGED <<jobs, accounts, openings, told, rebuilds>>

RunStatement(c, t) ==
  /\ jobs[c][t] # <<>>
  /\ Execute(Head(jobs[c][t]))
  /\ told' = told \cup Listed(accounts')
  /\ jobs' = [jobs EXCEPT ![c][t] = Tail(@)]
  /\ UNCHANGED <<log, client, spoiled, bounds>>

(* A listener logs the error and forgets the event; a rebuild stops.       *)
StatementFails(c, t) ==
  /\ failures < MaxFailures
  /\ jobs[c][t] # <<>>
  /\ jobs' = [jobs EXCEPT ![c][t] = <<>>]
  /\ spoiled' = spoiled \cup {t}
  /\ failures' = failures + 1
  /\ UNCHANGED <<log, client, accounts, openings, told, rebuilds>>

Return(c) ==
  /\ client[c].pc \in {"notify", "replay"}
  /\ jobs[c] = NoJobs
  /\ client' = [client EXCEPT ![c] = Idle]
  /\ told' = IF client[c].event.type = "BankAccountOpened"
             THEN told \cup {client[c].event.accountId} ELSE told
  /\ UNCHANGED <<log, jobs, accounts, openings, spoiled, bounds>>

(* Mutant: the rebuild of the analytics without its DELETE.                *)
ClearAccountsOnly(c, t) ==
  /\ At(c, "idle") /\ rebuilds < MaxRebuilds
  /\ client' = [client EXCEPT ![c].pc = "cleared", ![c].table = t]
  /\ accounts' = IF t = "accounts" THEN [a \in Account |-> NoRow] ELSE accounts
  /\ spoiled' = IF \E d \in Client : jobs[d][t] # <<>> \/ Rebuilding(d, t)
                THEN spoiled \cup {t} ELSE spoiled \ {t}
  /\ rebuilds' = rebuilds + 1
  /\ UNCHANGED <<log, jobs, openings, told, failures>>

(* rebuildAccountProjections() and rebuildAnalyticsProjections(): DELETE.  *)
Clear(c, t) ==
  /\ At(c, "idle") /\ rebuilds < MaxRebuilds
  /\ client' = [client EXCEPT ![c].pc = "cleared", ![c].table = t]
  /\ accounts' = IF t = "accounts" THEN [a \in Account |-> NoRow] ELSE accounts
  /\ openings' = IF t = "accounts" THEN openings ELSE 0
  /\ spoiled' = IF \E d \in Client : jobs[d][t] # <<>> \/ Rebuilding(d, t)
                THEN spoiled \cup {t} ELSE spoiled \ {t}
  /\ rebuilds' = rebuilds + 1
  /\ UNCHANGED <<log, jobs, told, failures>>

(* Then the query for all events, which are replayed in their order.       *)
ReadHistory(c) ==
  LET t == client[c].table
      Replayed(record) == Statements(t, record.eventType)
  IN  /\ At(c, "cleared")
      /\ jobs' = [jobs EXCEPT ![c][t] =
                    FlattenSeq([i \in 1..Len(log) |-> Replayed(log[i])])]
      /\ client' = [client EXCEPT ![c].pc = "replay"]
      /\ UNCHANGED <<log, tables, bounds>>

(* Its query fails: the table stays empty.                                 *)
RebuildFails(c) ==
  /\ failures < MaxFailures
  /\ At(c, "cleared")
  /\ client' = [client EXCEPT ![c] = Idle]
  /\ spoiled' = spoiled \cup {client[c].table}
  /\ failures' = failures + 1
  /\ UNCHANGED <<log, jobs, accounts, openings, told, rebuilds>>

(* The process dies, and comes back without the work it had in hand.       *)
Crash(c) ==
  /\ failures < MaxFailures
  /\ client[c].pc \notin {"idle", "append"}
  /\ client' = [client EXCEPT ![c] = Idle]
  /\ jobs' = [jobs EXCEPT ![c] = NoJobs]
  /\ spoiled' = spoiled \cup {t \in Table : jobs[c][t] # <<>> \/ Rebuilding(c, t)}
  /\ failures' = failures + 1
  /\ UNCHANGED <<log, accounts, openings, told, rebuilds>>

Ready(c) == At(c, "idle") /\ Room

OpenAccount(c) ==
  /\ Ready(c)
  /\ \E a \in Account, customer \in Customer, amount \in Money, input \in CurrencyInput :
       Fresh(a) /\ Open(c, a, customer, amount, input)

MoneyCommand(c) ==
  /\ Ready(c)
  /\ \E a \in Account :
       /\ Nameable(a)
       /\ \E amount \in Money, input \in CurrencyInput, id \in Id :
            \/ Deposit(c, a, amount, input, id)
            \/ Withdraw(c, a, amount, input, id)
            \/ \E b \in Account : Nameable(b) /\ Transfer(c, a, b, amount, input, id)

Next ==
  \E c \in Client :
    \/ OpenAccount(c) \/ MoneyCommand(c) \/ AppendEvent(c) \/ AppendFails(c) \/ Return(c)
    \/ \E t \in Table : RunStatement(c, t) \/ StatementFails(c, t) \/ Clear(c, t)
    \/ AnswerLost(c) \/ ReadHistory(c) \/ RebuildFails(c) \/ Crash(c)

Spec == Init /\ [][Next]_vars

-----------------------------------------------------------------------------
Statement == {Upsert(e) : e \in OfType({"BankAccountOpened"})}
             \cup {Add(a, m, u) : a \in Account, m \in Money \cup {-n : n \in Money},
                                  u \in Currency}
             \cup {[op |-> "count"]}

(* Every variable has its type; work is in hand only while it is due.      *)
BankTypeOK ==
  /\ log \in Seq(EventRecord) /\ Len(log) <= MaxEvents /\ IsDense(log)
  /\ client \in [Client -> [pc : {"idle", "append", "notify", "cleared", "replay"},
                            event : BankEvent \cup {NoEvent}, known : Nat,
                            table : Table \cup {"none"}]]
  /\ jobs \in [Client -> [Table -> Seq(Statement)]]
  /\ accounts \in [Account -> [balance : Int, currency : Currency \cup {"none"}]]
  /\ openings \in Nat /\ told \subseteq Account /\ spoiled \subseteq Table
  /\ \A c \in Client : jobs[c] # NoJobs => client[c].pc \in {"notify", "replay"}

EventAt(i) == log[i].eventType

Before(i) == {log[j] : j \in 1..(i - 1)}

(* No two accounts are opened for one customer name, though two clients    *)
(* may find the name free at the same time (open-bank-account).            *)
CustomerNamesAreUnique ==
  \A i, j \in 1..Len(log) :
    /\ i # j
    /\ EventAt(i).type = "BankAccountOpened" /\ EventAt(j).type = "BankAccountOpened"
    => EventAt(i).customerName # EventAt(j).customerName

(* A deposit that is sent again, after a crash or by another client, is    *)
(* booked once on its account (deposit-money).                             *)
DepositsAreBookedOnce ==
  \A i, j \in 1..Len(log) :
    /\ i # j
    /\ EventAt(i).type = "MoneyDeposited" /\ EventAt(j).type = "MoneyDeposited"
    /\ EventAt(i).accountId = EventAt(j).accountId
    => EventAt(i).id # EventAt(j).id

Overdraws(i, a) == EventAt(i).amount > Balance(Before(i), a)

(* A withdrawal, in whatever currency, never takes more than the whole     *)
(* history of the account, all transfers included, has left on it          *)
(* (withdraw-money).                                                       *)
WithdrawalsAreCovered ==
  \A i \in 1..Len(log) : EventAt(i).type = "MoneyWithdrawn" =>
                           ~Overdraws(i, EventAt(i).accountId)

(* The first transfer that leaves an account is covered by its balance, in *)
(* spite of deposits, withdrawals and incoming transfers in between its    *)
(* query and its append (transfer-money).                                  *)
FirstTransfersAreCovered ==
  \A i \in 1..Len(log) :
    /\ EventAt(i).type = "MoneyTransferred"
    /\ \A r \in Before(i) : Concerns(r.eventType, "fromAccountId", Account) =>
                              r.eventType.fromAccountId # EventAt(i).fromAccountId
    => ~Overdraws(i, EventAt(i).fromAccountId)

(* No transfer overdraws its source: "Insufficient funds for transfer"     *)
(* (transfer-money/core.test.ts:345).                                      *)
TransfersAreCovered ==
  \A i \in 1..Len(log) : EventAt(i).type = "MoneyTransferred" =>
                           ~Overdraws(i, EventAt(i).fromAccountId)

(* No statement failed, no process died and no rebuild overlapped an       *)
(* append since the last rebuild that did not; none is between its DELETE  *)
(* and its query.                                                          *)
Settled(t) ==
  /\ t \notin spoiled
  /\ \A c \in Client : ~(At(c, "cleared") /\ client[c].table = t)

Due(t) == UNION {{<<c, i>> : i \in 1..Len(jobs[c][t])} : c \in Client}

Job(t, due) == jobs[due[1]][t][due[2]]

(* At every instant list-accounts shows the balance that get-account folds *)
(* from the log, but for the statements of handlers that have not answered *)
(* yet: an account is missing only while its row is to come, and a balance *)
(* differs by what is to be added.  So a client sees its own deposit in    *)
(* the list as soon as its call has returned (list-accounts/projector.ts,  *)
(* list-accounts/handler.ts, get-account/shell.ts).                        *)
ListedBalancesAreRight ==
  Settled("accounts") =>
    \A a \in Account :
      LET state     == AccountState(Seen(AccountQuery[a]), a)
          statement(p) == Job("accounts", p)
          amount(p) == statement(p).amount
          due       == {p \in Due("accounts") : statement(p).accountId = a}
      IN  IF \E p \in due : statement(p).op = "upsert"
          THEN accounts[a] = NoRow
          ELSE /\ accounts[a].currency = state.currency
               /\ state.balance = accounts[a].balance +
                    MapThenSumSet(amount, {p \in due : statement(p).currency = state.currency})

(* Likewise analytics counts every opening once: its statement adds, so an *)
(* event that is applied twice would be counted twice                      *)
(* (analytics/projector.ts).                                               *)
OpeningsAreCountedOnce ==
  Settled("account_analytics") =>
    openings + Cardinality(Due("account_analytics")) =
      Cardinality(OfKind(Seen(OpenQuery), "BankAccountOpened"))
=============================================================================
