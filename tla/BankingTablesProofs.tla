-------------------------- MODULE BankingTablesProofs --------------------------
(***************************************************************************)
(* The tables that the projections of the bank keep, for any number of     *)
(* clients, accounts, amounts and events: what list-accounts shows of an   *)
(* account is what get-account folds from the log, and the analytics count *)
(* every opening once.  Both hold until a rebuild overlaps a handler, a    *)
(* handler fails or a client dies with work in hand: the table is spoiled  *)
(* then, and stays so until it is rebuilt alone.                           *)
(*                                                                         *)
(* The argument has five layers, each an inductive invariant relative to   *)
(* the ones before it: which client holds which work, and when (WorkInv);  *)
(* a rebuild of a table that is not spoiled has it for itself (RebuildInv);*)
(* the count and the statements due on it are the openings of the log      *)
(* (Counted); who knows of an account, and since when (IdentityInv); and   *)
(* the rows of the list with the statements due on them are the accounts   *)
(* of the log with their balances (RowsInv).                               *)
(***************************************************************************)
EXTENDS BankingProofs

-----------------------------------------------------------------------------
(* The statements that projections run on a table.                         *)
Work(t) == {s \in Statement : (s.op = "count") <=> (t = "account_analytics")}

(* What a statement is about.                                              *)
LEMMA StatementShapes ==
  ASSUME NEW s \in Statement
  PROVE  \/ s = [op |-> "count"]
         \/ /\ s.op \in {"upsert", "add"} /\ s.accountId \in Account
            /\ s.amount \in Int /\ s.currency \in Currency
<1>1. CASE \E e \in OfType({"BankAccountOpened"}) : s = Upsert(e)
  BY <1>1, EventShapes DEF OfType, Upsert
<1>2. CASE \E a \in Account, m \in Money \cup {-n : n \in Money}, u \in Currency :
             s = Add(a, m, u)
  <2>1. PICK a \in Account, m \in Money \cup {-n : n \in Money}, u \in Currency :
               s = Add(a, m, u)
    BY <1>2
  <2>2. m \in Int
    BY BankAssumption
  <2>3. QED
    BY <2>1, <2>2 DEF Add
<1>3. QED
  BY <1>1, <1>2 DEF Statement

(* Of the statements of a list, each is on its table.                      *)
LEMMA WorkOnAccounts ==
  ASSUME NEW s \in Work("accounts")
  PROVE  /\ s.op \in {"upsert", "add"} /\ s.accountId \in Account
         /\ s.amount \in Int /\ s.currency \in Currency
BY StatementShapes DEF Work

(* An opening is a row to come in the one table and one more in the other. *)
LEMMA StatementsOfOpening ==
  ASSUME NEW e \in BankEvent, e.type = "BankAccountOpened"
  PROVE  /\ Statements("accounts", e) = <<Upsert(e)>>
         /\ Statements("account_analytics", e) = <<[op |-> "count"]>>
         /\ Upsert(e) \in Work("accounts") /\ [op |-> "count"] \in Work("account_analytics")
<1>1. e \in OfType({"BankAccountOpened"})
  BY DEF OfType
<1>2. Upsert(e) \in Statement /\ [op |-> "count"] \in Statement
  BY <1>1 DEF Statement
<1>3. Upsert(e).op = "upsert"
  BY DEF Upsert
<1>4. QED
  BY <1>2, <1>3 DEF Work, Statements, AccountStatements, AnalyticsStatements

(* A deposit or a withdrawal adds to one row.                              *)
LEMMA StatementsOnAccount ==
  ASSUME NEW e \in BankEvent, e.type \in {"MoneyDeposited", "MoneyWithdrawn"}
  PROVE  LET m == IF e.type = "MoneyDeposited" THEN e.amount ELSE -e.amount
         IN  /\ Statements("accounts", e) = <<Add(e.accountId, m, e.currency)>>
             /\ Statements("account_analytics", e) = <<>>
             /\ Add(e.accountId, m, e.currency) \in Work("accounts")
<1> DEFINE m == IF e.type = "MoneyDeposited" THEN e.amount ELSE -e.amount
<1>1. /\ m \in Money \cup {-n : n \in Money} /\ e.accountId \in Account
      /\ e.currency \in Currency
  BY EventShapes
<1>2. /\ Statements("accounts", e) = <<Add(e.accountId, m, e.currency)>>
      /\ Statements("account_analytics", e) = <<>>
  BY DEF Statements, AccountStatements, AnalyticsStatements
<1> HIDE DEF m
<1>3. Add(e.accountId, m, e.currency) \in Statement
  BY <1>1 DEF Statement
<1>4. Add(e.accountId, m, e.currency) \in Work("accounts")
  BY <1>3 DEF Work, Add
<1>5. QED
  BY <1>2, <1>4 DEF m

(* A transfer takes from one row and adds to another.                      *)
LEMMA StatementsOfTransfer ==
  ASSUME NEW e \in BankEvent, e.type = "MoneyTransferred"
  PROVE  LET first  == Add(e.fromAccountId, -e.amount, e.currency)
             second == Add(e.toAccountId, e.amount, e.currency)
         IN  /\ Statements("accounts", e) = <<first, second>>
             /\ Statements("account_analytics", e) = <<>>
             /\ first \in Work("accounts") /\ second \in Work("accounts")
<1>1. /\ e.amount \in Money /\ -e.amount \in {-n : n \in Money}
      /\ e.fromAccountId \in Account /\ e.toAccountId \in Account /\ e.currency \in Currency
  BY EventShapes
<1>2. /\ Add(e.fromAccountId, -e.amount, e.currency) \in Statement
      /\ Add(e.toAccountId, e.amount, e.currency) \in Statement
  BY <1>1 DEF Statement
<1>3. QED
  BY <1>2 DEF Work, Add, Statements, AccountStatements, AnalyticsStatements

(* Sequences of none, one and two.                                         *)
LEMMA ShortSequences ==
  ASSUME NEW S
  PROVE  /\ <<>> \in Seq(S)
         /\ \A x \in S : <<x>> \in Seq(S)
         /\ \A x, y \in S : <<x, y>> \in Seq(S)
OBVIOUS

(* Every event gives each table statements of its own kind.                *)
LEMMA StatementsAreWork ==
  ASSUME NEW e \in BankEvent, NEW t \in Table
  PROVE  Statements(t, e) \in Seq(Work(t))
<1> DEFINE accounted == Statements("accounts", e)
           counted == Statements("account_analytics", e)
<1>1. CASE e.type = "BankAccountOpened"
  <2>1. accounted \in Seq(Work("accounts")) /\ counted \in Seq(Work("account_analytics"))
    BY <1>1, StatementsOfOpening, ShortSequences, Zenon
  <2>2. QED
    BY <2>1 DEF Table
<1>2. CASE e.type \in {"MoneyDeposited", "MoneyWithdrawn"}
  <2>1. accounted \in Seq(Work("accounts")) /\ counted \in Seq(Work("account_analytics"))
    BY <1>2, StatementsOnAccount, ShortSequences, Zenon
  <2>2. QED
    BY <2>1 DEF Table
<1>3. CASE e.type = "MoneyTransferred"
  <2>1. accounted \in Seq(Work("accounts")) /\ counted \in Seq(Work("account_analytics"))
    BY <1>3, StatementsOfTransfer, ShortSequences, Zenon
  <2>2. QED
    BY <2>1 DEF Table
<1>4. QED
  BY <1>1, <1>2, <1>3, EventShapes DEF EventTypeName

(* What a rebuild replays for the table t.                                 *)
History(t) == [i \in 1..Len(log) |-> Statements(t, log[i].eventType)]

(* The history of a table is a sequence of work on it.                     *)
LEMMA HistoryIsWork ==
  ASSUME LogTypeOK, NEW t \in Table
  PROVE  /\ History(t) \in Seq(Seq(Work(t))) /\ Len(History(t)) = Len(log)
         /\ FlattenSeq(History(t)) \in Seq(Work(t))
<1>1. Len(log) \in Nat /\ \A i \in 1..Len(log) : log[i].eventType \in BankEvent
  BY LogHoldsEvents, LenProperties DEF LogTypeOK, EventAt
<1>2. \A i \in 1..Len(log) : Statements(t, log[i].eventType) \in Seq(Work(t))
  BY <1>1, StatementsAreWork
<1>3. History(t) \in Seq(Seq(Work(t))) /\ Len(History(t)) = Len(log)
  BY <1>1, <1>2, IsASeq DEF History
<1>4. PICK g \in [0..Len(History(t)) -> Seq(Work(t))] :
             FlattenSeq(History(t)) = g[Len(History(t))]
  BY <1>3, FlattenedStepwise
<1>5. Len(History(t)) \in 0..Len(History(t))
  BY <1>1, <1>3
<1>6. QED
  BY <1>3, <1>4, <1>5

-----------------------------------------------------------------------------
(* What the tables and the work on them are, and when there is work.       *)
JobsTypeOK ==
  /\ jobs \in [Client -> [Table -> Seq(Statement)]]
  /\ \A c \in Client, t \in Table : jobs[c][t] \in Seq(Work(t))

(* The rows of the list, the count, and the accounts clients were told of. *)
RowsTypeOK ==
  /\ accounts \in [Account -> [balance : Int, currency : Currency \cup {"none"}]]
  /\ openings \in Nat /\ told \subseteq Account /\ spoiled \subseteq Table

(* A client holds an event from its decision until the listeners return,   *)
(* and has work in hand while they or its rebuild run.                     *)
PhaseOK(c) ==
  /\ client[c].pc \in {"idle", "cleared", "replay"} => client[c].event = NoEvent
  /\ client[c].pc \in {"append", "notify"} => client[c].event \in BankEvent
  /\ client[c].pc \in {"cleared", "replay"} => client[c].table \in Table
  /\ \A t \in Table : jobs[c][t] # <<>> =>
       At(c, "notify") \/ (At(c, "replay") /\ client[c].table = t)

(* So it is for all clients.                                               *)
Phases == \A c \in Client : PhaseOK(c)

(* The clients that have decided and not yet stored.                       *)
Appending == {c \in Client : At(c, "append")}

(* Each of them has room for its event within the bound on the log.        *)
WithinBound == Len(log) + Cardinality(Appending) <= MaxEvents

(* The inductive invariant of the types.                                   *)
WorkInv == JobsTypeOK /\ RowsTypeOK /\ Phases /\ WithinBound

(* Work on a table is a sequence of statements.                            *)
LEMMA WorkIsStatements ==
  ASSUME NEW t, NEW s \in Seq(Work(t))
  PROVE  s \in Seq(Statement)
<1>1. /\ Len(s) \in Nat /\ s = [i \in 1..Len(s) |-> s[i]]
      /\ \A i \in 1..Len(s) : s[i] \in Statement
  BY LenProperties, ElementOfSeq DEF Work
<1>2. QED
  BY <1>1, IsASeq

(* A client takes other work in hand.                                      *)
LEMMA OtherWork ==
  ASSUME JobsTypeOK, NEW c \in Client, NEW f, jobs' = [jobs EXCEPT ![c] = f],
         f = [t \in Table |-> f[t]], \A t \in Table : f[t] \in Seq(Work(t))
  PROVE  /\ JobsTypeOK' /\ jobs'[c] = f
         /\ \A d \in Client : d # c => jobs'[d] = jobs[d]
<1>1. f \in [Table -> Seq(Statement)]
  BY WorkIsStatements
<1>2. jobs'[c] = f /\ \A d \in Client : d # c => jobs'[d] = jobs[d]
  BY DEF JobsTypeOK
<1>3. QED
  BY <1>1, <1>2 DEF JobsTypeOK

(* Or on one table.                                                        *)
LEMMA OtherWorkOn ==
  ASSUME JobsTypeOK, NEW c \in Client, NEW t \in Table, NEW s \in Seq(Work(t)),
         jobs' = [jobs EXCEPT ![c][t] = s]
  PROVE  /\ JobsTypeOK' /\ jobs'[c][t] = s
         /\ \A u \in Table : u # t => jobs'[c][u] = jobs[c][u]
         /\ \A d \in Client : d # c => jobs'[d] = jobs[d]
<1> DEFINE f == [jobs[c] EXCEPT ![t] = s]
<1>1. jobs[c] \in [Table -> Seq(Statement)]
  BY DEF JobsTypeOK
<1>2. f[t] = s /\ \A u \in Table : u # t => f[u] = jobs[c][u]
  BY <1>1
<1>3. f = [u \in Table |-> f[u]] /\ \A u \in Table : f[u] \in Seq(Work(u))
  BY <1>1, <1>2 DEF JobsTypeOK
<1>4. jobs' = [jobs EXCEPT ![c] = f]
  OBVIOUS
<1> HIDE DEF f
<1>5. QED
  BY <1>2, <1>3, <1>4, OtherWork

(* A statement leaves the tables well-typed.                               *)
LEMMA ExecuteKeepsRows ==
  ASSUME RowsTypeOK, NEW s \in Statement, Execute(s)
  PROVE  /\ accounts' \in [Account -> [balance : Int, currency : Currency \cup {"none"}]]
         /\ openings' \in Nat
<1>1. CASE s = [op |-> "count"]
  BY <1>1 DEF Execute, RowsTypeOK
<1>2. CASE s.op = "upsert" /\ s.accountId \in Account /\ s.amount \in Int /\ s.currency \in Currency
  BY <1>2 DEF Execute, RowsTypeOK
<1>3. CASE s.op = "add" /\ s.accountId \in Account /\ s.amount \in Int /\ s.currency \in Currency
  <2>1. accounts[s.accountId].balance + s.amount \in Int
    BY <1>3 DEF RowsTypeOK
  <2>2. QED
    BY <1>3, <2>1 DEF Execute, RowsTypeOK
<1>4. QED
  BY <1>1, <1>2, <1>3, StatementShapes

(* A client acts and the others do not.                                    *)
LEMMA OnePhase ==
  ASSUME Phases, NEW c \in Client, PhaseOK(c)',
         \A d \in Client : d # c => client'[d] = client[d] /\ jobs'[d] = jobs[d]
  PROVE  Phases'
BY DEF Phases, PhaseOK, At

(* The event moves money on the account.                                   *)
Moves(e, a) ==
  \/ e.type \in {"MoneyDeposited", "MoneyWithdrawn"} /\ e.accountId = a
  \/ e.type = "MoneyTransferred" /\ (e.fromAccountId = a \/ e.toAccountId = a)

(* What a command has decided on when it calls append(): an opening of an  *)
(* account nobody has, or money that moves on accounts somebody was told.  *)
LEMMA CommandDecides ==
  ASSUME LogTypeOK, NEW c \in Client, OpenAccount(c) \/ MoneyCommand(c)
  PROVE  \E event \in BankEvent :
           /\ Decide(c, event) /\ At(c, "idle") /\ Room
           /\ event.type = "BankAccountOpened" => Fresh(event.accountId)
           /\ \A a : Moves(event, a) => a \in told
           /\ event.type = "MoneyTransferred" => event.fromAccountId # event.toAccountId
<1>1. At(c, "idle") /\ Room
  BY DEF OpenAccount, MoneyCommand, Ready
<1>2. CASE OpenAccount(c)
  <2>1. PICK a \in Account, customer \in Customer, amount \in Money, input \in CurrencyInput :
               Fresh(a) /\ Open(c, a, customer, amount, input)
    BY <1>2 DEF OpenAccount
  <2> DEFINE event == Opened(a, customer, amount, OrElse(input, DefaultCurrency))
  <2>2. event \in BankEvent
    BY OpenedIsEvent, BankAssumption DEF OrElse, CurrencyInput
  <2>3. event.type = "BankAccountOpened" /\ event.accountId = a
    BY DEF Opened
  <2>4. Decide(c, event)
    BY <2>1 DEF Open
  <2> HIDE DEF event
  <2>5. QED
    BY <1>1, <2>1, <2>2, <2>3, <2>4 DEF Moves
<1>3. CASE MoneyCommand(c)
  <2>1. PICK a \in Account, amount \in Money, input \in CurrencyInput, id \in Id :
          /\ a \in told
          /\ \/ Deposit(c, a, amount, input, id)
             \/ Withdraw(c, a, amount, input, id)
             \/ \E b \in Account : b \in told /\ Transfer(c, a, b, amount, input, id)
    BY <1>3 DEF MoneyCommand, Nameable
  <2>2. CASE Deposit(c, a, amount, input, id)
    <3> DEFINE currency == OrElse(input, Opening(Seen(DepositQuery[a]), a).currency)
               event == OnAccount("MoneyDeposited", a, amount, currency, id)
    <3>1. currency \in Currency
      BY <2>2, CurrencyOfOpening DEF Deposit
    <3>2. Decide(c, event)
      BY <2>2 DEF Deposit
    <3> HIDE DEF currency
    <3>3. event \in BankEvent /\ event.type = "MoneyDeposited" /\ event.accountId = a
      BY <3>1, OnAccountIsEvent DEF OnAccount
    <3> HIDE DEF event
    <3>4. QED
      BY <1>1, <2>1, <3>2, <3>3 DEF Moves
  <2>3. CASE Withdraw(c, a, amount, input, id)
    <3> DEFINE currency == OrElse(input, Opening(Seen(AccountQuery[a]), a).currency)
               event == OnAccount("MoneyWithdrawn", a, amount, currency, id)
    <3>1. currency \in Currency
      BY <2>3, CurrencyOfOpening DEF Withdraw
    <3>2. Decide(c, event)
      BY <2>3 DEF Withdraw
    <3> HIDE DEF currency
    <3>3. event \in BankEvent /\ event.type = "MoneyWithdrawn" /\ event.accountId = a
      BY <3>1, OnAccountIsEvent DEF OnAccount
    <3> HIDE DEF event
    <3>4. QED
      BY <1>1, <2>1, <3>2, <3>3 DEF Moves
  <2>4. ASSUME NEW b \in Account, b \in told, Transfer(c, a, b, amount, input, id)
        PROVE  \E event \in BankEvent :
                 /\ Decide(c, event) /\ event.type = "MoneyTransferred"
                 /\ event.fromAccountId = a /\ event.toAccountId = b /\ a # b
    <3> DEFINE currency == OrElse(input, Opening(Seen(TransferQuery[a][b]), a).currency)
               event == Transferred(a, b, amount, currency, id)
    <3>1. currency \in Currency
      BY <2>4, CurrencyOfOpening DEF Transfer
    <3>2. Decide(c, event) /\ a # b
      BY <2>4 DEF Transfer
    <3> HIDE DEF currency
    <3>3. /\ event \in BankEvent /\ event.type = "MoneyTransferred"
          /\ event.fromAccountId = a /\ event.toAccountId = b
      BY <3>1, TransferredIsEvent DEF Transferred
    <3> HIDE DEF event
    <3>4. QED
      BY <3>2, <3>3
  <2>5. CASE \E b \in Account : b \in told /\ Transfer(c, a, b, amount, input, id)
    BY <1>1, <2>1, <2>4, <2>5 DEF Moves
  <2>6. QED
    BY <2>1, <2>2, <2>3, <2>5
<1>4. QED
  BY <1>2, <1>3

(* How many clients are about to append.                                   *)
LEMMA AppendingCounts ==
  ASSUME NEW c \in Client, \A d \in Client : d # c => client'[d] = client[d]
  PROVE  /\ Cardinality(Appending) \in Nat /\ Cardinality(Appending)' \in Nat
         /\ At(c, "append") /\ ~At(c, "append")' =>
              Cardinality(Appending)' = Cardinality(Appending) - 1
         /\ ~At(c, "append") /\ At(c, "append")' =>
              Cardinality(Appending)' = Cardinality(Appending) + 1
         /\ (At(c, "append") <=> At(c, "append")') =>
              Cardinality(Appending)' = Cardinality(Appending)
<1> DEFINE now == Appending
<1>0. PICK then : then = Appending'
  OBVIOUS
<1>1. IsFiniteSet(now) /\ IsFiniteSet(then)
  BY <1>0, FS_Subset, BankAssumption DEF Appending
<1>2. Cardinality(now) \in Nat /\ Cardinality(then) \in Nat
  BY <1>1, FS_CardinalityType
<1>3. ASSUME At(c, "append"), ~At(c, "append")'
      PROVE  Cardinality(then) = Cardinality(now) - 1
  <2>1. then = now \ {c} /\ c \in now
    BY <1>0, <1>3 DEF Appending, At
  <2>2. QED
    BY <1>1, <2>1, FS_RemoveElement
<1>4. ASSUME ~At(c, "append"), At(c, "append")'
      PROVE  Cardinality(then) = Cardinality(now) + 1
  <2>1. then = now \cup {c} /\ c \notin now
    BY <1>0, <1>4 DEF Appending, At
  <2>2. QED
    BY <1>1, <2>1, FS_AddElement
<1>5. ASSUME At(c, "append") <=> At(c, "append")' PROVE then = now
  BY <1>0, <1>5 DEF Appending, At
<1> HIDE DEF now
<1>6. QED
  BY <1>0, <1>2, <1>3, <1>4, <1>5 DEF now

(* Steps of one client that store nothing and do not begin an append.      *)
LEMMA OtherStepKeepsBound ==
  ASSUME LogTypeOK, WithinBound, NEW c \in Client, log' = log,
         \A d \in Client : d # c => client'[d] = client[d], ~At(c, "append")'
  PROVE  WithinBound'
<1>1. Len(log) \in Nat
  BY LenProperties DEF LogTypeOK
<1>2. /\ Cardinality(Appending) \in Nat /\ Cardinality(Appending)' \in Nat
      /\ Cardinality(Appending)' <= Cardinality(Appending)
  BY AppendingCounts
<1>3. QED
  BY <1>1, <1>2, BankAssumption DEF WithinBound

(* An append stores what room was kept for.                                *)
LEMMA StoreKeepsBound ==
  ASSUME LogTypeOK, WithinBound, NEW c \in Client, client[c].event \in BankEvent,
         log' = log \o Numbered(<<client[c].event>>, Len(log)),
         At(c, "append"), ~At(c, "append")',
         \A d \in Client : d # c => client'[d] = client[d]
  PROVE  WithinBound'
<1>1. Len(log) \in Nat /\ Len(log') = Len(log) + 1
  BY AppendOne, LenProperties DEF LogTypeOK
<1>2. /\ Cardinality(Appending) \in Nat /\ Cardinality(Appending)' \in Nat
      /\ Cardinality(Appending)' = Cardinality(Appending) - 1
  BY AppendingCounts
<1>3. QED
  BY <1>1, <1>2, BankAssumption DEF WithinBound

(* No work at all.                                                         *)
LEMMA NoWork ==
  /\ NoJobs = [t \in Table |-> NoJobs[t]]
  /\ \A t \in Table : NoJobs[t] = <<>> /\ NoJobs[t] \in Seq(Work(t))
BY ShortSequences DEF NoJobs

(* Every action keeps the types and the phases.                            *)
LEMMA StepKeepsWork ==
  ASSUME BankInv, WorkInv, [Next]_vars
  PROVE  WorkInv'
<1> USE DEF WorkInv
<1>1. LogTypeOK /\ LogTypeOK'
  BY StepKeepsInv DEF BankInv
<1>2. \A c \in Client : PhaseOK(c)
  BY DEF Phases
<1>3. ASSUME NEW c \in Client, OpenAccount(c) \/ MoneyCommand(c) PROVE WorkInv'
  <2>1. PICK event \in BankEvent : Decide(c, event) /\ At(c, "idle") /\ Room
    BY <1>1, <1>3, CommandDecides
  <2>2. /\ client'[c].pc = "append" /\ client'[c].event = event
        /\ \A d \in Client : d # c => client'[d] = client[d]
        /\ log' = log /\ jobs' = jobs
        /\ UNCHANGED <<accounts, openings, told, spoiled>>
    BY <1>1, <2>1 DEF Decide, tables, LogTypeOK
  <2>3. JobsTypeOK' /\ RowsTypeOK'
    BY <2>2 DEF JobsTypeOK, RowsTypeOK
  <2>4. \A t \in Table : jobs[c][t] = <<>>
    BY <1>2, <2>1 DEF PhaseOK, At
  <2>5. Phases'
    BY <2>2, <2>4, OnePhase DEF PhaseOK, At
  <2>6. WithinBound'
    <3>1. Cardinality(Appending)' = Cardinality(Appending) + 1 /\ Cardinality(Appending) \in Nat
      BY <2>1, <2>2, AppendingCounts DEF At
    <3>2. Len(log) + Cardinality(Appending) < MaxEvents
      BY <2>1 DEF Room, Appending
    <3>3. Len(log) \in Nat
      BY <1>1, LenProperties DEF LogTypeOK
    <3>4. QED
      BY <2>2, <3>1, <3>2, <3>3, BankAssumption DEF WithinBound
  <2>7. QED
    BY <2>3, <2>5, <2>6
<1>4. ASSUME NEW c \in Client, AppendEvent(c) PROVE WorkInv'
  <2> DEFINE event == client[c].event
             f == [t \in Table |-> Statements(t, event)]
  <2>1. event \in BankEvent /\ At(c, "append")
    BY <1>2, <1>4 DEF AppendEvent, PhaseOK, At
  <2>2. /\ client'[c].pc = "notify" /\ client'[c].event = event
        /\ \A d \in Client : d # c => client'[d] = client[d]
        /\ UNCHANGED <<accounts, openings, told>>
        /\ log' = log \o Numbered(<<client[c].event>>, Len(log))
        /\ jobs' = [jobs EXCEPT ![c] = f]
        /\ spoiled' \subseteq Table
    BY <1>1, <1>4 DEF AppendEvent, LogTypeOK, RowsTypeOK
  <2>3. JobsTypeOK' /\ \A d \in Client : d # c => jobs'[d] = jobs[d]
    <3>1. f = [t \in Table |-> f[t]] /\ \A t \in Table : f[t] \in Seq(Work(t))
      BY <2>1, StatementsAreWork
    <3> HIDE DEF f
    <3>2. QED
      BY <2>2, <3>1, OtherWork
  <2>4. RowsTypeOK'
    BY <2>2 DEF RowsTypeOK
  <2>5. Phases'
    BY <2>1, <2>2, <2>3, OnePhase DEF PhaseOK, At
  <2>6. WithinBound'
    BY <1>1, <2>1, <2>2, StoreKeepsBound DEF At
  <2>7. QED
    BY <2>3, <2>4, <2>5, <2>6
<1>5. ASSUME NEW c \in Client, client' = [client EXCEPT ![c] = Idle], spoiled' \subseteq Table,
             \A t \in Table : jobs'[c][t] = <<>>,
             \A d \in Client : d # c => jobs'[d] = jobs[d],
             JobsTypeOK', accounts' = accounts, openings' = openings, told' \subseteq Account
      PROVE  RowsTypeOK' /\ Phases' /\ ~At(c, "append")'
             /\ \A d \in Client : d # c => client'[d] = client[d]
  <2>1. client'[c] = Idle /\ \A d \in Client : d # c => client'[d] = client[d]
    BY <1>1, <1>5 DEF LogTypeOK
  <2>2. Phases'
    BY <1>5, <2>1, OnePhase DEF PhaseOK, At, Idle
  <2>3. QED
    BY <1>5, <2>1, <2>2 DEF RowsTypeOK, At, Idle
<1>6. ASSUME NEW c \in Client, AnswerLost(c) PROVE WorkInv'
  <2>1. client[c].event \in BankEvent /\ At(c, "append") /\ \A t \in Table : jobs[c][t] = <<>>
    BY <1>2, <1>6 DEF AnswerLost, PhaseOK, At
  <2>2. /\ client' = [client EXCEPT ![c] = Idle] /\ jobs' = jobs /\ JobsTypeOK'
        /\ UNCHANGED <<accounts, openings, told>> /\ spoiled' \subseteq Table
        /\ log' = log \o Numbered(<<client[c].event>>, Len(log))
    BY <1>6 DEF AnswerLost, RowsTypeOK, JobsTypeOK
  <2>3. RowsTypeOK' /\ Phases' /\ ~At(c, "append")'
        /\ \A d \in Client : d # c => client'[d] = client[d]
    BY <1>5, <2>1, <2>2 DEF RowsTypeOK
  <2>4. WithinBound'
    BY <1>1, <2>1, <2>2, <2>3, StoreKeepsBound
  <2>5. QED
    BY <2>2, <2>3, <2>4
<1>7. ASSUME NEW c \in Client, AppendFails(c) \/ Return(c) \/ RebuildFails(c) PROVE WorkInv'
  <2>1. \A t \in Table : jobs[c][t] = <<>>
    BY <1>2, <1>7 DEF AppendFails, Return, RebuildFails, PhaseOK, At, NoJobs
  <2>2. /\ client' = [client EXCEPT ![c] = Idle] /\ jobs' = jobs /\ JobsTypeOK'
        /\ accounts' = accounts /\ openings' = openings /\ log' = log
    BY <1>7 DEF AppendFails, Return, RebuildFails, JobsTypeOK, tables
  <2>3. spoiled' \subseteq Table
    BY <1>2, <1>7 DEF AppendFails, Return, RebuildFails, RowsTypeOK, tables, PhaseOK, At
  <2>4. told' \subseteq Account
    <3>1. CASE Return(c) /\ client[c].event.type = "BankAccountOpened"
      <4>1. client[c].event \in BankEvent
        BY <1>2, <3>1 DEF Return, PhaseOK, NoEvent
      <4>2. client[c].event.accountId \in Account
        BY <3>1, <4>1, EventShapes
      <4>3. QED
        BY <3>1, <4>2 DEF Return, RowsTypeOK
    <3>2. CASE told' = told
      BY <3>2 DEF RowsTypeOK
    <3>3. QED
      BY <1>7, <3>1, <3>2 DEF AppendFails, Return, RebuildFails, tables
  <2>5. RowsTypeOK' /\ Phases' /\ ~At(c, "append")'
        /\ \A d \in Client : d # c => client'[d] = client[d]
    BY <1>5, <2>1, <2>2, <2>3, <2>4
  <2>6. WithinBound'
    BY <1>1, <2>2, <2>5, OtherStepKeepsBound
  <2>7. QED
    BY <2>2, <2>5, <2>6
<1>8. ASSUME NEW c \in Client, Crash(c) PROVE WorkInv'
  <2>1. /\ client' = [client EXCEPT ![c] = Idle] /\ jobs' = [jobs EXCEPT ![c] = NoJobs]
        /\ accounts' = accounts /\ openings' = openings /\ log' = log /\ told' = told
        /\ spoiled' \subseteq Table
    BY <1>8 DEF Crash, RowsTypeOK
  <2>2. JobsTypeOK' /\ jobs'[c] = NoJobs /\ \A d \in Client : d # c => jobs'[d] = jobs[d]
    BY <2>1, NoWork, OtherWork
  <2>3. RowsTypeOK' /\ Phases' /\ ~At(c, "append")'
        /\ \A d \in Client : d # c => client'[d] = client[d]
    BY <1>5, <2>1, <2>2, NoWork DEF RowsTypeOK
  <2>4. WithinBound'
    BY <1>1, <2>1, <2>3, OtherStepKeepsBound
  <2>5. QED
    BY <2>2, <2>3, <2>4
<1>9. ASSUME NEW c \in Client, NEW t \in Table, Clear(c, t) PROVE WorkInv'
  <2>1. /\ client'[c].pc = "cleared" /\ client'[c].table = t /\ client'[c].event = client[c].event
        /\ \A d \in Client : d # c => client'[d] = client[d]
        /\ log' = log /\ jobs' = jobs /\ told' = told
    BY <1>1, <1>9 DEF Clear, LogTypeOK
  <2>2. At(c, "idle")
    BY <1>9 DEF Clear
  <2>3. client[c].event = NoEvent /\ \A u \in Table : jobs[c][u] = <<>>
    BY <1>2, <2>2 DEF PhaseOK, At
  <2>4. Phases'
    BY <2>1, <2>3, OnePhase DEF PhaseOK, At
  <2>5. RowsTypeOK'
    <3>1. spoiled' \subseteq Table /\ openings' \in Nat
      BY <1>9 DEF Clear, RowsTypeOK
    <3>2. accounts' = accounts \/ accounts' = [a \in Account |-> NoRow]
      BY <1>9 DEF Clear
    <3>3. QED
      BY <2>1, <3>1, <3>2 DEF RowsTypeOK, NoRow
  <2>6. WithinBound'
    BY <1>1, <2>1, OtherStepKeepsBound DEF At
  <2>7. QED
    BY <2>1, <2>4, <2>5, <2>6 DEF JobsTypeOK
<1>10. ASSUME NEW c \in Client, ReadHistory(c) PROVE WorkInv'
  <2> DEFINE t == client[c].table
             replayed == FlattenSeq(History(t))
  <2>1. t \in Table /\ client[c].event = NoEvent
    BY <1>2, <1>10 DEF ReadHistory, PhaseOK, At
  <2>2. /\ client'[c].pc = "replay" /\ client'[c].table = t /\ client'[c].event = client[c].event
        /\ \A d \in Client : d # c => client'[d] = client[d]
        /\ log' = log /\ UNCHANGED <<accounts, openings, told, spoiled>>
        /\ jobs' = [jobs EXCEPT ![c][t] = replayed]
    BY <1>1, <1>10 DEF ReadHistory, History, LogTypeOK, tables
  <2>3. replayed \in Seq(Work(t))
    BY <1>1, <2>1, HistoryIsWork
  <2> HIDE DEF replayed
  <2>4. /\ JobsTypeOK' /\ \A d \in Client : d # c => jobs'[d] = jobs[d]
        /\ \A u \in Table : u # t => jobs'[c][u] = jobs[c][u]
    BY <2>1, <2>2, <2>3, OtherWorkOn
  <2>5. \A u \in Table : jobs[c][u] = <<>>
    BY <1>2, <1>10 DEF ReadHistory, PhaseOK, At
  <2>6. Phases'
    BY <2>1, <2>2, <2>4, <2>5, OnePhase DEF PhaseOK, At
  <2>7. WithinBound'
    BY <1>1, <2>2, OtherStepKeepsBound DEF At
  <2>8. QED
    BY <2>2, <2>4, <2>6, <2>7 DEF RowsTypeOK
<1>11. ASSUME NEW c \in Client, NEW t \in Table, RunStatement(c, t) \/ StatementFails(c, t)
       PROVE  WorkInv'
  <2>1. jobs[c][t] # <<>> /\ log' = log /\ client' = client
    BY <1>11 DEF RunStatement, StatementFails
  <2>2. PICK rest \in Seq(Work(t)) : jobs' = [jobs EXCEPT ![c][t] = rest]
    <3>1. jobs[c][t] \in Seq(Work(t))
      BY DEF JobsTypeOK
    <3>2. Tail(jobs[c][t]) \in Seq(Work(t)) /\ <<>> \in Seq(Work(t))
      BY <2>1, <3>1, HeadTailProperties, ShortSequences
    <3>3. CASE RunStatement(c, t)
      BY <3>2, <3>3 DEF RunStatement
    <3>4. CASE StatementFails(c, t)
      BY <3>2, <3>4 DEF StatementFails
    <3>5. QED
      BY <1>11, <3>3, <3>4
  <2>3. /\ JobsTypeOK' /\ \A d \in Client : d # c => jobs'[d] = jobs[d]
        /\ \A u \in Table : u # t => jobs'[c][u] = jobs[c][u]
    BY <2>2, OtherWorkOn
  <2>4. At(c, "notify") \/ (At(c, "replay") /\ client[c].table = t)
    BY <1>2, <2>1 DEF PhaseOK
  <2>5. PhaseOK(c)'
    <3>1. \A u \in Table : u # t /\ jobs'[c][u] # <<>> =>
            At(c, "notify") \/ (At(c, "replay") /\ client[c].table = u)
      BY <1>2, <2>3 DEF PhaseOK
    <3>2. QED
      BY <1>2, <2>1, <2>4, <3>1 DEF PhaseOK, At
  <2>6. Phases'
    BY <2>1, <2>3, <2>5, OnePhase
  <2>7. RowsTypeOK'
    <3>1. CASE RunStatement(c, t)
      <4>1. jobs[c][t] \in Seq(Statement)
        BY DEF JobsTypeOK
      <4>2. Head(jobs[c][t]) \in Statement
        BY <2>1, <4>1, HeadTailProperties
      <4>3. Execute(Head(jobs[c][t]))
        BY <3>1 DEF RunStatement
      <4>4. /\ accounts' \in [Account -> [balance : Int, currency : Currency \cup {"none"}]]
            /\ openings' \in Nat
        BY <4>2, <4>3, ExecuteKeepsRows
      <4>5. spoiled' = spoiled /\ told' \subseteq Account
        BY <3>1 DEF RunStatement, Listed, RowsTypeOK
      <4>6. QED
        BY <4>4, <4>5 DEF RowsTypeOK
    <3>2. CASE StatementFails(c, t)
      BY <3>2 DEF StatementFails, RowsTypeOK
    <3>3. QED
      BY <1>11, <3>1, <3>2
  <2>8. WithinBound'
    BY <2>1 DEF WithinBound, Appending, At
  <2>9. QED
    BY <2>3, <2>6, <2>7, <2>8
<1>12. CASE UNCHANGED vars
  BY <1>12 DEF vars, JobsTypeOK, RowsTypeOK, Phases, PhaseOK, At, WithinBound, Appending
<1>13. QED
  BY <1>3, <1>4, <1>6, <1>7, <1>8, <1>9, <1>10, <1>11, <1>12 DEF Next

(* Clients keep to their phases: each statement in hand is work for its    *)
(* table, held while a listener or a rebuild of that table runs.           *)
THEOREM WorkSafety == Spec => []WorkInv
<1>1. Init => WorkInv
  <2> SUFFICES ASSUME Init PROVE WorkInv
    OBVIOUS
  <2>1. JobsTypeOK
    <3>1. \A c \in Client : jobs[c] = NoJobs
      BY DEF Init
    <3>2. NoJobs \in [Table -> Seq(Statement)]
      BY ShortSequences DEF NoJobs
    <3>3. QED
      BY <3>1, <3>2, NoWork DEF Init, JobsTypeOK
  <2>2. RowsTypeOK
    BY DEF Init, RowsTypeOK, NoRow
  <2>3. Phases
    BY DEF Init, Phases, PhaseOK, Idle, NoJobs
  <2>4. WithinBound
    <3>1. Appending = {} /\ Len(log) = 0
      BY EmptySeq DEF Init, Appending, At, Idle
    <3>2. QED
      BY <3>1, FS_EmptySet, BankAssumption DEF WithinBound
  <2>5. QED
    BY <2>1, <2>2, <2>3, <2>4 DEF WorkInv
<1>2. BankInv /\ WorkInv /\ [Next]_vars => WorkInv'
  BY StepKeepsWork
<1>3. QED
  BY <1>1, <1>2, BankSafety, PTL DEF Spec

(* Every variable has its type; a statement is in hand only while a        *)
(* listener or a rebuild runs, and the log keeps to its bound.             *)
THEOREM BankTypesHold == Spec => []BankTypeOK
<1>1. BankInv /\ WorkInv => BankTypeOK
  <2> SUFFICES ASSUME BankInv, WorkInv PROVE BankTypeOK
    OBVIOUS
  <2>1. Len(log) <= MaxEvents
    <3>1. Cardinality(Appending) \in Nat
      BY FS_Subset, FS_CardinalityType, BankAssumption DEF Appending
    <3>2. Len(log) \in Nat
      BY LenProperties DEF BankInv, LogTypeOK
    <3>3. QED
      BY <3>1, <3>2, BankAssumption DEF WorkInv, WithinBound
  <2>2. ASSUME NEW c \in Client, jobs[c] # NoJobs PROVE client[c].pc \in {"notify", "replay"}
    <3>1. jobs[c] \in [Table -> Seq(Statement)]
      BY DEF WorkInv, JobsTypeOK
    <3>2. PICK t \in Table : jobs[c][t] # <<>>
      BY <2>2, <3>1 DEF NoJobs
    <3>3. QED
      BY <3>2 DEF WorkInv, Phases, PhaseOK, At
  <2>3. QED
    BY <2>1, <2>2 DEF BankTypeOK, BankInv, LogTypeOK, WorkInv, JobsTypeOK, RowsTypeOK, ClientLabel
<1>2. QED
  BY <1>1, BankSafety, WorkSafety, PTL

-----------------------------------------------------------------------------
(* A rebuild of a table that nothing went wrong with has the table for     *)
(* itself, and found it empty.                                             *)
AloneOn(t) ==
  \A c, d \in Client : Rebuilding(c, t) /\ d # c => jobs[d][t] = <<>> /\ ~Rebuilding(d, t)

(* Between the DELETE and the replay the table stays empty.                *)
EmptiedFor(t) ==
  \A c \in Client : At(c, "cleared") /\ client[c].table = t =>
    /\ t = "accounts" => accounts = [a \in Account |-> NoRow]
    /\ t = "account_analytics" => openings = 0

(* The inductive invariant of the rebuilds.                                *)
RebuildInv == \A t \in Table \ spoiled : AloneOn(t) /\ EmptiedFor(t)

(* No rebuild begins, and work on the table comes from one under way or    *)
(* while there is none.                                                    *)
LEMMA StaysAlone ==
  ASSUME NEW t, AloneOn(t),
         \A c \in Client : Rebuilding(c, t)' => Rebuilding(c, t),
         \A d \in Client : jobs[d][t] = <<>> /\ jobs'[d][t] # <<>> =>
           Rebuilding(d, t) \/ \A c \in Client : ~Rebuilding(c, t)
  PROVE  AloneOn(t)'
BY DEF AloneOn

(* Every action keeps rebuilds alone on their tables.                      *)
LEMMA StepKeepsRebuilds ==
  ASSUME LogTypeOK, WorkInv, RebuildInv, [Next]_vars
  PROVE  RebuildInv'
<1>1. \A c \in Client : PhaseOK(c)
  BY DEF WorkInv, Phases
<1>2. ASSUME NEW t \in Table \ spoiled, \A d \in Client : jobs'[d][t] # <<>> => jobs[d][t] # <<>>,
             \A d \in Client : Rebuilding(d, t)' => Rebuilding(d, t),
             \A d \in Client : At(d, "cleared")' /\ client'[d].table = t =>
                                 At(d, "cleared") /\ client[d].table = t,
             t = "accounts" => accounts' = accounts,
             t = "account_analytics" => openings' = openings
      PROVE  AloneOn(t)' /\ EmptiedFor(t)'
  <2>1. AloneOn(t)'
    BY <1>2, StaysAlone DEF RebuildInv
  <2>2. EmptiedFor(t)'
    BY <1>2 DEF RebuildInv, EmptiedFor
  <2>3. QED
    BY <2>1, <2>2
<1>3. ASSUME NEW c \in Client, OpenAccount(c) \/ MoneyCommand(c) PROVE RebuildInv'
  <2>1. PICK event \in BankEvent : Decide(c, event)
    BY <1>3, CommandDecides
  <2>2. /\ client'[c].pc = "append" /\ \A d \in Client : d # c => client'[d] = client[d]
        /\ UNCHANGED <<jobs, accounts, openings, spoiled>>
    BY <2>1 DEF Decide, tables, LogTypeOK
  <2>3. QED
    BY <1>2, <2>2 DEF RebuildInv, Rebuilding, At
<1>4. ASSUME NEW c \in Client, AppendEvent(c) PROVE RebuildInv'
  <2> DEFINE event == client[c].event
  <2>1. /\ client'[c].pc = "notify" /\ \A d \in Client : d # c => client'[d] = client[d]
        /\ UNCHANGED <<accounts, openings>>
        /\ \A d \in Client : d # c => jobs'[d] = jobs[d]
        /\ \A t \in Table : jobs'[c][t] = Statements(t, event)
        /\ spoiled' = spoiled \cup {t \in Table : /\ Statements(t, event) # <<>>
                                                /\ \E d \in Client : Rebuilding(d, t)}
    BY <1>4 DEF AppendEvent, LogTypeOK, WorkInv, JobsTypeOK
  <2>2. ASSUME NEW t \in Table \ spoiled' PROVE AloneOn(t)' /\ EmptiedFor(t)'
    <3>1. /\ t \in Table \ spoiled
          /\ Statements(t, event) = <<>> \/ \A d \in Client : ~Rebuilding(d, t)
      BY <2>1, <2>2
    <3>2. \A d \in Client : Rebuilding(d, t)' => Rebuilding(d, t)
      BY <2>1 DEF Rebuilding
    <3>3. AloneOn(t)'
      BY <2>1, <3>1, <3>2, StaysAlone DEF RebuildInv
    <3>4. EmptiedFor(t)'
      BY <2>1, <3>1 DEF RebuildInv, EmptiedFor, At
    <3>5. QED
      BY <3>3, <3>4
  <2>3. QED
    BY <2>2 DEF RebuildInv
<1>5. ASSUME NEW c \in Client,
             AnswerLost(c) \/ AppendFails(c) \/ Return(c) \/ RebuildFails(c) \/ Crash(c)
      PROVE  RebuildInv'
  <2>1. /\ client' = [client EXCEPT ![c] = Idle]
        /\ spoiled \subseteq spoiled' /\ UNCHANGED <<accounts, openings>>
        /\ jobs' = jobs \/ jobs' = [jobs EXCEPT ![c] = NoJobs]
    BY <1>5 DEF AnswerLost, AppendFails, Return, RebuildFails, Crash, tables
  <2>2. client'[c] = Idle /\ \A d \in Client : d # c => client'[d] = client[d]
    BY <2>1 DEF LogTypeOK
  <2>3. \A d \in Client, t \in Table : jobs'[d][t] # <<>> => jobs[d][t] # <<>>
    BY <2>1, NoWork DEF WorkInv, JobsTypeOK
  <2>4. ASSUME NEW t \in Table \ spoiled' PROVE AloneOn(t)' /\ EmptiedFor(t)'
    BY <1>2, <2>1, <2>2, <2>3 DEF Rebuilding, At, Idle
  <2>5. QED
    BY <2>4 DEF RebuildInv
<1>6. ASSUME NEW c \in Client, NEW u \in Table, Clear(c, u) PROVE RebuildInv'
  <2>1. /\ At(c, "idle") /\ client'[c].pc = "cleared" /\ client'[c].table = u
        /\ \A d \in Client : d # c => client'[d] = client[d]
        /\ jobs' = jobs
    BY <1>6 DEF Clear, LogTypeOK
  <2>2. ASSUME NEW t \in Table \ spoiled', t # u PROVE AloneOn(t)' /\ EmptiedFor(t)'
    <3>1. /\ t \in Table \ spoiled
          /\ t = "accounts" => accounts' = accounts
          /\ t = "account_analytics" => openings' = openings
      BY <1>6, <2>2 DEF Clear, Table
    <3>2. QED
      BY <1>2, <2>1, <2>2, <3>1 DEF Rebuilding, At
  <2>3. ASSUME u \in Table \ spoiled' PROVE AloneOn(u)' /\ EmptiedFor(u)'
    <3>1. \A d \in Client : jobs[d][u] = <<>> /\ ~Rebuilding(d, u)
      BY <1>6, <2>3 DEF Clear
    <3>2. \A d \in Client : Rebuilding(d, u)' => d = c
      BY <2>1, <3>1 DEF Rebuilding
    <3>3. AloneOn(u)'
      BY <2>1, <3>1, <3>2 DEF AloneOn
    <3>4. EmptiedFor(u)'
      BY <1>6 DEF EmptiedFor, Clear
    <3>5. QED
      BY <3>3, <3>4
  <2>4. QED
    BY <2>2, <2>3 DEF RebuildInv
<1>7. ASSUME NEW c \in Client, ReadHistory(c) PROVE RebuildInv'
  <2> DEFINE u == client[c].table
  <2>1. u \in Table /\ Rebuilding(c, u)
    BY <1>1, <1>7 DEF ReadHistory, PhaseOK, At, Rebuilding
  <2>2. PICK s : jobs' = [jobs EXCEPT ![c][u] = s]
    BY <1>7 DEF ReadHistory
  <2>3. /\ client'[c].pc = "replay" /\ client'[c].table = u
        /\ \A d \in Client : d # c => client'[d] = client[d]
        /\ UNCHANGED <<accounts, openings, spoiled>>
        /\ \A d \in Client : d # c => jobs'[d] = jobs[d]
        /\ \A t \in Table : t # u => jobs'[c][t] = jobs[c][t]
    BY <1>7, <2>1, <2>2 DEF ReadHistory, LogTypeOK, tables, WorkInv, JobsTypeOK
  <2>4. ASSUME NEW t \in Table \ spoiled' PROVE AloneOn(t)' /\ EmptiedFor(t)'
    <3>1. \A d \in Client : Rebuilding(d, t)' => Rebuilding(d, t)
      BY <2>1, <2>3 DEF Rebuilding
    <3>2. \A d \in Client : jobs[d][t] = <<>> /\ jobs'[d][t] # <<>> => Rebuilding(d, t)
      BY <2>1, <2>3
    <3>3. AloneOn(t)'
      BY <2>3, <3>1, <3>2, StaysAlone DEF RebuildInv
    <3>4. EmptiedFor(t)'
      BY <2>3 DEF RebuildInv, EmptiedFor, At
    <3>5. QED
      BY <3>3, <3>4
  <2>5. QED
    BY <2>4 DEF RebuildInv
<1>8. ASSUME NEW c \in Client, NEW u \in Table, RunStatement(c, u) PROVE RebuildInv'
  <2>1. jobs[c][u] # <<>> /\ client' = client /\ spoiled' = spoiled
    BY <1>8 DEF RunStatement
  <2>2. \A d \in Client, t \in Table : jobs'[d][t] # <<>> => jobs[d][t] # <<>>
    BY <1>8 DEF RunStatement, WorkInv, JobsTypeOK
  <2>3. jobs[c][u] \in Seq(Work(u))
    BY DEF WorkInv, JobsTypeOK
  <2>4. Head(jobs[c][u]) \in Work(u)
    BY <2>1, <2>3, HeadTailProperties
  <2>5. /\ u # "accounts" => accounts' = accounts
        /\ u # "account_analytics" => openings' = openings
    <3>1. Execute(Head(jobs[c][u]))
      BY <1>8 DEF RunStatement
    <3>2. CASE Head(jobs[c][u]) = [op |-> "count"]
      <4>1. Head(jobs[c][u]).op = "count"
        BY <3>2
      <4>2. u = "account_analytics"
        BY <2>4, <4>1 DEF Work
      <4>3. accounts' = accounts
        BY <3>1, <4>1 DEF Execute
      <4>4. QED
        BY <4>2, <4>3
    <3>3. CASE Head(jobs[c][u]).op \in {"upsert", "add"}
      BY <2>4, <3>1, <3>3 DEF Work, Execute, Table
    <3>4. QED
      BY <2>4, <3>2, <3>3, StatementShapes DEF Work
  <2>6. \A d \in Client : ~(At(d, "cleared") /\ client[d].table = u /\ u \notin spoiled)
    <3> SUFFICES ASSUME NEW d \in Client, At(d, "cleared"), client[d].table = u, u \notin spoiled
                 PROVE  FALSE
      OBVIOUS
    <3>1. Rebuilding(d, u)
      BY DEF Rebuilding, At
    <3>2. d # c => jobs[c][u] = <<>>
      BY <3>1 DEF RebuildInv, AloneOn
    <3>3. jobs[d][u] = <<>>
      BY <1>1 DEF PhaseOK, At
    <3>4. QED
      BY <2>1, <3>2, <3>3
  <2>7. ASSUME NEW t \in Table \ spoiled' PROVE AloneOn(t)' /\ EmptiedFor(t)'
    <3>1. AloneOn(t)'
      BY <2>1, <2>2, StaysAlone DEF RebuildInv, Rebuilding
    <3>2. ASSUME NEW d \in Client, At(d, "cleared")', client'[d].table = t
          PROVE  /\ t = "accounts" => accounts' = [a \in Account |-> NoRow]
                 /\ t = "account_analytics" => openings' = 0
      <4>1. At(d, "cleared") /\ client[d].table = t /\ t \in Table \ spoiled
        BY <2>1, <3>2 DEF At
      <4>2. t # u
        BY <2>6, <4>1
      <4>3. /\ t = "accounts" => accounts' = accounts
            /\ t = "account_analytics" => openings' = openings
        BY <2>5, <4>2
      <4>4. EmptiedFor(t)
        BY <4>1 DEF RebuildInv
      <4>5. QED
        BY <4>1, <4>3, <4>4 DEF EmptiedFor
    <3>3. EmptiedFor(t)'
      BY <3>2 DEF EmptiedFor
    <3>4. QED
      BY <3>1, <3>3
  <2>8. QED
    BY <2>7 DEF RebuildInv
<1>9. ASSUME NEW c \in Client, NEW u \in Table, StatementFails(c, u) PROVE RebuildInv'
  <2>1. /\ client' = client /\ spoiled \subseteq spoiled' /\ UNCHANGED <<accounts, openings>>
        /\ \A d \in Client, t \in Table : jobs'[d][t] # <<>> => jobs[d][t] # <<>>
    BY <1>9 DEF StatementFails, WorkInv, JobsTypeOK
  <2>2. QED
    BY <1>2, <2>1 DEF RebuildInv, Rebuilding, At
<1>10. CASE UNCHANGED vars
  BY <1>10 DEF vars, RebuildInv, AloneOn, EmptiedFor, Rebuilding, At
<1>11. QED
  BY <1>3, <1>4, <1>5, <1>6, <1>7, <1>8, <1>9, <1>10 DEF Next

(* As long as no rebuild overlapped a handler on a table (the table is not *)
(* spoiled), the rebuild that runs has the table for itself.               *)
THEOREM RebuildSafety == Spec => []RebuildInv
<1>1. Init => RebuildInv
  BY DEF Init, RebuildInv, AloneOn, EmptiedFor, Rebuilding, At, Idle
<1>2. BankInv /\ WorkInv /\ RebuildInv /\ [Next]_vars => RebuildInv'
  BY StepKeepsRebuilds DEF BankInv
<1>3. QED
  BY <1>1, <1>2, BankSafety, WorkSafety, PTL DEF Spec

-----------------------------------------------------------------------------
(* The statements due on a table: those at the positions of the clients'   *)
(* work in hand.                                                           *)
LEMMA DueMeans ==
  ASSUME NEW t, NEW p
  PROVE  p \in Due(t) <=> \E c \in Client : \E i \in 1..Len(jobs[c][t]) : p = <<c, i>>
BY DEF Due

(* They are finitely many.                                                 *)
LEMMA DueIsFinite ==
  ASSUME JobsTypeOK, NEW t \in Table
  PROVE  IsFiniteSet(Due(t)) /\ Cardinality(Due(t)) \in Nat
<1> DEFINE of == [c \in Client |-> {<<c, i>> : i \in 1..Len(jobs[c][t])}]
           all == {of[c] : c \in Client}
<1>1. ASSUME NEW c \in Client PROVE IsFiniteSet(of[c])
  <2>1. Len(jobs[c][t]) \in Nat
    BY LenProperties DEF JobsTypeOK
  <2>2. IsFiniteSet(1..Len(jobs[c][t]))
    BY <2>1, FS_Interval
  <2> DEFINE f == [i \in 1..Len(jobs[c][t]) |-> <<c, i>>]
  <2>3. f \in Surjection(1..Len(jobs[c][t]), of[c])
    BY DEF Surjection
  <2>4. QED
    BY <2>2, <2>3, FS_Surjection
<1>2. IsFiniteSet(all)
  <2>1. of \in Surjection(Client, all)
    BY DEF Surjection
  <2>2. QED
    BY <2>1, FS_Surjection, BankAssumption
<1>3. UNION all = Due(t)
  BY DEF Due
<1> HIDE DEF of
<1>4. IsFiniteSet(UNION all)
  BY <1>1, <1>2, FS_UNION
<1>5. QED
  BY <1>3, <1>4, FS_CardinalityType

(* The work on the table is as before.                                     *)
LEMMA SameDue ==
  ASSUME NEW t, \A c \in Client : jobs'[c][t] = jobs[c][t]
  PROVE  Due(t)' = Due(t) /\ \A p \in Due(t) : Job(t, p)' = Job(t, p)
<1>1. ASSUME NEW c \in Client
      PROVE {<<c, i>> : i \in 1..Len(jobs'[c][t])} = {<<c, i>> : i \in 1..Len(jobs[c][t])}
  OBVIOUS
<1>2. Due(t)' = Due(t)
  BY <1>1 DEF Due
<1>3. \A p \in Due(t) : Job(t, p)' = Job(t, p)
  BY DEF Due, Job
<1>4. QED
  BY <1>2, <1>3

(* A client that had none takes work in hand.                              *)
LEMMA MoreDue ==
  ASSUME NEW t, NEW c \in Client, jobs[c][t] = <<>>,
         \A d \in Client : d # c => jobs'[d][t] = jobs[d][t]
  PROVE  /\ Due(t)' = Due(t) \cup {<<c, i>> : i \in 1..Len(jobs'[c][t])}
         /\ Due(t) \cap {<<c, i>> : i \in 1..Len(jobs'[c][t])} = {}
         /\ \A p \in Due(t) : Job(t, p)' = Job(t, p)
<1> DEFINE new == {<<c, i>> : i \in 1..Len(jobs'[c][t])}
<1>1. Len(jobs[c][t]) = 0
  BY EmptySeq
<1>2. ASSUME NEW p PROVE p \in Due(t)' <=> p \in Due(t) \/ p \in new
  <2>1. p \in Due(t)' <=> \E d \in Client : \E i \in 1..Len(jobs'[d][t]) : p = <<d, i>>
    BY DEF Due
  <2>2. p \in Due(t) <=> \E d \in Client : \E i \in 1..Len(jobs[d][t]) : p = <<d, i>>
    BY DEF Due
  <2>3. QED
    BY <1>1, <2>1, <2>2
<1>3. ASSUME NEW p \in Due(t) PROVE p \notin new /\ Job(t, p)' = Job(t, p)
  <2>1. PICK d \in Client : \E i \in 1..Len(jobs[d][t]) : p = <<d, i>>
    BY DEF Due
  <2>2. d # c
    BY <1>1, <2>1
  <2>3. QED
    BY <2>1, <2>2 DEF Job
<1>4. QED
  BY <1>2, <1>3

(* A client finishes its first statement, and those after it move up.      *)
LEMMA LessDue ==
  ASSUME JobsTypeOK, NEW t \in Table, NEW c \in Client, jobs[c][t] # <<>>,
         jobs'[c][t] = Tail(jobs[c][t]),
         \A d \in Client : d # c => jobs'[d][t] = jobs[d][t]
  PROVE  /\ <<c, 1>> \in Due(t) /\ Job(t, <<c, 1>>) = Head(jobs[c][t])
         /\ <<c, Len(jobs[c][t])>> \in Due(t) /\ Len(jobs[c][t]) \in Nat \ {0}
         /\ Len(jobs'[c][t]) = Len(jobs[c][t]) - 1
         /\ \A i \in 1..Len(jobs'[c][t]) : jobs'[c][t][i] = jobs[c][t][i + 1]
         /\ Due(t)' = Due(t) \ {<<c, Len(jobs[c][t])>>}
<1> DEFINE n == Len(jobs[c][t])
<1>1. jobs[c][t] \in Seq(Work(t))
  BY DEF JobsTypeOK
<1>2. /\ n \in Nat \ {0} /\ Len(jobs'[c][t]) = n - 1 /\ Head(jobs[c][t]) = jobs[c][t][1]
      /\ \A i \in 1..n - 1 : jobs'[c][t][i] = jobs[c][t][i + 1]
  <2>1. /\ n \in Nat /\ n # 0 /\ Len(Tail(jobs[c][t])) = n - 1
        /\ Head(jobs[c][t]) = jobs[c][t][1]
        /\ \A i \in 1..Len(Tail(jobs[c][t])) : Tail(jobs[c][t])[i] = jobs[c][t][i + 1]
    BY <1>1, LenProperties, HeadTailProperties, EmptySeq
  <2>2. QED
    BY <2>1
<1>3. <<c, 1>> \in Due(t) /\ <<c, n>> \in Due(t)
  BY <1>2 DEF Due
<1>4. ASSUME NEW p PROVE p \in Due(t)' <=> p \in Due(t) /\ p # <<c, n>>
  <2>1. p \in Due(t)' <=> \E d \in Client : \E i \in 1..Len(jobs'[d][t]) : p = <<d, i>>
    BY DEF Due
  <2>2. p \in Due(t) <=> \E d \in Client : \E i \in 1..Len(jobs[d][t]) : p = <<d, i>>
    BY DEF Due
  <2>3. ASSUME NEW i PROVE i \in 1..Len(jobs'[c][t]) <=> i \in 1..n /\ i # n
    BY <1>2
  <2> HIDE DEF n
  <2>4. ASSUME NEW d \in Client, NEW i
        PROVE  i \in 1..Len(jobs'[d][t]) <=> i \in 1..Len(jobs[d][t]) /\ <<d, i>> # <<c, n>>
    BY <2>3 DEF n
  <2>5. QED
    BY <2>1, <2>2, <2>4
<1>5. QED
  BY <1>2, <1>3, <1>4 DEF Job

-----------------------------------------------------------------------------
(* The openings of the log.                                                *)
OpeningEvents == OfKind(AllRecords, "BankAccountOpened")

(* They are finitely many, and at known positions.                         *)
LEMMA OpeningsOfLog ==
  ASSUME LogTypeOK
  PROVE  /\ IsFiniteSet(OpeningEvents) /\ Cardinality(OpeningEvents) \in Nat
         /\ \A e : e \in OpeningEvents <=>
              \E i \in 1..Len(log) : e = EventAt(i) /\ e.type = "BankAccountOpened"
<1>1. \A e : e \in OpeningEvents <=>
        \E i \in 1..Len(log) : e = EventAt(i) /\ e.type = "BankAccountOpened"
  BY DEF OpeningEvents, OfKind, AllRecords, EventAt
<1> DEFINE f == [r \in AllRecords |-> r.eventType]
           all == {r.eventType : r \in AllRecords}
<1>2. IsFiniteSet(AllRecords)
  BY RecordsOfLog DEF LogTypeOK
<1>3. f \in Surjection(AllRecords, all)
  BY DEF Surjection
<1>4. IsFiniteSet(all)
  BY <1>2, <1>3, FS_Surjection
<1>5. OpeningEvents \subseteq all
  BY DEF OpeningEvents, OfKind
<1>6. IsFiniteSet(OpeningEvents)
  BY <1>4, <1>5, FS_Subset
<1>7. QED
  BY <1>1, <1>6, FS_CardinalityType

(* An append adds an opening that was not there, or none.                  *)
LEMMA OpeningsOfLonger ==
  ASSUME BankInv, BankInv', NEW e \in BankEvent,
         log' = log \o Numbered(<<e>>, Len(log))
  PROVE  Cardinality(OpeningEvents)' =
           Cardinality(OpeningEvents) + (IF e.type = "BankAccountOpened" THEN 1 ELSE 0)
<1>0. PICK last : last = Len(log) + 1
  OBVIOUS
<1>1. /\ LogTypeOK /\ LogTypeOK' /\ Len(log) \in Nat /\ Len(log') = last
      /\ \A i \in 1..Len(log) : EventAt(i)' = EventAt(i)
      /\ EventAt(last)' = e
  BY <1>0, AppendOne, LenProperties DEF BankInv, LogTypeOK, EventAt
<1>2. PICK then : then = OpeningEvents'
  OBVIOUS
<1>3. \A f : f \in then <=>
        \E i \in 1..last : f = EventAt(i)' /\ f.type = "BankAccountOpened"
  <2>1. (\A f : f \in OpeningEvents <=>
           \E i \in 1..Len(log) : f = EventAt(i) /\ f.type = "BankAccountOpened")'
    BY <1>1 DEF OpeningEvents, OfKind, AllRecords, EventAt
  <2>2. QED
    BY <1>1, <1>2, <2>1
<1>4. /\ IsFiniteSet(OpeningEvents) /\ Cardinality(OpeningEvents) \in Nat
      /\ \A f : f \in OpeningEvents <=>
           \E i \in 1..Len(log) : f = EventAt(i) /\ f.type = "BankAccountOpened"
  BY <1>1, OpeningsOfLog
<1>5. \A f : f \in then <=> f \in OpeningEvents \/ (f = e /\ f.type = "BankAccountOpened")
  <2>1. \A i : i \in 1..last <=> i \in 1..Len(log) \/ i = last
    BY <1>0, <1>1
  <2>2. ASSUME NEW f
        PROVE  f \in then <=> f \in OpeningEvents \/ (f = e /\ f.type = "BankAccountOpened")
    <3>1. f \in then <=> \E i \in 1..last : f = EventAt(i)' /\ f.type = "BankAccountOpened"
      BY <1>3
    <3>2. f \in OpeningEvents <=>
            \E i \in 1..Len(log) : f = EventAt(i) /\ f.type = "BankAccountOpened"
      BY <1>4
    <3>3. ASSUME NEW i \in 1..last, f = EventAt(i)', f.type = "BankAccountOpened"
          PROVE  f \in OpeningEvents \/ f = e
      BY <1>1, <2>1, <3>2, <3>3
    <3>4. ASSUME f \in OpeningEvents PROVE f \in then
      BY <1>1, <2>1, <3>1, <3>2, <3>4
    <3>5. ASSUME f = e, f.type = "BankAccountOpened" PROVE f \in then
      BY <1>1, <2>1, <3>1, <3>5
    <3>6. f \in OpeningEvents => f.type = "BankAccountOpened"
      BY <3>2
    <3>7. f \in then => f.type = "BankAccountOpened"
      BY <3>1
    <3>8. QED
      BY <3>1, <3>3, <3>4, <3>5, <3>6, <3>7
  <2>3. QED
    BY <2>2
<1>6. CASE e.type = "BankAccountOpened"
  <2>1. e \notin OpeningEvents
    <3> SUFFICES ASSUME NEW i \in 1..Len(log), e = EventAt(i) PROVE FALSE
      BY <1>4
    <3>1. i < last /\ i \in 1..last /\ last \in 1..last
      BY <1>0, <1>1
    <3>2. ~Repeats(EventAt(i)', EventAt(last)')
      BY <1>1, <3>1 DEF BankInv, NothingIsRepeated
    <3>3. QED
      BY <1>1, <1>6, <3>2 DEF Repeats
  <2>2. then = OpeningEvents \cup {e}
    BY <1>5, <1>6
  <2>3. QED
    <3>1. Cardinality(OpeningEvents \cup {e}) = Cardinality(OpeningEvents) + 1
      BY <1>4, <2>1, FS_AddElement
    <3>2. Cardinality(OpeningEvents)' = Cardinality(then)
      BY <1>2
    <3>3. QED
      BY <1>6, <2>2, <3>1, <3>2
<1>7. CASE e.type # "BankAccountOpened"
  <2>1. then = OpeningEvents
    BY <1>5, <1>7
  <2>2. QED
    BY <1>2, <1>4, <1>7, <2>1
<1>8. QED
  BY <1>6, <1>7

(* A rebuild of the analytics replays a statement for every opening.       *)
LEMMA HistoryCounts ==
  ASSUME BankInv
  PROVE  Len(FlattenSeq(History("account_analytics"))) = Cardinality(OpeningEvents)
<1> DEFINE t == "account_analytics"
           n == Len(log)
           upTo(i) == {e \in OpeningEvents : \E j \in 1..i : e = EventAt(j)}
<1>1. /\ LogTypeOK /\ n \in Nat /\ t \in Table
      /\ \A i \in 1..n : EventAt(i) \in BankEvent
  BY LogHoldsEvents, LenProperties DEF BankInv, LogTypeOK, Table
<1>2. PICK g \in [0..n -> Seq(Work(t))] :
        /\ g[0] = <<>>
        /\ \A i \in 1..n : g[i] = g[i - 1] \o History(t)[i]
        /\ FlattenSeq(History(t)) = g[n]
  <2>1. History(t) \in Seq(Seq(Work(t))) /\ Len(History(t)) = n
    BY <1>1, HistoryIsWork
  <2> DEFINE all == History(t)
  <2>2. all \in Seq(Seq(Work(t)))
    BY <2>1
  <2> HIDE DEF all
  <2>3. PICK g \in [0..Len(all) -> Seq(Work(t))] :
          /\ g[0] = <<>>
          /\ \A i \in 1..Len(all) : g[i] = g[i - 1] \o all[i]
          /\ FlattenSeq(all) = g[Len(all)]
    BY <2>2, FlattenedStepwise
  <2>4. QED
    BY <2>1, <2>3 DEF all
<1>3. \A i \in 1..n : History(t)[i] = Statements(t, EventAt(i))
  BY DEF History, EventAt
<1>4. /\ IsFiniteSet(OpeningEvents)
      /\ \A e : e \in OpeningEvents <=>
           \E i \in 1..n : e = EventAt(i) /\ e.type = "BankAccountOpened"
  BY <1>1, OpeningsOfLog
<1> DEFINE G == {k \in Nat : k <= n => Len(g[k]) = Cardinality(upTo(k))}
<1>5. 0 \in G
  <2>1. upTo(0) = {}
    OBVIOUS
  <2>2. QED
    BY <1>2, <2>1, FS_EmptySet, EmptySeq
<1>6. ASSUME NEW k \in Nat, k \in G PROVE k + 1 \in G
  <2> SUFFICES ASSUME k + 1 <= n PROVE Len(g[k + 1]) = Cardinality(upTo(k + 1))
    OBVIOUS
  <2> DEFINE e == EventAt(k + 1)
  <2>1. /\ k + 1 \in 1..n /\ (k + 1) - 1 = k /\ k \in 0..n
        /\ Len(g[k]) = Cardinality(upTo(k)) /\ e \in BankEvent
    BY <1>1, <1>6
  <2>2. g[k + 1] = g[k] \o Statements(t, e) /\ g[k] \in Seq(Work(t))
    BY <1>2, <1>3, <2>1
  <2>3. IsFiniteSet(upTo(k)) /\ Cardinality(upTo(k)) \in Nat
    BY <1>4, FS_Subset, FS_CardinalityType
  <2>4. \A i : i \in 1..(k + 1) <=> i \in 1..k \/ i = k + 1
    BY <1>1
  <2>5. CASE e.type = "BankAccountOpened"
    <3>1. Statements(t, e) = <<[op |-> "count"]>>
      BY <2>1, <2>5, StatementsOfOpening
    <3>2. Len(g[k + 1]) = Len(g[k]) + 1
      <4>1. <<[op |-> "count"]>> \in Seq({[op |-> "count"]}) /\ Len(<<[op |-> "count"]>>) = 1
        OBVIOUS
      <4>2. Len(g[k] \o <<[op |-> "count"]>>) = Len(g[k]) + Len(<<[op |-> "count"]>>)
        BY <2>2, <4>1, ConcatProperties
      <4>3. QED
        BY <2>2, <3>1, <4>1, <4>2
    <3>3. e \notin upTo(k)
      <4> SUFFICES ASSUME NEW j \in 1..k, e = EventAt(j) PROVE FALSE
        OBVIOUS
      <4>1. j < k + 1 /\ j \in 1..n
        BY <1>1, <2>1
      <4>2. ~Repeats(EventAt(j), EventAt(k + 1))
        BY <2>1, <4>1 DEF BankInv, NothingIsRepeated
      <4>3. QED
        BY <2>5, <4>2 DEF Repeats
    <3>4. upTo(k + 1) = upTo(k) \cup {e}
      <4>1. e \in OpeningEvents
        BY <1>4, <2>1, <2>5
      <4>2. QED
        BY <2>4, <4>1
    <3> HIDE DEF upTo
    <3>5. Cardinality(upTo(k) \cup {e}) = Cardinality(upTo(k)) + 1
      BY <2>3, <3>3, FS_AddElement
    <3>6. QED
      BY <2>1, <3>2, <3>4, <3>5
  <2>6. CASE e.type # "BankAccountOpened"
    <3>1. Statements(t, e) = <<>>
      BY <2>6 DEF Statements, AnalyticsStatements
    <3>2. g[k + 1] = g[k]
      BY <2>2, <3>1, ConcatEmptySeq
    <3>3. e \notin OpeningEvents
      BY <1>4, <2>6
    <3>4. upTo(k + 1) = upTo(k)
      BY <2>4, <3>3
    <3> HIDE DEF upTo
    <3>5. QED
      BY <2>1, <3>2, <3>4
  <2>7. QED
    BY <2>5, <2>6
<1>7. n \in G
  <2> HIDE DEF G
  <2>1. QED
    BY <1>1, <1>5, <1>6, AllNumbers
<1>8. upTo(n) = OpeningEvents
  BY <1>4
<1> HIDE DEF upTo
<1>9. QED
  BY <1>1, <1>2, <1>7, <1>8

(* The count and what is to be added to it.                                *)
Counted ==
  Settled("account_analytics") =>
    openings + Cardinality(Due("account_analytics")) = Cardinality(OpeningEvents)

(* Steps that leave the count, the work on it and the openings alone.      *)
LEMMA SameCount ==
  ASSUME Counted, Settled("account_analytics")' => Settled("account_analytics"),
         openings' = openings,
         \A c \in Client : jobs'[c]["account_analytics"] = jobs[c]["account_analytics"],
         Cardinality(OpeningEvents)' = Cardinality(OpeningEvents)
  PROVE  Counted'
<1>1. Due("account_analytics")' = Due("account_analytics")
  BY SameDue
<1>2. QED
  BY <1>1 DEF Counted

(* Without a new event the openings are the same.                          *)
LEMMA SameOpenings == ASSUME log' = log PROVE OpeningEvents' = OpeningEvents
BY DEF OpeningEvents, OfKind, AllRecords

(* Every action keeps the count.                                           *)
LEMMA StepKeepsCount ==
  ASSUME BankInv, WorkInv, RebuildInv, Counted, [Next]_vars
  PROVE  Counted'
<1> DEFINE t == "account_analytics"
<1>1. /\ LogTypeOK /\ BankInv' /\ JobsTypeOK /\ openings \in Nat /\ t \in Table
      /\ \A c \in Client : PhaseOK(c)
  BY StepKeepsInv DEF BankInv, WorkInv, Phases, RowsTypeOK, Table
<1>2. ASSUME NEW c \in Client, OpenAccount(c) \/ MoneyCommand(c) PROVE Counted'
  <2>1. PICK event \in BankEvent : Decide(c, event) /\ At(c, "idle")
    BY <1>1, <1>2, CommandDecides
  <2>2. /\ \A d \in Client : d # c => client'[d] = client[d]
        /\ UNCHANGED <<log, jobs, openings, spoiled>>
    BY <1>1, <2>1 DEF Decide, tables, LogTypeOK
  <2>3. Settled(t)' => Settled(t)
    BY <2>1, <2>2 DEF Settled, At
  <2>4. QED
    BY <2>2, <2>3, SameCount, SameOpenings
<1>3. ASSUME NEW c \in Client, AppendEvent(c) \/ AnswerLost(c) PROVE Counted'
  <2> DEFINE event == client[c].event
  <2>1. /\ event \in BankEvent /\ jobs[c][t] = <<>> /\ At(c, "append")
    BY <1>1, <1>3 DEF AppendEvent, AnswerLost, PhaseOK, At
  <2>2. Cardinality(OpeningEvents)' =
          Cardinality(OpeningEvents) + (IF event.type = "BankAccountOpened" THEN 1 ELSE 0)
    BY <1>1, <1>3, <2>1, OpeningsOfLonger DEF AppendEvent, AnswerLost
  <2>3. Settled(t)' => Settled(t)
    BY <1>1, <1>3, <2>1 DEF AppendEvent, AnswerLost, Settled, At, LogTypeOK
  <2>4. openings' = openings /\ \A d \in Client : d # c => jobs'[d][t] = jobs[d][t]
    BY <1>1, <1>3 DEF AppendEvent, AnswerLost, JobsTypeOK
  <2>5. CASE event.type # "BankAccountOpened"
    <3>1. Statements(t, event) = <<>>
      BY <2>5 DEF Statements, AnalyticsStatements
    <3>2. jobs'[c][t] = <<>>
      BY <1>1, <1>3, <2>1, <3>1 DEF AppendEvent, AnswerLost, JobsTypeOK
    <3>3. \A d \in Client : jobs'[d][t] = jobs[d][t]
      BY <2>1, <2>4, <3>2
    <3>4. Cardinality(OpeningEvents)' = Cardinality(OpeningEvents)
      BY <1>1, <2>2, <2>5, OpeningsOfLog
    <3>5. QED
      BY <2>3, <2>4, <3>3, <3>4, SameCount
  <2>6. CASE event.type = "BankAccountOpened" /\ AnswerLost(c)
    <3>1. Statements(t, event) # <<>>
      BY <2>1, <2>6, StatementsOfOpening
    <3>2. t \in spoiled'
      BY <1>1, <2>6, <3>1 DEF AnswerLost
    <3>3. QED
      BY <3>2 DEF Counted, Settled
  <2>7. CASE event.type = "BankAccountOpened" /\ AppendEvent(c)
    <3>1. jobs'[c][t] = <<[op |-> "count"]>>
      <4>1. jobs'[c][t] = Statements(t, event)
        BY <1>1, <2>7 DEF AppendEvent, JobsTypeOK
      <4>2. QED
        BY <2>1, <2>7, <4>1, StatementsOfOpening
    <3>2. Len(jobs'[c][t]) = 1
      BY <3>1
    <3>3. Due(t)' = Due(t) \cup {<<c, 1>>} /\ <<c, 1>> \notin Due(t)
      <4>1. {<<c, i>> : i \in 1..Len(jobs'[c][t])} = {<<c, 1>>}
        BY <3>2
      <4>2. QED
        BY <2>1, <2>4, <4>1, MoreDue
    <3>4. IsFiniteSet(Due(t)) /\ Cardinality(Due(t)) \in Nat
      BY <1>1, DueIsFinite
    <3>5. Cardinality(Due(t))' = Cardinality(Due(t)) + 1
      BY <3>3, <3>4, FS_AddElement
    <3>6. QED
      BY <1>1, <2>2, <2>3, <2>4, <2>7, <3>4, <3>5 DEF Counted
  <2>8. QED
    BY <1>3, <2>5, <2>6, <2>7
<1>4. ASSUME NEW c \in Client, AppendFails(c) \/ Return(c) \/ RebuildFails(c) PROVE Counted'
  <2>1. client' = [client EXCEPT ![c] = Idle] /\ UNCHANGED <<log, jobs, openings>>
    BY <1>4 DEF AppendFails, Return, RebuildFails, tables
  <2>2. Settled(t)' => Settled(t)
    BY <1>1, <1>4, <2>1 DEF AppendFails, Return, RebuildFails, tables, Settled, At, LogTypeOK
  <2>3. QED
    BY <2>1, <2>2, SameCount, SameOpenings
<1>5. ASSUME NEW c \in Client, Crash(c) PROVE Counted'
  <2>1. /\ client'[c] = Idle /\ \A d \in Client : d # c => client'[d] = client[d]
        /\ UNCHANGED <<log, openings>>
        /\ \A d \in Client : d # c => jobs'[d] = jobs[d]
        /\ jobs'[c][t] = <<>>
    BY <1>1, <1>5, NoWork DEF Crash, LogTypeOK, JobsTypeOK
  <2>2. CASE jobs[c][t] # <<>> \/ Rebuilding(c, t)
    <3>1. t \in spoiled'
      BY <1>1, <1>5, <2>2 DEF Crash
    <3>2. QED
      BY <3>1 DEF Counted, Settled
  <2>3. CASE jobs[c][t] = <<>> /\ ~Rebuilding(c, t)
    <3>1. Settled(t)' => Settled(t)
      BY <1>1, <1>5, <2>1, <2>3 DEF Crash, Settled, At, Rebuilding
    <3>2. \A d \in Client : jobs'[d][t] = jobs[d][t]
      BY <2>1, <2>3
    <3>3. QED
      BY <2>1, <3>1, <3>2, SameCount, SameOpenings
  <2>4. QED
    BY <2>2, <2>3
<1>6. ASSUME NEW c \in Client, NEW u \in Table, Clear(c, u) PROVE Counted'
  <2>1. /\ client'[c].pc = "cleared" /\ client'[c].table = u /\ At(c, "idle")
        /\ \A d \in Client : d # c => client'[d] = client[d]
        /\ UNCHANGED <<log, jobs>>
    BY <1>1, <1>6 DEF Clear, LogTypeOK
  <2>2. CASE u = t
    <3>1. ~Settled(t)'
      BY <2>1, <2>2 DEF Settled, At
    <3>2. QED
      BY <3>1 DEF Counted
  <2>3. CASE u # t
    <3>1. openings' = openings /\ (t \in spoiled => t \in spoiled')
      BY <1>6, <2>3 DEF Clear, Table
    <3>2. Settled(t)' => Settled(t)
      BY <2>1, <3>1 DEF Settled, At
    <3>3. QED
      BY <2>1, <3>1, <3>2, SameCount, SameOpenings
  <2>4. QED
    BY <2>2, <2>3
<1>7. ASSUME NEW c \in Client, ReadHistory(c) PROVE Counted'
  <2> DEFINE u == client[c].table
             replayed == FlattenSeq(History(u))
  <2>1. /\ u \in Table /\ At(c, "cleared") /\ \A v \in Table : jobs[c][v] = <<>>
    BY <1>1, <1>7 DEF ReadHistory, PhaseOK, At
  <2>2. /\ client'[c].pc = "replay"
        /\ \A d \in Client : d # c => client'[d] = client[d]
        /\ UNCHANGED <<log, openings, spoiled>>
        /\ jobs' = [jobs EXCEPT ![c][u] = replayed]
    BY <1>1, <1>7 DEF ReadHistory, History, LogTypeOK, tables
  <2> HIDE DEF replayed
  <2>3. /\ jobs'[c][u] = replayed
        /\ \A d \in Client : d # c => jobs'[d] = jobs[d]
        /\ \A v \in Table : v # u => jobs'[c][v] = jobs[c][v]
    BY <1>1, <2>1, <2>2 DEF JobsTypeOK
  <2>4. CASE u # t
    <3>1. Settled(t)' => Settled(t)
      BY <2>2, <2>4 DEF Settled, At
    <3>2. \A d \in Client : jobs'[d][t] = jobs[d][t]
      BY <1>1, <2>3, <2>4
    <3>3. QED
      BY <2>2, <3>1, <3>2, SameCount, SameOpenings
  <2>5. CASE u = t
    <3> SUFFICES ASSUME Settled(t)'
                 PROVE  (openings + Cardinality(Due(t)))' = Cardinality(OpeningEvents)'
      BY DEF Counted
    <3>1. t \in Table \ spoiled /\ Rebuilding(c, t)
      BY <1>1, <2>1, <2>2, <2>5 DEF Settled, Rebuilding, At
    <3>2. openings = 0
      BY <2>1, <2>5, <3>1 DEF RebuildInv, EmptiedFor
    <3>3. \A d \in Client : jobs[d][t] = <<>>
      BY <1>1, <2>1, <3>1 DEF RebuildInv, AloneOn
    <3>4. Due(t)' = {<<c, i>> : i \in 1..Len(jobs'[c][t])}
      <4>1. Len(<<>>) = 0
        BY EmptySeq
      <4>2. Due(t) = {}
        BY <3>3, <4>1 DEF Due
      <4>3. Due(t)' = Due(t) \cup {<<c, i>> : i \in 1..Len(jobs'[c][t])}
        BY <2>3, <3>3, MoreDue
      <4>4. QED
        BY <4>2, <4>3
    <3>5. Len(jobs'[c][t]) = Cardinality(OpeningEvents)
      BY <2>3, <2>5, HistoryCounts DEF replayed
    <3>6. Cardinality(Due(t)') = Len(jobs'[c][t])
      <4> DEFINE f == [i \in 1..Len(jobs'[c][t]) |-> <<c, i>>]
      <4>1. Len(jobs'[c][t]) \in Nat
        BY <1>1, <3>5, OpeningsOfLog
      <4>2. IsFiniteSet(1..Len(jobs'[c][t])) /\ Cardinality(1..Len(jobs'[c][t])) = Len(jobs'[c][t])
        BY <4>1, FS_Interval
      <4>3. f \in Bijection(1..Len(jobs'[c][t]), Due(t)')
        BY <3>4 DEF Bijection, Injection, Surjection, IsInjective
      <4> HIDE DEF f
      <4>4. QED
        BY <4>2, <4>3, FS_Bijection, Zenon DEF ExistsBijection
    <3>7. OpeningEvents' = OpeningEvents
      BY <2>2, SameOpenings
    <3>8. Cardinality(OpeningEvents) \in Nat
      BY <1>1, OpeningsOfLog
    <3>9. QED
      BY <2>2, <3>2, <3>5, <3>6, <3>7, <3>8
  <2>6. QED
    BY <2>4, <2>5
<1>8. ASSUME NEW c \in Client, NEW u \in Table, RunStatement(c, u) PROVE Counted'
  <2>1. /\ jobs[c][u] # <<>> /\ UNCHANGED <<log, client, spoiled>>
        /\ Execute(Head(jobs[c][u]))
        /\ jobs'[c][u] = Tail(jobs[c][u])
        /\ \A d \in Client : d # c => jobs'[d] = jobs[d]
        /\ \A v \in Table : v # u => jobs'[c][v] = jobs[c][v]
    BY <1>1, <1>8 DEF RunStatement, JobsTypeOK
  <2>2. Settled(t)' => Settled(t)
    BY <2>1 DEF Settled, At
  <2>3. Head(jobs[c][u]) \in Work(u)
    BY <1>1, <2>1, HeadTailProperties DEF JobsTypeOK
  <2>4. CASE u # t
    <3>1. openings' = openings
      <4>1. Head(jobs[c][u]).op \in {"upsert", "add"}
        BY <2>3, <2>4, WorkOnAccounts DEF Table
      <4>2. QED
        BY <2>1, <4>1 DEF Execute
    <3>2. \A d \in Client : jobs'[d][t] = jobs[d][t]
      BY <1>1, <2>1, <2>4
    <3>3. QED
      BY <2>1, <2>2, <3>1, <3>2, SameCount, SameOpenings
  <2>5. CASE u = t
    <3>1. openings' = openings + 1
      <4>1. Head(jobs[c][u]).op = "count"
        BY <2>3, <2>5 DEF Work
      <4>2. QED
        BY <2>1, <4>1 DEF Execute
    <3>2. PICK last : Due(t)' = Due(t) \ {last} /\ last \in Due(t)
      BY <1>1, <2>1, <2>5, LessDue
    <3>3. IsFiniteSet(Due(t)) /\ Cardinality(Due(t)) \in Nat
      BY <1>1, DueIsFinite
    <3>4. Cardinality(Due(t))' = Cardinality(Due(t)) - 1
      BY <3>2, <3>3, FS_RemoveElement
    <3>5. OpeningEvents' = OpeningEvents
      BY <2>1, SameOpenings
    <3>6. QED
      BY <1>1, <2>2, <3>1, <3>3, <3>4, <3>5 DEF Counted
  <2>6. QED
    BY <2>4, <2>5
<1>9. ASSUME NEW c \in Client, NEW u \in Table, StatementFails(c, u) PROVE Counted'
  <2>1. /\ UNCHANGED <<log, client, openings>> /\ spoiled' = spoiled \cup {u}
        /\ \A d \in Client, v \in Table : v # u => jobs'[d][v] = jobs[d][v]
    BY <1>1, <1>9 DEF StatementFails, JobsTypeOK
  <2>2. CASE u = t
    BY <2>1, <2>2 DEF Counted, Settled
  <2>3. CASE u # t
    <3>1. Settled(t)' => Settled(t)
      BY <2>1 DEF Settled, At
    <3>2. QED
      BY <1>1, <2>1, <2>3, <3>1, SameCount, SameOpenings
  <2>4. QED
    BY <2>2, <2>3
<1>10. CASE UNCHANGED vars
  <2>1. Settled(t)' => Settled(t)
    BY <1>10 DEF vars, Settled, At
  <2>2. QED
    BY <1>10, <2>1, SameCount, SameOpenings DEF vars
<1>11. QED
  BY <1>2, <1>3, <1>4, <1>5, <1>6, <1>7, <1>8, <1>9, <1>10 DEF Next

(* The count of the analytics and the statements still due on it are the   *)
(* openings of the log, until something goes wrong with the table.         *)
THEOREM CountSafety == Spec => []Counted
<1>1. Init => Counted
  <2> SUFFICES ASSUME Init PROVE Counted
    OBVIOUS
  <2>1. \A c \in Client : jobs[c]["account_analytics"] = <<>>
    BY NoWork DEF Init, Table
  <2>2. Due("account_analytics") = {}
    BY <2>1, EmptySeq DEF Due
  <2>3. Len(log) = 0
    BY EmptySeq DEF Init
  <2>4. OpeningEvents = {}
    BY <2>3 DEF OpeningEvents, OfKind, AllRecords
  <2>5. Cardinality(Due("account_analytics")) = 0 /\ Cardinality(OpeningEvents) = 0
    BY <2>2, <2>4, FS_EmptySet
  <2>6. openings = 0
    BY DEF Init
  <2>7. QED
    BY <2>5, <2>6 DEF Counted
<1>2. BankInv /\ WorkInv /\ RebuildInv /\ Counted /\ [Next]_vars => Counted'
  BY StepKeepsCount
<1>3. QED
  BY <1>1, <1>2, BankSafety, WorkSafety, RebuildSafety, PTL DEF Spec

(* Analytics counts every opening once: when no statement is due, the      *)
(* table has as many openings as the log, through any number of live       *)
(* handlers and of rebuilds that nothing overlapped                        *)
(* (analytics/projector.ts).                                               *)
THEOREM OpeningsStayCountedOnce == Spec => []OpeningsAreCountedOnce
<1>1. BankInv /\ Counted => OpeningsAreCountedOnce
  <2> SUFFICES ASSUME BankInv, Counted PROVE OpeningsAreCountedOnce
    OBVIOUS
  <2>1. OfKind(Seen(OpenQuery), "BankAccountOpened") = OpeningEvents
    <3>1. ASSUME NEW i \in 1..Len(log), EventAt(i).type = "BankAccountOpened"
          PROVE  Matches(OpenQuery, log[i])
      <4>1. EventAt(i) \in BankEvent /\ log[i].sequenceNumber = i /\ i > 0
        BY LogHoldsEvents, LenProperties DEF BankInv, LogTypeOK
      <4>2. QED
        BY <3>1, <4>1 DEF Matches, OpenQuery, Query, OfType, EventAt
    <3>2. QED
      BY <3>1, SeenIsTheMatches DEF OfKind, OpeningEvents, AllRecords, EventAt
  <2>2. QED
    BY <2>1 DEF Counted, OpeningsAreCountedOnce
<1>2. QED
  BY <1>1, BankSafety, CountSafety, PTL

-----------------------------------------------------------------------------
(* Accounts and who knows of them.                                         *)
OpenedBy(e, a) == e.type = "BankAccountOpened" /\ e.accountId = a

(* The account has an opening in the log.                                  *)
IsOpen(a) == \E i \in 1..Len(log) : OpenedBy(EventAt(i), a)

(* The statement brings the row of the account.                            *)
IsUpsert(s, a) == s.op = "upsert" /\ s.accountId = a

(* A client has such a statement in hand.                                  *)
UpsertDue(a) ==
  \E c \in Client : \E i \in 1..Len(jobs[c]["accounts"]) : IsUpsert(jobs[c]["accounts"][i], a)

(* An account is opened once, by the one client that drew its id, and is   *)
(* not known to anyone before.                                             *)
OpenedOnce ==
  \A a \in Account, i, j \in 1..Len(log) :
    OpenedBy(EventAt(i), a) /\ OpenedBy(EventAt(j), a) => i = j

(* No two clients hold an opening of one account.                          *)
DrawnOnce ==
  \A a \in Account, c, d \in Client :
    OpenedBy(client[c].event, a) /\ OpenedBy(client[d].event, a) => c = d

(* The opening that a client holds is in the log once its append() is      *)
(* through, and not before.                                                *)
OpenAfterAppend ==
  \A a \in Account, c \in Client : OpenedBy(client[c].event, a) =>
    (At(c, "append") => ~IsOpen(a)) /\ (At(c, "notify") => IsOpen(a))

(* An account that a client was told of, that has a row or that is about   *)
(* to get one, is open.                                                    *)
KnownIsOpen ==
  \A a \in Account : a \in told \/ accounts[a] # NoRow \/ UpsertDue(a) => IsOpen(a)

(* Money moves on open accounts, and a transfer between two of them.       *)
MovesAfterOpening ==
  \A i \in 1..Len(log) :
    /\ \A a \in Account : Moves(EventAt(i), a) =>
                            \E j \in 1..Len(log) : j < i /\ OpenedBy(EventAt(j), a)
    /\ EventAt(i).type = "MoneyTransferred" =>
         EventAt(i).fromAccountId # EventAt(i).toAccountId

(* A command moves money on accounts that somebody was told of, and never  *)
(* from an account to itself.                                              *)
Intended(c) ==
  /\ \A a \in Account : Moves(client[c].event, a) => a \in told
  /\ client[c].event.type = "MoneyTransferred" =>
       client[c].event.fromAccountId # client[c].event.toAccountId

(* So do all commands that are about to append.                            *)
IntentionsAreOnOpen == \A c \in Client : At(c, "append") => Intended(c)

(* The inductive invariant of the accounts and who knows of them.          *)
IdentityInv ==
  /\ OpenedOnce /\ DrawnOnce /\ OpenAfterAppend /\ KnownIsOpen
  /\ MovesAfterOpening /\ IntentionsAreOnOpen

(* What the statements of an event for the list are.                       *)
LEMMA AccountStatementsAre ==
  ASSUME NEW e \in BankEvent, NEW s, s = Statements("accounts", e)
  PROVE  /\ s \in Seq(Work("accounts")) /\ Len(s) \in 1..2
         /\ e.type = "BankAccountOpened" => Len(s) = 1 /\ s[1] = Upsert(e)
         /\ \A j \in 1..Len(s) :
              \/ e.type = "BankAccountOpened" /\ s[j] = Upsert(e)
              \/ s[j].op = "add" /\ Moves(e, s[j].accountId)
<1>1. s \in Seq(Work("accounts"))
  BY StatementsAreWork DEF Table
<1>2. CASE e.type = "BankAccountOpened"
  <2>1. s = <<Upsert(e)>>
    BY <1>2, StatementsOfOpening
  <2>2. QED
    BY <1>1, <1>2, <2>1
<1>3. CASE e.type \in {"MoneyDeposited", "MoneyWithdrawn"}
  <2>1. PICK m : s = <<Add(e.accountId, m, e.currency)>>
    BY <1>3, StatementsOnAccount
  <2>2. Len(s) = 1 /\ s[1] = Add(e.accountId, m, e.currency)
    BY <2>1
  <2>3. QED
    BY <1>1, <1>3, <2>2 DEF Add, Moves
<1>4. CASE e.type = "MoneyTransferred"
  <2>1. s = <<Add(e.fromAccountId, -e.amount, e.currency),
              Add(e.toAccountId, e.amount, e.currency)>>
    BY <1>4, StatementsOfTransfer
  <2>2. /\ Len(s) = 2 /\ s[1] = Add(e.fromAccountId, -e.amount, e.currency)
        /\ s[2] = Add(e.toAccountId, e.amount, e.currency)
    BY <2>1
  <2>3. \A j \in 1..Len(s) : j = 1 \/ j = 2
    <3>1. \A j \in 1..2 : j = 1 \/ j = 2
      OBVIOUS
    <3>2. Len(s) = 2
      BY <2>2
    <3>3. QED
      BY <3>1, <3>2, Zenon
  <2>4. QED
    BY <1>1, <1>4, <2>2, <2>3 DEF Add, Moves
<1>5. QED
  BY <1>2, <1>3, <1>4, EventShapes DEF EventTypeName

(* The row that an opening brings is its account's.                        *)
LEMMA UpsertIsOfAccount ==
  ASSUME NEW e \in BankEvent, e.type = "BankAccountOpened"
  PROVE  /\ Upsert(e).op = "upsert" /\ Upsert(e).accountId = e.accountId
         /\ Upsert(e).amount = e.amount /\ Upsert(e).currency = e.currency
BY DEF Upsert

(* What a rebuild of the list replays, read event by event.  Rows come     *)
(* from openings, each opening brings one, and no statement adds to an     *)
(* account before its row.                                                 *)
HistoryUpTo(s, k) ==
  /\ s \in Seq(Work("accounts"))
  /\ \A p \in 1..Len(s) : s[p].op = "upsert" =>
       \E i \in 1..k : EventAt(i).type = "BankAccountOpened" /\ s[p] = Upsert(EventAt(i))
  /\ \A i \in 1..k : EventAt(i).type = "BankAccountOpened" =>
       \E p \in 1..Len(s) : s[p] = Upsert(EventAt(i))
  /\ \A a \in Account, p, q \in 1..Len(s) : IsUpsert(s[p], a) /\ IsUpsert(s[q], a) => p = q
  /\ \A p \in 1..Len(s) : s[p].op = "add" =>
       \E q \in 1..Len(s) : q < p /\ IsUpsert(s[q], s[p].accountId)

(* One more event extends the history.                                     *)
LEMMA HistoryGrows ==
  ASSUME LogTypeOK, OpenedOnce, MovesAfterOpening, NEW k \in Nat, k + 1 <= Len(log),
         NEW s, HistoryUpTo(s, k),
         NEW new, new = Statements("accounts", EventAt(k + 1)), NEW longer, longer = s \o new
  PROVE  HistoryUpTo(longer, k + 1)
<1> DEFINE e == EventAt(k + 1)
           n == Len(s)
<1>1. /\ Len(log) \in Nat /\ k + 1 \in 1..Len(log) /\ e \in BankEvent
      /\ \A i : i \in 1..(k + 1) <=> i \in 1..k \/ i = k + 1
      /\ \A i \in 1..k : i \in 1..Len(log) /\ i # k + 1
  BY LogHoldsEvents, LenProperties DEF LogTypeOK
<1>2. /\ new \in Seq(Work("accounts")) /\ Len(new) \in 1..2
      /\ e.type = "BankAccountOpened" => Len(new) = 1 /\ new[1] = Upsert(e)
      /\ \A j \in 1..Len(new) :
           \/ e.type = "BankAccountOpened" /\ new[j] = Upsert(e)
           \/ new[j].op = "add" /\ Moves(e, new[j].accountId)
  BY <1>1, AccountStatementsAre
<1>3. s \in Seq(Work("accounts")) /\ n \in Nat /\ Len(new) \in Nat
  BY <1>2, LenProperties DEF HistoryUpTo
<1>4. /\ longer \in Seq(Work("accounts")) /\ Len(longer) = n + Len(new)
      /\ \A p \in 1..n + Len(new) : longer[p] = IF p <= n THEN s[p] ELSE new[p - n]
  BY <1>2, <1>3, ConcatProperties
<1>5. /\ \A p \in 1..n : p \in 1..Len(longer) /\ longer[p] = s[p]
      /\ \A p \in 1..Len(longer) : p \in 1..n \/ (p > n /\ p - n \in 1..Len(new)
                                                 /\ longer[p] = new[p - n])
  BY <1>3, <1>4
<1> HIDE DEF n, e
<1>6. \A p \in 1..Len(longer) : longer[p].op = "upsert" =>
        \E i \in 1..(k + 1) :
          EventAt(i).type = "BankAccountOpened" /\ longer[p] = Upsert(EventAt(i))
  <2> SUFFICES ASSUME NEW p \in 1..Len(longer), longer[p].op = "upsert"
               PROVE  \E i \in 1..(k + 1) :
                        EventAt(i).type = "BankAccountOpened" /\ longer[p] = Upsert(EventAt(i))
    OBVIOUS
  <2>1. CASE p \in 1..n
    <3>1. PICK i \in 1..k : EventAt(i).type = "BankAccountOpened" /\ s[p] = Upsert(EventAt(i))
      BY <1>5, <2>1 DEF HistoryUpTo, n
    <3>2. QED
      BY <1>1, <1>5, <2>1, <3>1
  <2>2. CASE p - n \in 1..Len(new) /\ longer[p] = new[p - n]
    <3>1. e.type = "BankAccountOpened" /\ new[p - n] = Upsert(e)
      BY <1>2, <2>2
    <3>2. QED
      BY <1>1, <2>2, <3>1 DEF e
  <2>3. QED
    BY <1>5, <2>1, <2>2
<1>7. \A i \in 1..(k + 1) : EventAt(i).type = "BankAccountOpened" =>
        \E p \in 1..Len(longer) : longer[p] = Upsert(EventAt(i))
  <2> SUFFICES ASSUME NEW i \in 1..(k + 1), EventAt(i).type = "BankAccountOpened"
               PROVE  \E p \in 1..Len(longer) : longer[p] = Upsert(EventAt(i))
    OBVIOUS
  <2>1. CASE i \in 1..k
    <3>1. PICK p \in 1..n : s[p] = Upsert(EventAt(i))
      BY <2>1 DEF HistoryUpTo, n
    <3>2. QED
      BY <1>5, <3>1
  <2>2. CASE i = k + 1
    <3>1. Len(new) = 1 /\ new[1] = Upsert(EventAt(i))
      BY <1>2, <2>2 DEF e
    <3>2. n + 1 \in 1..Len(longer) /\ longer[n + 1] = new[1]
      BY <1>3, <1>4, <3>1
    <3>3. QED
      BY <3>1, <3>2
  <2>3. QED
    BY <1>1, <2>1, <2>2
<1>8. \A a \in Account, p, q \in 1..Len(longer) :
        IsUpsert(longer[p], a) /\ IsUpsert(longer[q], a) => p = q
  <2> SUFFICES ASSUME NEW a \in Account, NEW p \in 1..Len(longer), NEW q \in 1..Len(longer),
                      IsUpsert(longer[p], a), IsUpsert(longer[q], a)
               PROVE  p = q
    OBVIOUS
  <2>1. ASSUME NEW r \in 1..Len(longer), r \notin 1..n, IsUpsert(longer[r], a)
        PROVE  r = n + 1 /\ OpenedBy(EventAt(k + 1), a)
    <3>1. r > n /\ r - n \in 1..Len(new) /\ longer[r] = new[r - n]
      BY <1>5, <2>1
    <3>2. e.type = "BankAccountOpened" /\ new[r - n] = Upsert(e)
      BY <1>2, <2>1, <3>1 DEF IsUpsert
    <3>3. Len(new) = 1 /\ e.accountId = a
      BY <1>1, <1>2, <2>1, <3>1, <3>2, UpsertIsOfAccount DEF IsUpsert, e
    <3>4. r = n + 1
      BY <1>3, <3>1, <3>3
    <3>5. QED
      BY <3>2, <3>3, <3>4 DEF OpenedBy, e
  <2>2. ASSUME NEW r \in 1..n, IsUpsert(longer[r], a)
        PROVE  \E i \in 1..k : OpenedBy(EventAt(i), a)
    <3>1. PICK i \in 1..k : EventAt(i).type = "BankAccountOpened" /\ s[r] = Upsert(EventAt(i))
      BY <1>5, <2>2 DEF HistoryUpTo, IsUpsert, n
    <3>2. EventAt(i) \in BankEvent
      BY <1>1, LogHoldsEvents DEF LogTypeOK
    <3>3. EventAt(i).accountId = a
      BY <1>5, <2>2, <3>1, <3>2, UpsertIsOfAccount DEF IsUpsert
    <3>4. QED
      BY <3>1, <3>3 DEF OpenedBy
  <2>3. ~(OpenedBy(EventAt(k + 1), a) /\ \E i \in 1..k : OpenedBy(EventAt(i), a))
    BY <1>1 DEF OpenedOnce
  <2>4. CASE p \in 1..n /\ q \in 1..n
    BY <1>5, <2>4 DEF HistoryUpTo, n
  <2>5. CASE p \notin 1..n /\ q \notin 1..n
    BY <2>1, <2>5
  <2>6. QED
    BY <2>1, <2>2, <2>3, <2>4, <2>5
<1>9. \A p \in 1..Len(longer) : longer[p].op = "add" =>
        \E q \in 1..Len(longer) : q < p /\ IsUpsert(longer[q], longer[p].accountId)
  <2> SUFFICES ASSUME NEW p \in 1..Len(longer), longer[p].op = "add"
               PROVE  \E q \in 1..Len(longer) : q < p /\ IsUpsert(longer[q], longer[p].accountId)
    OBVIOUS
  <2>1. CASE p \in 1..n
    <3>1. PICK q \in 1..n : q < p /\ IsUpsert(s[q], s[p].accountId)
      BY <1>5, <2>1 DEF HistoryUpTo, n
    <3>2. QED
      BY <1>5, <2>1, <3>1
  <2>2. CASE p \notin 1..n
    <3> DEFINE a == longer[p].accountId
    <3>1. p > n /\ p - n \in 1..Len(new) /\ longer[p] = new[p - n]
      BY <1>5, <2>2
    <3>2. a \in Account
      <4>1. longer[p] \in Work("accounts")
        BY <1>4, ElementOfSeq
      <4>2. QED
        BY <4>1, WorkOnAccounts
    <3>3. Moves(e, a)
      <4>1. ~(e.type = "BankAccountOpened" /\ new[p - n] = Upsert(e))
        BY <3>1 DEF Upsert
      <4>2. QED
        BY <1>2, <3>1, <4>1
    <3>4. PICK j \in 1..Len(log) : j < k + 1 /\ OpenedBy(EventAt(j), a)
      BY <1>1, <3>2, <3>3 DEF MovesAfterOpening, e
    <3>5. j \in 1..k
      BY <1>1, <3>4
    <3>6. PICK q \in 1..n : s[q] = Upsert(EventAt(j))
      BY <3>4, <3>5 DEF HistoryUpTo, OpenedBy, n
    <3>7. EventAt(j) \in BankEvent
      BY LogHoldsEvents DEF LogTypeOK
    <3>8. IsUpsert(longer[q], a) /\ q \in 1..Len(longer) /\ q < p
      <4>1. longer[q] = Upsert(EventAt(j)) /\ q \in 1..Len(longer)
        BY <1>5, <3>6
      <4>2. IsUpsert(longer[q], a)
        BY <3>4, <3>7, <4>1, UpsertIsOfAccount DEF IsUpsert, OpenedBy
      <4>3. q < p
        BY <1>3, <3>1, <3>6
      <4>4. QED
        BY <4>1, <4>2, <4>3
    <3>9. QED
      BY <3>8
  <2>3. QED
    BY <2>1, <2>2
<1>10. QED
  BY <1>4, <1>6, <1>7, <1>8, <1>9 DEF HistoryUpTo

(* The whole history.                                                      *)
LEMMA HistoryIsSound ==
  ASSUME LogTypeOK, OpenedOnce, MovesAfterOpening
  PROVE  HistoryUpTo(FlattenSeq(History("accounts")), Len(log))
<1> DEFINE all == History("accounts")
           n == Len(log)
<1>1. all \in Seq(Seq(Work("accounts"))) /\ Len(all) = n /\ n \in Nat
  BY HistoryIsWork, LenProperties DEF Table, LogTypeOK
<1>2. \A i \in 1..n : all[i] = Statements("accounts", EventAt(i))
  BY DEF History, EventAt
<1> HIDE DEF all
<1>3. PICK g \in [0..Len(all) -> Seq(Work("accounts"))] :
        /\ g[0] = <<>>
        /\ \A i \in 1..Len(all) : g[i] = g[i - 1] \o all[i]
        /\ FlattenSeq(all) = g[Len(all)]
  BY <1>1, FlattenedStepwise
<1> DEFINE G == {k \in Nat : k <= n => HistoryUpTo(g[k], k)}
<1>4. 0 \in G
  <2>1. Len(<<>>) = 0 /\ <<>> \in Seq(Work("accounts"))
    BY EmptySeq
  <2>2. HistoryUpTo(<<>>, 0)
    BY <2>1 DEF HistoryUpTo
  <2>3. QED
    BY <1>3, <2>2
<1>5. ASSUME NEW k \in Nat, k \in G PROVE k + 1 \in G
  <2> SUFFICES ASSUME k + 1 <= n PROVE HistoryUpTo(g[k + 1], k + 1)
    OBVIOUS
  <2>1. k + 1 \in 1..n /\ (k + 1) - 1 = k /\ HistoryUpTo(g[k], k)
    BY <1>1, <1>5
  <2>2. g[k + 1] = g[k] \o Statements("accounts", EventAt(k + 1))
    BY <1>1, <1>2, <1>3, <2>1
  <2>3. QED
    BY <2>1, <2>2, HistoryGrows
<1>6. n \in G
  <2> HIDE DEF G
  <2>1. QED
    BY <1>1, <1>4, <1>5, AllNumbers
<1>7. QED
  BY <1>1, <1>3, <1>6 DEF all

(* One more event in the log.                                              *)
LEMMA OpenInLonger ==
  ASSUME LogTypeOK, NEW e \in BankEvent, log' = log \o Numbered(<<e>>, Len(log)),
         NEW last, last = Len(log) + 1
  PROVE  /\ Len(log) \in Nat /\ Len(log') = last
         /\ \A i : i \in 1..last <=> i \in 1..Len(log) \/ i = last
         /\ \A i \in 1..Len(log) : EventAt(i)' = EventAt(i)
         /\ EventAt(last)' = e
         /\ \A a : IsOpen(a)' <=> IsOpen(a) \/ OpenedBy(e, a)
<1>1. /\ Len(log) \in Nat /\ Len(log') = last
      /\ \A i \in 1..Len(log) : EventAt(i)' = EventAt(i)
      /\ EventAt(last)' = e
  BY AppendOne, LenProperties DEF LogTypeOK, EventAt
<1>2. \A i : i \in 1..last <=> i \in 1..Len(log) \/ i = last
  BY <1>1
<1>3. ASSUME NEW a PROVE IsOpen(a)' <=> IsOpen(a) \/ OpenedBy(e, a)
  <2>1. IsOpen(a)' <=> \E i \in 1..last : OpenedBy(EventAt(i)', a)
    BY <1>1 DEF IsOpen, OpenedBy
  <2>2. QED
    BY <1>1, <1>2, <2>1 DEF IsOpen
<1>4. QED
  BY <1>1, <1>2, <1>3

(* An append of what its client intended.                                  *)
LEMMA StoreKeepsIdentities ==
  ASSUME LogTypeOK, IdentityInv, NEW c \in Client, At(c, "append"),
         NEW e \in BankEvent, e = client[c].event,
         log' = log \o Numbered(<<e>>, Len(log)),
         \A d \in Client : d # c => client'[d] = client[d],
         client'[c].event \in {e, NoEvent}, client'[c].pc # "append",
         accounts' = accounts, told' = told,
         \A a \in Account : UpsertDue(a)' => UpsertDue(a) \/ OpenedBy(e, a)
  PROVE  IdentityInv'
<1> USE DEF IdentityInv
<1>1. PICK last : last = Len(log) + 1
  OBVIOUS
<1>2. /\ Len(log) \in Nat /\ Len(log') = last
      /\ \A i : i \in 1..last <=> i \in 1..Len(log) \/ i = last
      /\ \A i \in 1..Len(log) : EventAt(i)' = EventAt(i)
      /\ EventAt(last)' = e
      /\ \A a : IsOpen(a)' <=> IsOpen(a) \/ OpenedBy(e, a)
  BY <1>1, OpenInLonger
<1>3. \A a \in Account : OpenedBy(e, a) => ~IsOpen(a)
  BY DEF OpenAfterAppend
<1>4. ~OpenedBy(NoEvent, NoEvent) /\ \A a : ~OpenedBy(NoEvent, a)
  BY DEF OpenedBy, NoEvent
<1>5. OpenedOnce'
  <2> SUFFICES ASSUME NEW a \in Account, NEW i \in 1..last, NEW j \in 1..last,
                      OpenedBy(EventAt(i)', a), OpenedBy(EventAt(j)', a)
               PROVE  i = j
    BY <1>2 DEF OpenedOnce, OpenedBy
  <2>1. CASE i \in 1..Len(log) /\ j \in 1..Len(log)
    BY <1>2, <2>1 DEF OpenedOnce
  <2>2. CASE i = last /\ j \in 1..Len(log)
    BY <1>2, <1>3, <2>2 DEF IsOpen
  <2>3. CASE j = last /\ i \in 1..Len(log)
    BY <1>2, <1>3, <2>3 DEF IsOpen
  <2>4. QED
    BY <1>2, <2>1, <2>2, <2>3
<1>6. DrawnOnce'
  <2> SUFFICES ASSUME NEW a \in Account, NEW d1 \in Client, NEW d2 \in Client,
                      OpenedBy(client'[d1].event, a), OpenedBy(client'[d2].event, a)
               PROVE  d1 = d2
    BY DEF DrawnOnce, OpenedBy
  <2>1. OpenedBy(client[d1].event, a) /\ OpenedBy(client[d2].event, a)
    BY <1>4
  <2>2. QED
    BY <2>1 DEF DrawnOnce
<1>7. OpenAfterAppend'
  <2> SUFFICES ASSUME NEW a \in Account, NEW d \in Client, OpenedBy(client'[d].event, a)
               PROVE  (At(d, "append")' => ~IsOpen(a)') /\ (At(d, "notify")' => IsOpen(a)')
    BY DEF OpenAfterAppend, OpenedBy
  <2>1. CASE d = c
    BY <1>2, <1>4, <2>1 DEF At
  <2>2. CASE d # c
    <3>1. OpenedBy(client[d].event, a) /\ ~OpenedBy(e, a)
      BY <2>2 DEF DrawnOnce
    <3>2. (At(d, "append") => ~IsOpen(a)) /\ (At(d, "notify") => IsOpen(a))
      BY <3>1 DEF OpenAfterAppend
    <3>3. QED
      BY <1>2, <2>2, <3>1, <3>2 DEF At
  <2>3. QED
    BY <2>1, <2>2
<1>8. KnownIsOpen'
  <2> SUFFICES ASSUME NEW a \in Account, a \in told \/ accounts[a] # NoRow \/ UpsertDue(a)'
               PROVE  IsOpen(a)'
    BY DEF KnownIsOpen
  <2>1. QED
    BY <1>2 DEF KnownIsOpen
<1>9. Intended(c)
  BY DEF IntentionsAreOnOpen
<1>10. MovesAfterOpening'
  <2> SUFFICES ASSUME NEW i \in 1..last
               PROVE  /\ \A a \in Account : Moves(EventAt(i)', a) =>
                           \E j \in 1..last : j < i /\ OpenedBy(EventAt(j)', a)
                      /\ EventAt(i)'.type = "MoneyTransferred" =>
                           EventAt(i)'.fromAccountId # EventAt(i)'.toAccountId
    BY <1>2 DEF MovesAfterOpening, Moves, OpenedBy
  <2>1. ASSUME i \in 1..Len(log), NEW a \in Account, Moves(EventAt(i)', a)
        PROVE  \E j \in 1..last : j < i /\ OpenedBy(EventAt(j)', a)
    <3>1. PICK j \in 1..Len(log) : j < i /\ OpenedBy(EventAt(j), a)
      BY <1>2, <2>1 DEF MovesAfterOpening
    <3>2. QED
      BY <1>2, <3>1
  <2>2. ASSUME i = last, NEW a \in Account, Moves(EventAt(i)', a)
        PROVE  \E j \in 1..last : j < i /\ OpenedBy(EventAt(j)', a)
    <3>1. a \in told
      BY <1>2, <1>9, <2>2 DEF Intended
    <3>2. PICK j \in 1..Len(log) : OpenedBy(EventAt(j), a)
      BY <3>1 DEF KnownIsOpen, IsOpen
    <3>3. j < last
      BY <1>1, <1>2
    <3>4. QED
      BY <1>2, <2>2, <3>2, <3>3
  <2>3. EventAt(i)'.type = "MoneyTransferred" =>
          EventAt(i)'.fromAccountId # EventAt(i)'.toAccountId
    <3>1. CASE i \in 1..Len(log)
      BY <1>2, <3>1 DEF MovesAfterOpening
    <3>2. CASE i = last
      BY <1>2, <1>9, <3>2 DEF Intended
    <3>3. QED
      BY <1>2, <3>1, <3>2
  <2>4. QED
    BY <1>2, <2>1, <2>2, <2>3
<1>11. IntentionsAreOnOpen'
  <2> SUFFICES ASSUME NEW d \in Client, At(d, "append")' PROVE Intended(d)'
    BY DEF IntentionsAreOnOpen
  <2>1. d # c /\ client'[d] = client[d] /\ At(d, "append")
    BY DEF At
  <2>2. Intended(d)
    BY <2>1 DEF IntentionsAreOnOpen
  <2>3. QED
    BY <2>1, <2>2 DEF Intended, Moves
<1>12. QED
  BY <1>5, <1>6, <1>7, <1>8, <1>10, <1>11

(* A step after which no more accounts are known, and no one intends more. *)
LEMMA OtherStepKeepsIdentities ==
  ASSUME IdentityInv, log' = log, told \subseteq told',
         \A d \in Client : \/ client'[d] = client[d]
                           \/ client'[d].event = NoEvent /\ client'[d].pc # "append",
         \A a \in Account : a \in told' \/ accounts'[a] # NoRow \/ UpsertDue(a)' => IsOpen(a)
  PROVE  IdentityInv'
<1> USE DEF IdentityInv
<1>1. \A i : EventAt(i)' = EventAt(i)
  BY DEF EventAt
<1>2. \A a : IsOpen(a)' <=> IsOpen(a)
  BY <1>1 DEF IsOpen, OpenedBy
<1>3. \A a : ~OpenedBy(NoEvent, a)
  BY DEF OpenedBy, NoEvent
<1>4. OpenedOnce' /\ MovesAfterOpening'
  BY <1>1 DEF OpenedOnce, MovesAfterOpening, OpenedBy, Moves
<1>5. \A d \in Client, a \in Account : OpenedBy(client'[d].event, a) => client'[d] = client[d]
  BY <1>3
<1>6. DrawnOnce'
  BY <1>5 DEF DrawnOnce, OpenedBy
<1>7. OpenAfterAppend'
  <2> SUFFICES ASSUME NEW a \in Account, NEW d \in Client, OpenedBy(client'[d].event, a)
               PROVE  (At(d, "append")' => ~IsOpen(a)') /\ (At(d, "notify")' => IsOpen(a)')
    BY DEF OpenAfterAppend, OpenedBy
  <2>1. QED
    BY <1>2, <1>5 DEF OpenAfterAppend, At
<1>8. KnownIsOpen'
  BY <1>2 DEF KnownIsOpen
<1>9. IntentionsAreOnOpen'
  <2> SUFFICES ASSUME NEW d \in Client, At(d, "append")' PROVE Intended(d)'
    BY DEF IntentionsAreOnOpen
  <2>1. client'[d] = client[d] /\ At(d, "append")
    BY DEF At
  <2>2. Intended(d)
    BY <2>1 DEF IntentionsAreOnOpen
  <2>3. QED
    BY <2>1, <2>2 DEF Intended, Moves
<1>10. QED
  BY <1>4, <1>6, <1>7, <1>8, <1>9

(* A command decides.                                                      *)
LEMMA DecideKeepsIdentities ==
  ASSUME LogTypeOK, IdentityInv, NEW c \in Client, NEW event \in BankEvent, Decide(c, event),
         event.type = "BankAccountOpened" => Fresh(event.accountId),
         \A a : Moves(event, a) => a \in told,
         event.type = "MoneyTransferred" => event.fromAccountId # event.toAccountId
  PROVE  IdentityInv'
<1> USE DEF IdentityInv
<1>1. /\ client'[c].event = event /\ client'[c].pc = "append"
      /\ \A d \in Client : d # c => client'[d] = client[d]
      /\ UNCHANGED <<log, jobs, accounts, told>>
  BY DEF Decide, tables, LogTypeOK
<1>2. \A i : EventAt(i)' = EventAt(i)
  BY <1>1 DEF EventAt
<1>3. \A a : (IsOpen(a)' <=> IsOpen(a)) /\ (UpsertDue(a)' <=> UpsertDue(a))
  BY <1>1, <1>2 DEF IsOpen, UpsertDue, OpenedBy
<1>4. \A a : OpenedBy(event, a) => /\ ~IsOpen(a)
                                   /\ \A d \in Client : ~OpenedBy(client[d].event, a)
  <2> SUFFICES ASSUME NEW a, OpenedBy(event, a)
               PROVE  /\ ~IsOpen(a)
                      /\ \A d \in Client : ~OpenedBy(client[d].event, a)
    OBVIOUS
  <2>1. Fresh(a)
    BY DEF OpenedBy
  <2>2. \A d \in Client : ~OpenedBy(client[d].event, a)
    BY <2>1 DEF Fresh, OpenedBy
  <2>3. ASSUME NEW i \in 1..Len(log), OpenedBy(EventAt(i), a) PROVE FALSE
    <3>1. EventAt(i) \in Openings({log[j] : j \in 1..Len(log)}, a)
      BY <2>3 DEF Openings, OfKind, OpenedBy, EventAt
    <3>2. QED
      BY <2>1, <3>1 DEF Fresh
  <2>4. QED
    BY <2>2, <2>3 DEF IsOpen
<1>5. OpenedOnce' /\ MovesAfterOpening'
  BY <1>1, <1>2 DEF OpenedOnce, MovesAfterOpening, OpenedBy, Moves
<1>6. DrawnOnce'
  <2> SUFFICES ASSUME NEW a \in Account, NEW d1 \in Client, NEW d2 \in Client,
                      OpenedBy(client'[d1].event, a), OpenedBy(client'[d2].event, a)
               PROVE  d1 = d2
    BY DEF DrawnOnce, OpenedBy
  <2>1. QED
    BY <1>1, <1>4 DEF DrawnOnce
<1>7. OpenAfterAppend'
  <2> SUFFICES ASSUME NEW a \in Account, NEW d \in Client, OpenedBy(client'[d].event, a)
               PROVE  (At(d, "append")' => ~IsOpen(a)') /\ (At(d, "notify")' => IsOpen(a)')
    BY DEF OpenAfterAppend, OpenedBy
  <2>1. CASE d = c
    BY <1>1, <1>3, <1>4, <2>1 DEF At
  <2>2. CASE d # c
    BY <1>1, <1>3, <2>2 DEF OpenAfterAppend, At
  <2>3. QED
    BY <2>1, <2>2
<1>8. KnownIsOpen'
  BY <1>1, <1>3 DEF KnownIsOpen
<1>9. IntentionsAreOnOpen'
  <2> SUFFICES ASSUME NEW d \in Client, At(d, "append")' PROVE Intended(d)'
    BY DEF IntentionsAreOnOpen
  <2>1. CASE d = c
    BY <1>1, <2>1 DEF Intended, Moves
  <2>2. CASE d # c
    <3>1. Intended(d)
      BY <1>1, <2>2 DEF IntentionsAreOnOpen, At
    <3>2. QED
      BY <1>1, <2>2, <3>1 DEF Intended, Moves
  <2>3. QED
    BY <2>1, <2>2
<1>10. QED
  BY <1>5, <1>6, <1>7, <1>8, <1>9

(* Rows to come are found in the work that was left or taken.              *)
LEMMA UpsertsDueFrom ==
  ASSUME NEW c \in Client, NEW a, UpsertDue(a)',
         \A d \in Client : d # c => jobs'[d]["accounts"] = jobs[d]["accounts"]
  PROVE  \/ UpsertDue(a)
         \/ \E i \in 1..Len(jobs'[c]["accounts"]) : IsUpsert(jobs'[c]["accounts"][i], a)
<1>1. PICK d \in Client : \E i \in 1..Len(jobs'[d]["accounts"]) :
             IsUpsert(jobs'[d]["accounts"][i], a)
  BY DEF UpsertDue, IsUpsert
<1>2. QED
  BY <1>1 DEF UpsertDue, IsUpsert

(* Every action keeps the identities.                                      *)
LEMMA StepKeepsIdentities ==
  ASSUME LogTypeOK, WorkInv, IdentityInv, [Next]_vars
  PROVE  IdentityInv'
<1> DEFINE t == "accounts"
<1>1. /\ JobsTypeOK /\ RowsTypeOK /\ t \in Table
      /\ \A c \in Client : PhaseOK(c)
      /\ \A a \in Account : a \in told \/ accounts[a] # NoRow \/ UpsertDue(a) => IsOpen(a)
  BY DEF WorkInv, Phases, Table, IdentityInv, KnownIsOpen
<1>2. ASSUME NEW c \in Client, OpenAccount(c) \/ MoneyCommand(c) PROVE IdentityInv'
  <2>1. PICK event \in BankEvent :
           /\ Decide(c, event)
           /\ event.type = "BankAccountOpened" => Fresh(event.accountId)
           /\ \A a : Moves(event, a) => a \in told
           /\ event.type = "MoneyTransferred" => event.fromAccountId # event.toAccountId
    BY <1>2, CommandDecides
  <2>2. QED
    BY <2>1, DecideKeepsIdentities
<1>3. ASSUME NEW c \in Client, AppendEvent(c) PROVE IdentityInv'
  <2>1. PICK e \in BankEvent : e = client[c].event
    BY <1>1, <1>3 DEF AppendEvent, PhaseOK, At
  <2>2. /\ At(c, "append") /\ log' = log \o Numbered(<<e>>, Len(log))
        /\ \A d \in Client : d # c => client'[d] = client[d]
        /\ client'[c].event = e /\ client'[c].pc = "notify"
        /\ accounts' = accounts /\ told' = told
        /\ jobs'[c][t] = Statements(t, e)
        /\ \A d \in Client : d # c => jobs'[d] = jobs[d]
    BY <1>1, <1>3, <2>1 DEF AppendEvent, LogTypeOK, JobsTypeOK
  <2>3. ASSUME NEW a \in Account, UpsertDue(a)' PROVE UpsertDue(a) \/ OpenedBy(e, a)
    <3> DEFINE s == Statements(t, e)
    <3>1. ASSUME NEW i \in 1..Len(s), IsUpsert(s[i], a) PROVE OpenedBy(e, a)
      <4>1. e.type = "BankAccountOpened" /\ s[i] = Upsert(e)
        <5>1. s[i].op # "add"
          BY <3>1 DEF IsUpsert
        <5>2. QED
          BY <2>1, <5>1, AccountStatementsAre
      <4>2. QED
        BY <2>1, <3>1, <4>1, UpsertIsOfAccount DEF IsUpsert, OpenedBy
    <3>2. QED
      BY <2>2, <2>3, <3>1, UpsertsDueFrom
  <2>4. QED
    BY <2>1, <2>2, <2>3, StoreKeepsIdentities
<1>4. ASSUME NEW c \in Client, AnswerLost(c) PROVE IdentityInv'
  <2>1. PICK e \in BankEvent : e = client[c].event
    BY <1>1, <1>4 DEF AnswerLost, PhaseOK, At
  <2>2. /\ At(c, "append") /\ log' = log \o Numbered(<<e>>, Len(log))
        /\ \A d \in Client : d # c => client'[d] = client[d]
        /\ client'[c].event = NoEvent /\ client'[c].pc = "idle"
        /\ accounts' = accounts /\ told' = told /\ jobs' = jobs
    BY <1>4, <2>1 DEF AnswerLost, LogTypeOK, Idle
  <2>3. \A a \in Account : UpsertDue(a)' <=> UpsertDue(a)
    BY <2>2 DEF UpsertDue
  <2>4. QED
    BY <2>1, <2>2, <2>3, StoreKeepsIdentities
<1>5. ASSUME NEW c \in Client, AppendFails(c) \/ RebuildFails(c) \/ Crash(c) PROVE IdentityInv'
  <2>1. /\ client'[c] = Idle /\ \A d \in Client : d # c => client'[d] = client[d]
        /\ UNCHANGED <<log, accounts, told>>
        /\ \A d \in Client : jobs'[d] \in {jobs[d], NoJobs}
    BY <1>1, <1>5 DEF AppendFails, RebuildFails, Crash, tables, LogTypeOK, JobsTypeOK
  <2>2. \A a \in Account : UpsertDue(a)' => UpsertDue(a)
    <3>1. Len(NoJobs[t]) = 0
      BY <1>1, NoWork, EmptySeq
    <3>2. QED
      BY <2>1, <3>1 DEF UpsertDue
  <2>3. QED
    BY <1>1, <2>1, <2>2, OtherStepKeepsIdentities DEF Idle
<1>6. ASSUME NEW c \in Client, Return(c) PROVE IdentityInv'
  <2>1. /\ client'[c] = Idle /\ \A d \in Client : d # c => client'[d] = client[d]
        /\ UNCHANGED <<log, accounts, jobs>>
        /\ told' = IF client[c].event.type = "BankAccountOpened"
                   THEN told \cup {client[c].event.accountId} ELSE told
    BY <1>6 DEF Return, LogTypeOK
  <2>2. \A a \in Account : UpsertDue(a)' <=> UpsertDue(a)
    BY <2>1 DEF UpsertDue
  <2>3. ASSUME NEW a \in Account, OpenedBy(client[c].event, a) PROVE IsOpen(a)
    <3>1. At(c, "notify")
      BY <1>1, <1>6, <2>3 DEF Return, PhaseOK, OpenedBy, NoEvent, At
    <3>2. QED
      BY <2>3, <3>1 DEF IdentityInv, OpenAfterAppend
  <2>4. \A a \in Account : a \in told' => IsOpen(a)
    BY <1>1, <2>1, <2>3 DEF OpenedBy
  <2>5. QED
    BY <1>1, <2>1, <2>2, <2>4, OtherStepKeepsIdentities DEF Idle
<1>7. ASSUME NEW c \in Client, NEW u \in Table, Clear(c, u) PROVE IdentityInv'
  <2>1. /\ client'[c].event = client[c].event /\ client'[c].pc = "cleared" /\ At(c, "idle")
        /\ \A d \in Client : d # c => client'[d] = client[d]
        /\ UNCHANGED <<log, jobs, told>>
        /\ accounts' = accounts \/ accounts' = [a \in Account |-> NoRow]
    BY <1>7 DEF Clear, LogTypeOK
  <2>2. client[c].event = NoEvent
    BY <1>1, <2>1 DEF PhaseOK, At
  <2>3. \A a \in Account : UpsertDue(a)' <=> UpsertDue(a)
    BY <2>1 DEF UpsertDue
  <2>4. \A a \in Account : accounts'[a] # NoRow => accounts[a] # NoRow
    BY <2>1
  <2>5. QED
    BY <1>1, <2>1, <2>2, <2>3, <2>4, OtherStepKeepsIdentities
<1>8. ASSUME NEW c \in Client, ReadHistory(c) PROVE IdentityInv'
  <2> DEFINE u == client[c].table
             replayed == FlattenSeq(History(u))
  <2>1. u \in Table /\ client[c].event = NoEvent
    BY <1>1, <1>8 DEF ReadHistory, PhaseOK, At
  <2>2. /\ client'[c].event = NoEvent /\ client'[c].pc = "replay"
        /\ \A d \in Client : d # c => client'[d] = client[d]
        /\ UNCHANGED <<log, accounts, told>>
        /\ jobs' = [jobs EXCEPT ![c][u] = replayed]
    BY <1>8, <2>1 DEF ReadHistory, History, LogTypeOK, tables
  <2> HIDE DEF replayed
  <2>3. /\ jobs'[c][u] = replayed
        /\ \A d \in Client : d # c => jobs'[d] = jobs[d]
        /\ \A v \in Table : v # u => jobs'[c][v] = jobs[c][v]
    BY <1>1, <2>1, <2>2 DEF JobsTypeOK
  <2>4. ASSUME NEW a \in Account, UpsertDue(a)' PROVE IsOpen(a)
    <3>1. CASE u # t
      BY <1>1, <2>3, <2>4, <3>1 DEF UpsertDue
    <3>2. CASE u = t
      <4>1. ASSUME NEW i \in 1..Len(replayed), IsUpsert(replayed[i], a) PROVE IsOpen(a)
        <5>1. HistoryUpTo(replayed, Len(log))
          BY <3>2, HistoryIsSound DEF IdentityInv, replayed
        <5>2. PICK j \in 1..Len(log) :
                EventAt(j).type = "BankAccountOpened" /\ replayed[i] = Upsert(EventAt(j))
          BY <4>1, <5>1 DEF HistoryUpTo, IsUpsert
        <5>3. EventAt(j) \in BankEvent
          BY LogHoldsEvents DEF LogTypeOK
        <5>4. OpenedBy(EventAt(j), a)
          BY <4>1, <5>2, <5>3, UpsertIsOfAccount DEF OpenedBy, IsUpsert
        <5>5. QED
          BY <5>4 DEF IsOpen
      <4>2. UpsertDue(a) \/ \E i \in 1..Len(replayed) : IsUpsert(replayed[i], a)
        BY <2>3, <2>4, <3>2, UpsertsDueFrom
      <4>3. QED
        BY <1>1, <4>1, <4>2
    <3>3. QED
      BY <3>1, <3>2
  <2>5. QED
    BY <1>1, <2>2, <2>4, OtherStepKeepsIdentities
<1>9. ASSUME NEW c \in Client, NEW u \in Table, RunStatement(c, u) PROVE IdentityInv'
  <2>1. /\ jobs[c][u] # <<>> /\ UNCHANGED <<log, client, spoiled>>
        /\ Execute(Head(jobs[c][u]))
        /\ jobs'[c][u] = Tail(jobs[c][u])
        /\ told' = told \cup Listed(accounts')
        /\ \A d \in Client : d # c => jobs'[d] = jobs[d]
        /\ \A v \in Table : v # u => jobs'[c][v] = jobs[c][v]
    BY <1>1, <1>9 DEF RunStatement, JobsTypeOK
  <2>2. jobs[c][u] \in Seq(Work(u))
    BY <1>1 DEF JobsTypeOK
  <2>3. Head(jobs[c][u]) \in Work(u)
    BY <2>1, <2>2, HeadTailProperties
  <2>4. ASSUME NEW a \in Account, UpsertDue(a)' PROVE IsOpen(a)
    <3>1. CASE u # t
      BY <1>1, <2>1, <2>4, <3>1 DEF UpsertDue
    <3>2. CASE u = t
      <4>1. /\ \A i \in 1..Len(jobs'[c][t]) : jobs'[c][t][i] = jobs[c][t][i + 1]
            /\ Len(jobs'[c][t]) = Len(jobs[c][t]) - 1 /\ Len(jobs[c][t]) \in Nat \ {0}
        BY <1>1, <2>1, <3>2, LessDue
      <4>2. \A i \in 1..Len(jobs'[c][t]) : i + 1 \in 1..Len(jobs[c][t])
        BY <4>1
      <4>3. UpsertDue(a)
        BY <2>1, <2>4, <4>1, <4>2, UpsertsDueFrom DEF UpsertDue
      <4>4. QED
        BY <1>1, <4>3
    <3>3. QED
      BY <3>1, <3>2
  <2>5. ASSUME NEW a \in Account, accounts'[a] # NoRow PROVE IsOpen(a)
    <3>1. CASE u # t
      <4>1. Head(jobs[c][u]).op = "count"
        BY <2>3, <3>1 DEF Work, Table
      <4>2. accounts' = accounts
        BY <2>1, <4>1 DEF Execute
      <4>3. QED
        BY <1>1, <2>5, <4>2
    <3>2. CASE u = t
      <4> DEFINE s == Head(jobs[c][t])
      <4>1. /\ s.op \in {"upsert", "add"} /\ s.accountId \in Account
            /\ s.amount \in Int /\ s.currency \in Currency
        BY <2>3, <3>2, WorkOnAccounts
      <4>2. Execute(s)
        BY <2>1, <3>2
      <4>3. CASE s.op = "upsert" /\ s.accountId = a
        <5>1. 1 \in 1..Len(jobs[c][t]) /\ jobs[c][t][1] = s
          <6>1. Len(jobs[c][t]) \in Nat \ {0} /\ Job(t, <<c, 1>>) = s
            BY <1>1, <2>1, <3>2, LessDue
          <6>2. QED
            BY <6>1 DEF Job
        <5>2. UpsertDue(a)
          BY <4>3, <5>1 DEF UpsertDue, IsUpsert
        <5>3. QED
          BY <1>1, <5>2
      <4> HIDE DEF s
      <4>4. CASE s.op = "upsert" /\ s.accountId # a
        BY <1>1, <2>5, <4>1, <4>2, <4>4 DEF Execute, RowsTypeOK
      <4>5. CASE s.op = "add"
        <5>1. accounts[a] # NoRow
          <6> SUFFICES ASSUME accounts[a] = NoRow PROVE FALSE
            OBVIOUS
          <6>1. s.currency # "none" /\ accounts[a].currency = "none"
            BY <4>1, BankAssumption DEF NoRow
          <6>2. accounts'[a] = accounts[a]
            BY <1>1, <4>1, <4>2, <4>5, <6>1 DEF Execute, RowsTypeOK
          <6>3. QED
            BY <2>5, <6>2
        <5>2. QED
          BY <1>1, <5>1
      <4>6. QED
        BY <4>1, <4>3, <4>4, <4>5
    <3>3. QED
      BY <3>1, <3>2
  <2>6. \A a \in Account : a \in told' => a \in told \/ accounts'[a] # NoRow
    BY <2>1 DEF Listed
  <2>7. QED
    BY <1>1, <2>1, <2>4, <2>5, <2>6, OtherStepKeepsIdentities
<1>10. ASSUME NEW c \in Client, NEW u \in Table, StatementFails(c, u) PROVE IdentityInv'
  <2>1. /\ UNCHANGED <<log, client, accounts, told>>
        /\ \A d \in Client : jobs'[d][t] \in {jobs[d][t], <<>>}
    BY <1>1, <1>10 DEF StatementFails, JobsTypeOK
  <2>2. \A a \in Account : UpsertDue(a)' => UpsertDue(a)
    <3>1. Len(<<>>) = 0
      BY EmptySeq
    <3>2. QED
      BY <2>1, <3>1 DEF UpsertDue
  <2>3. QED
    BY <1>1, <2>1, <2>2, OtherStepKeepsIdentities
<1>11. CASE UNCHANGED vars
  <2>1. \A a \in Account : UpsertDue(a)' <=> UpsertDue(a)
    BY <1>11 DEF vars, UpsertDue
  <2>2. QED
    BY <1>1, <1>11, <2>1, OtherStepKeepsIdentities DEF vars
<1>12. QED
  BY <1>2, <1>3, <1>4, <1>5, <1>6, <1>7, <1>8, <1>9, <1>10, <1>11 DEF Next

(* An account is opened once, by the client that drew its id; whoever      *)
(* moves money on it, lists it or was told of it does so after its opening *)
(* is in the log.                                                          *)
THEOREM IdentitySafety == Spec => []IdentityInv
<1>1. Init => IdentityInv
  <2> SUFFICES ASSUME Init PROVE IdentityInv
    OBVIOUS
  <2>1. Len(log) = 0
    BY EmptySeq DEF Init
  <2>2. \A c \in Client : client[c].pc = "idle" /\ client[c].event = NoEvent
    BY DEF Init, Idle
  <2>3. \A c \in Client : Len(jobs[c]["accounts"]) = 0
    BY NoWork, EmptySeq DEF Init, Table
  <2>4. OpenedOnce /\ MovesAfterOpening
    BY <2>1 DEF OpenedOnce, MovesAfterOpening
  <2>5. DrawnOnce /\ OpenAfterAppend /\ IntentionsAreOnOpen
    BY <2>2 DEF DrawnOnce, OpenAfterAppend, IntentionsAreOnOpen, OpenedBy, NoEvent, At
  <2>6. KnownIsOpen
    BY <2>3 DEF KnownIsOpen, UpsertDue, Init
  <2>7. QED
    BY <2>4, <2>5, <2>6 DEF IdentityInv
<1>2. BankInv /\ WorkInv /\ IdentityInv /\ [Next]_vars => IdentityInv'
  BY StepKeepsIdentities DEF BankInv
<1>3. QED
  BY <1>1, <1>2, BankSafety, WorkSafety, PTL DEF Spec

-----------------------------------------------------------------------------
(* What statements add to the balance of an account kept in a currency.    *)
Weight(s, a, u) == IF s.accountId = a /\ s.currency = u THEN s.amount ELSE 0

(* The weights of a sequence of statements.                                *)
Weights(s, a, u) == [i \in 1..Len(s) |-> Weight(s[i], a, u)]

(* And their sum.                                                          *)
Total(s, a, u) == SumFunctionOnSet(Weights(s, a, u), 1..Len(s))

(* A sequence of statements has finitely many weights, whole numbers.      *)
LEMMA WeightsAreNumbers ==
  ASSUME NEW s \in Seq(Work("accounts")), NEW a, NEW u
  PROVE  /\ Len(s) \in Nat /\ IsFiniteSet(1..Len(s))
         /\ \A i \in 1..Len(s) : /\ Weights(s, a, u)[i] = Weight(s[i], a, u)
                                 /\ Weights(s, a, u)[i] \in Int
         /\ Total(s, a, u) \in Int
<1>1. Len(s) \in Nat /\ IsFiniteSet(1..Len(s))
  BY LenProperties, FS_Interval
<1>2. \A i \in 1..Len(s) : /\ Weights(s, a, u)[i] = Weight(s[i], a, u)
                           /\ Weights(s, a, u)[i] \in Int
  BY ElementOfSeq, WorkOnAccounts DEF Weights, Weight
<1>3. Total(s, a, u) \in Int
  BY <1>1, <1>2, SumFrom DEF Total
<1>4. QED
  BY <1>1, <1>2, <1>3

(* No statements add nothing.                                              *)
LEMMA TotalOfNone ==
  ASSUME NEW a, NEW u
  PROVE  Total(<<>>, a, u) = 0
<1>1. 1..Len(<<>>) = {}
  BY EmptySeq
<1>2. QED
  BY <1>1, SumOfNone DEF Total

(* One statement adds its weight.                                          *)
LEMMA TotalOfOne ==
  ASSUME NEW x \in Work("accounts"), NEW a, NEW u
  PROVE  Total(<<x>>, a, u) = Weight(x, a, u)
<1> DEFINE s == <<x>>
           f == Weights(s, a, u)
<1>1. s \in Seq(Work("accounts")) /\ Len(s) = 1 /\ s[1] = x
  OBVIOUS
<1>2. 1..Len(s) = {1} /\ 1 \in 1..Len(s) /\ {1} \ {1} = {}
  BY <1>1
<1> HIDE DEF s
<1>3. IsFiniteSet({1}) /\ \A i \in {1} : f[i] \in Int
  BY <1>1, <1>2, WeightsAreNumbers
<1>4. f[1] = Weight(x, a, u) /\ f[1] \in Int
  BY <1>1, <1>2, WeightsAreNumbers
<1>5. Total(s, a, u) = SumFunctionOnSet(f, {1})
  BY <1>2 DEF Total
<1> HIDE DEF f
<1>6. SumFunctionOnSet(f, {1}) = f[1] + SumFunctionOnSet(f, {1} \ {1})
  BY <1>3, SumFrom
<1>7. SumFunctionOnSet(f, {1} \ {1}) = 0
  BY <1>2, SumOfNone
<1>8. QED
  BY <1>4, <1>5, <1>6, <1>7 DEF s

(* Statements after others add the sum of what both add.                   *)
LEMMA TotalOfBoth ==
  ASSUME NEW s \in Seq(Work("accounts")), NEW t \in Seq(Work("accounts")), NEW a, NEW u
  PROVE  Total(s \o t, a, u) = Total(s, a, u) + Total(t, a, u)
<1> DEFINE both == s \o t
           n == Len(s)
           m == Len(t)
           f == Weights(both, a, u)
           b == [j \in 1..m |-> n + j]
           second == {b[j] : j \in 1..m}
<1>1. /\ both \in Seq(Work("accounts")) /\ Len(both) = n + m /\ n \in Nat /\ m \in Nat
      /\ \A i \in 1..n + m : both[i] = IF i <= n THEN s[i] ELSE t[i - n]
  BY ConcatProperties, LenProperties
<1> HIDE DEF both
<1>2. /\ IsFiniteSet(1..n) /\ IsFiniteSet(1..m)
      /\ \A i \in 1..n : /\ Weights(s, a, u)[i] = Weight(s[i], a, u)
                         /\ Weights(s, a, u)[i] \in Int
      /\ \A i \in 1..m : /\ Weights(t, a, u)[i] = Weight(t[i], a, u)
                         /\ Weights(t, a, u)[i] \in Int
      /\ \A i \in 1..n + m : f[i] = Weight(both[i], a, u) /\ f[i] \in Int
  BY <1>1, WeightsAreNumbers
<1>3. Total(both, a, u) = SumFunctionOnSet(f, 1..n + m)
  BY <1>1 DEF Total
<1> HIDE DEF f
<1>4. SumFunctionOnSet(f, 1..n) = Total(s, a, u)
  <2>1. \A i \in 1..n : i \in 1..n + m /\ both[i] = s[i]
    BY <1>1
  <2>2. \A i \in 1..n : Weights(s, a, u)[i] \in Int /\ f[i] = Weights(s, a, u)[i]
    BY <1>2, <2>1
  <2>3. QED
    BY <1>2, <2>2, SumOfSame DEF Total
<1>5. SumFunctionOnSet(f, second) = Total(t, a, u)
  <2>1. \A j \in 1..m : b[j] = n + j /\ n + j \in 1..n + m /\ both[n + j] = t[j]
    <3>1. ASSUME NEW j \in 1..m PROVE n + j \in 1..n + m /\ ~(n + j <= n) /\ (n + j) - n = j
      BY <1>1
    <3>2. QED
      BY <1>1, <3>1
  <2>2. \A j \in 1..m : f[b[j]] = Weights(t, a, u)[j]
    BY <1>2, <2>1
  <2>3. \A i, j \in 1..m : b[i] = b[j] => i = j
    BY <1>1, <2>1
  <2>4. \A j \in 1..m : Weights(t, a, u)[j] \in Int
    BY <1>2
  <2> DEFINE g == Weights(t, a, u)
             numbers == 1..m
  <2> HIDE DEF b, g, second
  <2>5. /\ IsFiniteSet(numbers) /\ \A j \in numbers : g[j] \in Int
        /\ \A j \in numbers : f[b[j]] = g[j]
        /\ \A i, j \in numbers : b[i] = b[j] => i = j
    BY <1>2, <2>2, <2>3, <2>4 DEF g
  <2> HIDE DEF numbers
  <2>6. SumFunctionOnSet(f, {b[j] : j \in numbers}) = SumFunctionOnSet(g, numbers)
    BY <2>5, SumRenamed, SMTT(60)
  <2>7. QED
    BY <2>6 DEF Total, second, g, numbers
<1>6. 1..n + m = 1..n \cup second /\ 1..n \cap second = {}
  <2>1. ASSUME NEW i PROVE i \in second <=> i \in 1..n + m /\ i \notin 1..n
    <3>1. ASSUME i \in 1..n + m, i \notin 1..n PROVE i \in second
      <4>1. i - n \in 1..m /\ n + (i - n) = i
        BY <1>1, <3>1
      <4>2. QED
        BY <4>1
    <3>2. ASSUME i \in second PROVE i \in 1..n + m /\ i \notin 1..n
      <4>1. PICK j \in 1..m : i = n + j
        BY <3>2
      <4>2. QED
        BY <1>1, <4>1
    <3>3. QED
      BY <3>1, <3>2
  <2>2. 1..n \subseteq 1..n + m
    BY <1>1
  <2> HIDE DEF second
  <2>3. QED
    BY <2>1, <2>2
<1>7. IsFiniteSet(second)
  <2>1. b \in Surjection(1..m, second)
    BY DEF Surjection
  <2>2. QED
    BY <1>2, <2>1, FS_Surjection
<1> HIDE DEF second
<1>8. SumFunctionOnSet(f, 1..n \cup second) =
        SumFunctionOnSet(f, 1..n) + SumFunctionOnSet(f, second)
  <2>1. \A i \in 1..n \cup second : f[i] \in Int
    BY <1>2, <1>6
  <2>2. QED
    BY <1>2, <1>6, <1>7, <2>1, SumOfBoth
<1>9. Total(both, a, u) = Total(s, a, u) + Total(t, a, u)
  BY <1>3, <1>4, <1>5, <1>6, <1>8
<1>10. QED
  BY <1>9 DEF both

(* A sequence is its head before its tail.                                 *)
LEMMA HeadFirst ==
  ASSUME NEW S, NEW s \in Seq(S), s # <<>>
  PROVE  /\ Head(s) \in S /\ <<Head(s)>> \in Seq(S) /\ Tail(s) \in Seq(S)
         /\ s = <<Head(s)>> \o Tail(s)
<1> DEFINE one == <<Head(s)>>
           rest == Tail(s)
<1>1. /\ Head(s) \in S /\ rest \in Seq(S) /\ Len(rest) = Len(s) - 1 /\ Len(s) \in Nat
      /\ \A i \in 1..Len(rest) : rest[i] = s[i + 1]
  BY HeadTailProperties, LenProperties
<1>2. one \in Seq(S) /\ Len(one) = 1 /\ one[1] = Head(s)
  BY <1>1
<1>3. Head(s) = s[1]
  OBVIOUS
<1> HIDE DEF one, rest
<1>4. /\ one \o rest \in Seq(S) /\ Len(one \o rest) = Len(s)
      /\ \A i \in 1..Len(s) : (one \o rest)[i] = IF i <= 1 THEN one[i] ELSE rest[i - 1]
  <2>0. one \in Seq(S) /\ rest \in Seq(S)
    BY <1>1, <1>2
  <2>1. /\ one \o rest \in Seq(S) /\ Len(one \o rest) = Len(one) + Len(rest)
        /\ \A i \in 1..Len(one) + Len(rest) :
             (one \o rest)[i] = IF i <= Len(one) THEN one[i] ELSE rest[i - Len(one)]
    BY <2>0, ConcatProperties
  <2>2. Len(one) + Len(rest) = Len(s)
    BY <1>1, <1>2
  <2>3. QED
    BY <1>2, <2>1, <2>2
<1>5. ASSUME NEW i \in 1..Len(s) PROVE s[i] = (one \o rest)[i]
  <2>1. CASE i = 1
    BY <1>2, <1>3, <1>4, <2>1
  <2>2. CASE i # 1
    <3>1. i - 1 \in 1..Len(rest) /\ ~(i <= 1) /\ (i - 1) + 1 = i
      BY <1>1, <2>2
    <3>2. QED
      BY <1>1, <1>4, <3>1
  <2>3. QED
    BY <2>1, <2>2
<1>6. s = one \o rest
  BY <1>4, <1>5, SeqEqual
<1>7. QED
  BY <1>1, <1>2, <1>6 DEF one, rest

(* The first of them and the others.                                       *)
LEMMA TotalFromHead ==
  ASSUME NEW s \in Seq(Work("accounts")), s # <<>>, NEW a, NEW u
  PROVE  Total(s, a, u) = Weight(Head(s), a, u) + Total(Tail(s), a, u)
<1> DEFINE x == Head(s)
           one == <<x>>
           rest == Tail(s)
<1>1. /\ x \in Work("accounts") /\ one \in Seq(Work("accounts"))
      /\ rest \in Seq(Work("accounts")) /\ s = one \o rest
  BY HeadFirst, Zenon
<1>2. Total(one, a, u) = Weight(x, a, u)
  BY <1>1, TotalOfOne
<1> HIDE DEF x, one, rest
<1>3. Total(one \o rest, a, u) = Total(one, a, u) + Total(rest, a, u)
  BY <1>1, TotalOfBoth
<1>4. Total(s, a, u) = Weight(x, a, u) + Total(rest, a, u)
  BY <1>1, <1>2, <1>3
<1>5. QED
  BY <1>4 DEF x, rest

(* The statements of an event add to an account what get-account adds.     *)
LEMMA TotalIsEffect ==
  ASSUME NEW e \in BankEvent, NEW a, NEW u,
         e.type = "MoneyTransferred" => e.fromAccountId # e.toAccountId
  PROVE  Total(Statements("accounts", e), a, u) = Effect(e, a, u)
<1>0. e.amount \in Int
  BY EventShapes
<1>1. CASE e.type = "BankAccountOpened"
  <2>1. Total(Statements("accounts", e), a, u) = Weight(Upsert(e), a, u)
    BY <1>1, StatementsOfOpening, TotalOfOne
  <2>2. QED
    BY <1>1, <2>1, UpsertIsOfAccount DEF Weight, Effect
<1>2. CASE e.type \in {"MoneyDeposited", "MoneyWithdrawn"}
  <2> DEFINE m == IF e.type = "MoneyDeposited" THEN e.amount ELSE -e.amount
             x == Add(e.accountId, m, e.currency)
  <2>1. Statements("accounts", e) = <<x>> /\ x \in Work("accounts")
    BY <1>2, StatementsOnAccount
  <2>2. x.accountId = e.accountId /\ x.amount = m /\ x.currency = e.currency
    BY DEF Add
  <2> HIDE DEF x
  <2>3. Total(Statements("accounts", e), a, u) = Weight(x, a, u)
    BY <2>1, TotalOfOne
  <2>4. QED
    BY <1>2, <2>2, <2>3 DEF Weight, Effect
<1>3. CASE e.type = "MoneyTransferred"
  <2> DEFINE x == Add(e.fromAccountId, -e.amount, e.currency)
             y == Add(e.toAccountId, e.amount, e.currency)
  <2>1. Statements("accounts", e) = <<x, y>> /\ x \in Work("accounts") /\ y \in Work("accounts")
    BY <1>3, StatementsOfTransfer
  <2>2. /\ x.accountId = e.fromAccountId /\ x.amount = -e.amount /\ x.currency = e.currency
        /\ y.accountId = e.toAccountId /\ y.amount = e.amount /\ y.currency = e.currency
    BY DEF Add
  <2> HIDE DEF x, y
  <2>3. PICK both \in Seq(Work("accounts")) : both = <<x, y>>
    BY <2>1, ShortSequences
  <2>4. Total(both, a, u) = Weight(x, a, u) + Weight(y, a, u)
    <3>1. both # <<>> /\ Head(both) = x /\ Tail(both) = <<y>>
      BY <2>3
    <3>2. Total(both, a, u) = Weight(x, a, u) + Total(<<y>>, a, u)
      BY <3>1, TotalFromHead
    <3>3. QED
      BY <2>1, <3>2, TotalOfOne
  <2>5. Effect(e, a, u) = Weight(x, a, u) + Weight(y, a, u)
    BY <1>0, <1>3, <2>2 DEF Weight, Effect
  <2>6. QED
    BY <2>1, <2>3, <2>4, <2>5
<1>4. QED
  BY <1>1, <1>2, <1>3, EventShapes DEF EventTypeName

(* Statements about other accounts add nothing.                            *)
LEMMA TotalOfOthers ==
  ASSUME NEW s \in Seq(Work("accounts")), NEW a, NEW u,
         \A i \in 1..Len(s) : s[i].accountId # a
  PROVE  Total(s, a, u) = 0
<1>1. /\ IsFiniteSet(1..Len(s))
      /\ \A i \in 1..Len(s) : Weights(s, a, u)[i] = 0
  BY WeightsAreNumbers DEF Weight
<1>2. QED
  BY <1>1, SumOfZeros DEF Total

(* What all clients together still have to add to an account.              *)
Totals(a, u) == [c \in Client |-> Total(jobs[c]["accounts"], a, u)]

(* Their sum over the clients.                                             *)
DueTotal(a, u) == SumFunctionOnSet(Totals(a, u), Client)

(* It is a whole number.                                                   *)
LEMMA TotalsAreNumbers ==
  ASSUME JobsTypeOK, NEW a, NEW u
  PROVE  /\ IsFiniteSet(Client) /\ DueTotal(a, u) \in Int
         /\ \A c \in Client : /\ Totals(a, u)[c] = Total(jobs[c]["accounts"], a, u)
                              /\ Totals(a, u)[c] \in Int
<1>1. IsFiniteSet(Client)
  BY BankAssumption
<1>2. \A c \in Client : /\ Totals(a, u)[c] = Total(jobs[c]["accounts"], a, u)
                        /\ Totals(a, u)[c] \in Int
  <2>1. \A c \in Client : jobs[c]["accounts"] \in Seq(Work("accounts"))
    BY DEF JobsTypeOK, Table
  <2>2. QED
    BY <2>1, WeightsAreNumbers DEF Totals
<1>3. DueTotal(a, u) \in Int
  BY <1>1, <1>2, SumFrom DEF DueTotal
<1>4. QED
  BY <1>1, <1>2, <1>3

(* Nobody has anything to add.                                             *)
LEMMA NothingDue ==
  ASSUME JobsTypeOK, NEW a, NEW u,
         \A c \in Client : Total(jobs[c]["accounts"], a, u) = 0
  PROVE  DueTotal(a, u) = 0
<1>1. IsFiniteSet(Client) /\ \A c \in Client : Totals(a, u)[c] = 0
  BY TotalsAreNumbers
<1>2. QED
  BY <1>1, SumOfZeros DEF DueTotal

(* The work of one client changes.                                         *)
LEMMA DueTotalChanges ==
  ASSUME JobsTypeOK, JobsTypeOK', NEW c \in Client, NEW a, NEW u,
         \A d \in Client : d # c => jobs'[d]["accounts"] = jobs[d]["accounts"]
  PROVE  /\ DueTotal(a, u) \in Int /\ DueTotal(a, u)' \in Int
         /\ Total(jobs[c]["accounts"], a, u) \in Int
         /\ Total(jobs'[c]["accounts"], a, u) \in Int
         /\ DueTotal(a, u)' = (DueTotal(a, u) - Total(jobs[c]["accounts"], a, u))
                              + Total(jobs'[c]["accounts"], a, u)
<1> DEFINE rest == Client \ {c}
<1>1. PICK f : f = Totals(a, u)
  OBVIOUS
<1>2. PICK g : g = Totals(a, u)'
  OBVIOUS
<1>3. /\ IsFiniteSet(Client) /\ DueTotal(a, u) \in Int
      /\ \A d \in Client : f[d] = Total(jobs[d]["accounts"], a, u) /\ f[d] \in Int
  BY <1>1, TotalsAreNumbers
<1>4. \A d \in Client : g[d] = Total(jobs'[d]["accounts"], a, u) /\ g[d] \in Int
  <2>1. \A d \in Client : jobs'[d]["accounts"] \in Seq(Work("accounts"))
    BY DEF JobsTypeOK, Table
  <2>2. \A d \in Client : g[d] = Total(jobs'[d]["accounts"], a, u)
    BY <1>2 DEF Totals
  <2>3. QED
    BY <2>1, <2>2, WeightsAreNumbers
<1>5. DueTotal(a, u) = SumFunctionOnSet(f, Client)
  BY <1>1 DEF DueTotal
<1>6. DueTotal(a, u)' = SumFunctionOnSet(g, Client)
  BY <1>2 DEF DueTotal
<1>7. DueTotal(a, u)' \in Int
  BY <1>3, <1>4, <1>6, SumFrom
<1>8. /\ IsFiniteSet(rest) /\ \A d \in rest : f[d] \in Int /\ g[d] = f[d]
  BY <1>3, <1>4, FS_RemoveElement
<1>9. /\ SumFunctionOnSet(f, Client) = f[c] + SumFunctionOnSet(f, rest)
      /\ SumFunctionOnSet(g, Client) = g[c] + SumFunctionOnSet(g, rest)
  BY <1>3, <1>4, SumFrom
<1> HIDE DEF rest
<1>10. SumFunctionOnSet(g, rest) = SumFunctionOnSet(f, rest) /\ SumFunctionOnSet(f, rest) \in Int
  BY <1>8, SumOfSame, SumFrom
<1>11. QED
  BY <1>3, <1>7, <1>4, <1>5, <1>6, <1>9, <1>10

-----------------------------------------------------------------------------
(* The balance that the first k events of a log have booked.               *)
Bookings(l, k, a, u) == [i \in 1..k |-> Effect(l[i].eventType, a, u)]

(* Their sum.                                                              *)
Booked(l, k, a, u) == SumFunctionOnSet(Bookings(l, k, a, u), 1..k)

(* It is booked event by event.                                            *)
LEMMA BookedStepwise ==
  ASSUME NEW l \in Seq(EventRecord), NEW a, NEW u
  PROVE  /\ Booked(l, 0, a, u) = 0
         /\ \A k \in 0..Len(l) : Booked(l, k, a, u) \in Int
         /\ \A k \in 1..Len(l) : /\ Effect(l[k].eventType, a, u) \in Int
                                 /\ Booked(l, k, a, u) = Effect(l[k].eventType, a, u)
                                                         + Booked(l, k - 1, a, u)
<1>0. Len(l) \in Nat
  BY LenProperties
<1>1. \A i \in 1..Len(l) : Effect(l[i].eventType, a, u) \in Int
  <2>1. \A i \in 1..Len(l) : l[i] \in EventRecord
    BY ElementOfSeq
  <2>2. \A i \in 1..Len(l) : l[i].eventType \in BankEvent
    BY <2>1 DEF EventRecord
  <2>3. QED
    BY <2>2, EffectIsANumber
<1>2. Booked(l, 0, a, u) = 0
  <2>1. 1..0 = {}
    OBVIOUS
  <2>2. QED
    BY <2>1, SumOfNone DEF Booked
<1>3. ASSUME NEW k \in 0..Len(l)
      PROVE  /\ IsFiniteSet(1..k) /\ Booked(l, k, a, u) \in Int
             /\ \A i \in 1..k : /\ i \in 1..Len(l) /\ Bookings(l, k, a, u)[i] \in Int
                                /\ Bookings(l, k, a, u)[i] = Effect(l[i].eventType, a, u)
  <2>1. IsFiniteSet(1..k)
    BY <1>0, FS_Interval
  <2>2. \A i \in 1..k : i \in 1..Len(l)
    BY <1>0
  <2>3. \A i \in 1..k : /\ Bookings(l, k, a, u)[i] \in Int
                        /\ Bookings(l, k, a, u)[i] = Effect(l[i].eventType, a, u)
    BY <1>1, <2>2 DEF Bookings
  <2>4. Booked(l, k, a, u) \in Int
    BY <2>1, <2>3, SumFrom DEF Booked
  <2>5. QED
    BY <2>1, <2>2, <2>3, <2>4
<1>4. ASSUME NEW k \in 1..Len(l)
      PROVE  Booked(l, k, a, u) = Effect(l[k].eventType, a, u) + Booked(l, k - 1, a, u)
  <2> DEFINE f == Bookings(l, k, a, u)
             g == Bookings(l, k - 1, a, u)
             earlier == 1..(k - 1)
  <2>1. /\ k \in 0..Len(l) /\ k - 1 \in 0..Len(l) /\ earlier = 1..k \ {k} /\ k \in 1..k
        /\ \A i \in earlier : i \in 1..k
    BY <1>0
  <2>2. /\ IsFiniteSet(earlier)
        /\ \A i \in earlier : /\ g[i] \in Int /\ g[i] = Effect(l[i].eventType, a, u)
    BY <1>3, <2>1
  <2>3. /\ IsFiniteSet(1..k)
        /\ \A i \in 1..k : /\ f[i] \in Int /\ f[i] = Effect(l[i].eventType, a, u)
    BY <1>3, <2>1
  <2>4. Booked(l, k, a, u) = SumFunctionOnSet(f, 1..k)
    BY DEF Booked
  <2>5. Booked(l, k - 1, a, u) = SumFunctionOnSet(g, earlier)
    BY DEF Booked
  <2> HIDE DEF f, g, earlier
  <2>6. SumFunctionOnSet(f, 1..k) = f[k] + SumFunctionOnSet(f, earlier)
    BY <2>1, <2>3, SumFrom
  <2>7. SumFunctionOnSet(g, earlier) = SumFunctionOnSet(f, earlier)
    BY <2>1, <2>2, <2>3, SumOfSame
  <2>8. QED
    BY <2>1, <2>3, <2>4, <2>5, <2>6, <2>7
<1>5. QED
  BY <1>1, <1>2, <1>3, <1>4

(* A longer log has booked the effect of its last event besides.           *)
LEMMA BookedOfLonger ==
  ASSUME LogTypeOK, NEW e \in BankEvent, log' = log \o Numbered(<<e>>, Len(log)), NEW a, NEW u
  PROVE  Booked(log', Len(log'), a, u) = Booked(log, Len(log), a, u) + Effect(e, a, u)
<1> DEFINE n == Len(log)
<1>1. PICK l : l = log'
  OBVIOUS
<1>2. /\ l \in Seq(EventRecord) /\ Len(l) = n + 1 /\ n \in Nat /\ n + 1 \in 1..Len(l)
      /\ n \in 0..Len(log) /\ (n + 1) - 1 = n
      /\ l[n + 1].eventType = e /\ \A i \in 1..n : l[i] = log[i]
  <2>1. /\ l \in Seq(EventRecord) /\ Len(l) = n + 1 /\ l[n + 1].eventType = e
        /\ \A i \in 1..n : l[i] = log[i]
    BY <1>1, AppendOne DEF LogTypeOK
  <2>2. n \in Nat
    BY LenProperties DEF LogTypeOK
  <2>3. QED
    BY <2>1, <2>2
<1> HIDE DEF n
<1>3. Bookings(l, n, a, u) = Bookings(log, n, a, u)
  BY <1>2 DEF Bookings
<1>4. Booked(l, n, a, u) = Booked(log, n, a, u)
  BY <1>3 DEF Booked
<1>5. Booked(log, n, a, u) \in Int
  BY <1>2, BookedStepwise DEF LogTypeOK
<1>6. /\ Effect(e, a, u) \in Int
      /\ Booked(l, n + 1, a, u) = Effect(e, a, u) + Booked(l, n, a, u)
  <2>1. \A k \in 1..Len(l) : /\ Effect(l[k].eventType, a, u) \in Int
                             /\ Booked(l, k, a, u) = Effect(l[k].eventType, a, u)
                                                     + Booked(l, k - 1, a, u)
    BY <1>2, BookedStepwise
  <2>2. QED
    BY <1>2, <2>1
<1>7. Booked(l, Len(l), a, u) = Booked(log, n, a, u) + Effect(e, a, u)
  BY <1>2, <1>4, <1>5, <1>6
<1>8. QED
  BY <1>1, <1>7 DEF n

(* An event that neither opens an account nor moves money on it.           *)
LEMMA EffectOnlyOf ==
  ASSUME NEW e \in BankEvent, NEW a, ~OpenedBy(e, a), ~Moves(e, a), NEW u
  PROVE  Effect(e, a, u) = 0
BY EventShapes DEF OpenedBy, Moves, Effect, EventTypeName

(* Nothing is booked on an account that is not open.                       *)
LEMMA NothingBooked ==
  ASSUME LogTypeOK, MovesAfterOpening, NEW a \in Account, ~IsOpen(a), NEW u
  PROVE  Booked(log, Len(log), a, u) = 0
<1>1. ASSUME NEW i \in 1..Len(log) PROVE Effect(EventAt(i), a, u) = 0
  <2>1. EventAt(i) \in BankEvent /\ ~OpenedBy(EventAt(i), a)
    BY LogHoldsEvents DEF LogTypeOK, IsOpen
  <2>2. ~Moves(EventAt(i), a)
    BY DEF MovesAfterOpening, IsOpen
  <2>3. QED
    BY <2>1, <2>2, EffectOnlyOf
<1>2. IsFiniteSet(1..Len(log))
  BY LenProperties, FS_Interval DEF LogTypeOK
<1>3. \A i \in 1..Len(log) : Bookings(log, Len(log), a, u)[i] = 0
  BY <1>1 DEF Bookings, EventAt
<1>4. QED
  BY <1>2, <1>3, SumOfZeros DEF Booked

(* What a rebuild replays adds up to what the log has booked.              *)
LEMMA HistoryTotal ==
  ASSUME LogTypeOK, MovesAfterOpening, NEW a, NEW u
  PROVE  Total(FlattenSeq(History("accounts")), a, u) = Booked(log, Len(log), a, u)
<1> DEFINE all == History("accounts")
           n == Len(log)
<1>1. all \in Seq(Seq(Work("accounts"))) /\ Len(all) = n /\ n \in Nat
  BY HistoryIsWork, LenProperties DEF Table, LogTypeOK
<1>2. \A i \in 1..n : all[i] = Statements("accounts", log[i].eventType)
  BY DEF History
<1> HIDE DEF all
<1>3. PICK g \in [0..Len(all) -> Seq(Work("accounts"))] :
        /\ g[0] = <<>>
        /\ \A i \in 1..Len(all) : g[i] = g[i - 1] \o all[i]
        /\ FlattenSeq(all) = g[Len(all)]
  BY <1>1, FlattenedStepwise
<1>4. log \in Seq(EventRecord)
  BY DEF LogTypeOK
<1> DEFINE G == {k \in Nat : k <= n => Total(g[k], a, u) = Booked(log, k, a, u)}
<1>5. 0 \in G
  BY <1>3, <1>4, TotalOfNone, BookedStepwise
<1>6. ASSUME NEW k \in Nat, k \in G PROVE k + 1 \in G
  <2> SUFFICES ASSUME k + 1 <= n PROVE Total(g[k + 1], a, u) = Booked(log, k + 1, a, u)
    OBVIOUS
  <2> DEFINE e == log[k + 1].eventType
             s == g[k]
             t == all[k + 1]
  <2>1. k + 1 \in 1..n /\ (k + 1) - 1 = k /\ k \in 0..n /\ Total(s, a, u) = Booked(log, k, a, u)
    BY <1>1, <1>6
  <2>2. /\ e \in BankEvent
        /\ e.type = "MoneyTransferred" => e.fromAccountId # e.toAccountId
    BY <2>1, LogHoldsEvents DEF LogTypeOK, MovesAfterOpening, EventAt
  <2>3. g[k + 1] = s \o t /\ s \in Seq(Work("accounts")) /\ t \in Seq(Work("accounts"))
    BY <1>1, <1>3, <2>1, ElementOfSeq
  <2>4. t = Statements("accounts", e)
    BY <1>2, <2>1
  <2> HIDE DEF e, s, t
  <2>5. Total(t, a, u) = Effect(e, a, u)
    BY <2>2, <2>4, TotalIsEffect
  <2>6. Total(s \o t, a, u) = Total(s, a, u) + Total(t, a, u)
    BY <2>3, TotalOfBoth
  <2>7. /\ Booked(log, k, a, u) \in Int /\ Effect(e, a, u) \in Int
        /\ Booked(log, k + 1, a, u) = Effect(e, a, u) + Booked(log, k, a, u)
    BY <1>4, <2>1, BookedStepwise, Zenon DEF e
  <2>8. QED
    BY <2>1, <2>3, <2>5, <2>6, <2>7
<1>7. n \in G
  <2> HIDE DEF G
  <2>1. QED
    BY <1>1, <1>5, <1>6, AllNumbers
<1>8. QED
  BY <1>1, <1>3, <1>7 DEF all

(* What the log has booked is the balance that get-account folds from it.  *)
LEMMA BookedIsBalance ==
  ASSUME LogTypeOK, NEW a
  PROVE  Booked(log, Len(log), a, Opening(AllRecords, a).currency) = Balance(AllRecords, a)
<1> DEFINE u == Opening(AllRecords, a).currency
           numbers == 1..Len(log)
           f == Bookings(log, Len(log), a, u)
           g == Effects(AllRecords, a, u)
<1>1. /\ IsFiniteSet(numbers)
      /\ \A i \in numbers : /\ log[i] \in AllRecords /\ log[i].sequenceNumber = i
                            /\ Effect(log[i].eventType, a, u) \in Int
  <2>1. IsFiniteSet(numbers)
    BY LenProperties, FS_Interval DEF LogTypeOK
  <2>2. \A i \in numbers : /\ log[i] \in AllRecords /\ log[i].sequenceNumber = i
                           /\ log[i].eventType \in BankEvent
    BY LogHoldsEvents DEF LogTypeOK, EventAt, AllRecords
  <2> HIDE DEF u, numbers
  <2>3. QED
    BY <2>1, <2>2, EffectIsANumber
<1>2. /\ \A i \in numbers : f[i] \in Int /\ g[log[i]] = f[i]
      /\ \A i, j \in numbers : log[i] = log[j] => i = j
  BY <1>1 DEF Bookings, Effects
<1>3. AllRecords = {log[i] : i \in numbers}
  BY DEF AllRecords
<1>4. Booked(log, Len(log), a, u) = SumFunctionOnSet(f, numbers)
  BY DEF Booked
<1>5. Balance(AllRecords, a) = SumFunctionOnSet(g, AllRecords)
  BY BalanceIsASum, Zenon
<1> HIDE DEF u, numbers, f, g
<1>6. SumFunctionOnSet(g, {log[i] : i \in numbers}) = SumFunctionOnSet(f, numbers)
  BY <1>1, <1>2, SumRenamed, SMTT(60)
<1>7. Booked(log, Len(log), a, u) = Balance(AllRecords, a)
  BY <1>3, <1>4, <1>5, <1>6
<1>8. QED
  BY <1>7 DEF u

-----------------------------------------------------------------------------
(* The rows of the list.  The account a is kept in the currency u.         *)
KeptIn(a, u) == \E i \in 1..Len(log) : OpenedBy(EventAt(i), a) /\ EventAt(i).currency = u

(* What a client still has to do on the list.                              *)
InHand(c) == jobs[c]["accounts"]

(* The row of the account comes with the statement at position i.          *)
RowDue(c, i, a) == i \in 1..Len(InHand(c)) /\ IsUpsert(InHand(c)[i], a)

(* A row is one of an account that was opened, in its currency.            *)
RowsAreOfOpenings ==
  \A a \in Account : accounts[a] # NoRow => KeptIn(a, accounts[a].currency)

(* A row comes at most once.                                               *)
RowsComeOnce ==
  \A a \in Account, c, d \in Client, i, j \in Nat :
    RowDue(c, i, a) /\ RowDue(d, j, a) => c = d /\ i = j

(* It comes where there is none, in the currency of the opening.           *)
RowsToCome ==
  \A a \in Account, c \in Client, i \in Nat :
    RowDue(c, i, a) => accounts[a] = NoRow /\ KeptIn(a, InHand(c)[i].currency)

(* The listener of an opening runs before anyone is told of the account.   *)
NotToldBefore ==
  \A a \in Account, c \in Client, i \in Nat :
    RowDue(c, i, a) /\ At(c, "notify") => a \notin told /\ OpenedBy(client[c].event, a)

(* An open account has a row, or it comes.                                 *)
OpenHaveRows ==
  \A a \in Account : IsOpen(a) /\ accounts[a] = NoRow =>
                       \E c \in Client : \E i \in Nat : RowDue(c, i, a)

(* What adds to a row that is missing comes after the row.                 *)
AddsFollowRows ==
  \A c \in Client : \A i \in 1..Len(InHand(c)) :
    InHand(c)[i].op = "add" /\ accounts[InHand(c)[i].accountId] = NoRow =>
      \E j \in Nat : j < i /\ RowDue(c, j, InHand(c)[i].accountId)

(* Rows and what is to be added to them are what the log has booked.       *)
BalancesAddUp ==
  \A a \in Account, u \in Currency : KeptIn(a, u) =>
    Booked(log, Len(log), a, u) = accounts[a].balance + DueTotal(a, u)

(* The rows, and what is to come to them, are right.                       *)
RowsRight ==
  /\ RowsAreOfOpenings /\ RowsComeOnce /\ RowsToCome /\ NotToldBefore
  /\ OpenHaveRows /\ AddsFollowRows /\ BalancesAddUp

(* They are, until something goes wrong with the table.                    *)
RowsInv == Settled("accounts") => RowsRight

(* An account is kept in one currency.                                     *)
LEMMA KeptOnce ==
  ASSUME LogTypeOK, OpenedOnce, NEW a \in Account, NEW u, KeptIn(a, u)
  PROVE  u \in Currency /\ IsOpen(a) /\ \A v : KeptIn(a, v) => v = u
<1>1. PICK i \in 1..Len(log) : OpenedBy(EventAt(i), a) /\ EventAt(i).currency = u
  BY DEF KeptIn
<1>2. u \in Currency
  BY <1>1, LogHoldsEvents, EventShapes DEF LogTypeOK
<1>3. \A v : KeptIn(a, v) => v = u
  BY <1>1 DEF KeptIn, OpenedOnce
<1>4. QED
  BY <1>1, <1>2, <1>3 DEF IsOpen

(* Work in hand is statements on the list.                                 *)
LEMMA InHandIsWork ==
  ASSUME JobsTypeOK, NEW c \in Client
  PROVE  /\ InHand(c) \in Seq(Work("accounts")) /\ Len(InHand(c)) \in Nat
         /\ \A i \in 1..Len(InHand(c)) :
              /\ i \in Nat /\ InHand(c)[i] \in Work("accounts")
              /\ InHand(c)[i].op \in {"upsert", "add"} /\ InHand(c)[i].accountId \in Account
              /\ InHand(c)[i].amount \in Int /\ InHand(c)[i].currency \in Currency
<1>1. InHand(c) \in Seq(Work("accounts"))
  BY DEF JobsTypeOK, Table, InHand
<1>2. Len(InHand(c)) \in Nat /\ \A i \in 1..Len(InHand(c)) : InHand(c)[i] \in Work("accounts")
  BY <1>1, LenProperties, ElementOfSeq
<1>3. QED
  BY <1>1, <1>2, WorkOnAccounts

(* Steps that touch neither the log, nor the list, nor the work on it.     *)
LEMMA SameRows ==
  ASSUME RowsInv, Settled("accounts")' => Settled("accounts"),
         log' = log, accounts' = accounts, \A c \in Client : InHand(c)' = InHand(c),
         \A c \in Client : At(c, "notify")' /\ InHand(c) # <<>> => client'[c] = client[c],
         \A a \in told' \ told, c \in Client, i \in Nat : RowDue(c, i, a) => ~At(c, "notify")
  PROVE  RowsInv'
<1> SUFFICES ASSUME Settled("accounts")' PROVE RowsRight'
  BY DEF RowsInv
<1>1. RowsRight
  BY DEF RowsInv
<1>2. \A a, u : KeptIn(a, u)' <=> KeptIn(a, u)
  BY DEF KeptIn, EventAt
<1>3. \A a : IsOpen(a)' <=> IsOpen(a)
  BY DEF IsOpen, EventAt
<1>4. \A c \in Client : \A i, a : RowDue(c, i, a)' <=> RowDue(c, i, a)
  BY DEF RowDue, IsUpsert
<1>5. RowsAreOfOpenings'
  BY <1>1, <1>2 DEF RowsRight, RowsAreOfOpenings, NoRow
<1>6. RowsComeOnce'
  BY <1>1, <1>4 DEF RowsRight, RowsComeOnce
<1>7. RowsToCome'
  BY <1>1, <1>2, <1>4 DEF RowsRight, RowsToCome, NoRow
<1>8. NotToldBefore'
  <2> SUFFICES ASSUME NEW a \in Account, NEW c \in Client, NEW i \in Nat,
                      RowDue(c, i, a)', At(c, "notify")'
               PROVE  a \notin told' /\ OpenedBy(client'[c].event, a)
    BY DEF NotToldBefore, OpenedBy
  <2>1. RowDue(c, i, a) /\ InHand(c) # <<>>
    <3>1. RowDue(c, i, a)
      BY <1>4
    <3>2. Len(<<>>) = 0
      BY EmptySeq
    <3>3. QED
      BY <3>1, <3>2 DEF RowDue
  <2>2. client'[c] = client[c] /\ At(c, "notify")
    BY <2>1 DEF At
  <2>3. a \notin told /\ OpenedBy(client[c].event, a)
    BY <1>1, <2>1, <2>2 DEF RowsRight, NotToldBefore
  <2>4. QED
    BY <2>1, <2>2, <2>3
<1>9. OpenHaveRows'
  BY <1>1, <1>3, <1>4 DEF RowsRight, OpenHaveRows, NoRow
<1>10. AddsFollowRows'
  BY <1>1, <1>4 DEF RowsRight, AddsFollowRows, NoRow
<1>11. BalancesAddUp'
  <2>1. \A a, u : DueTotal(a, u)' = DueTotal(a, u)
    BY DEF DueTotal, Totals, InHand
  <2>2. QED
    BY <1>1, <1>2, <2>1 DEF RowsRight, BalancesAddUp
<1>12. QED
  BY <1>5, <1>6, <1>7, <1>8, <1>9, <1>10, <1>11 DEF RowsRight

(* A statement that runs finds no row that it brings, and the row that it  *)
(* adds to.                                                                *)
LEMMA RunningStatement ==
  ASSUME LogTypeOK, WorkInv, OpenedOnce, RowsRight, NEW c \in Client, InHand(c) # <<>>,
         NEW s, s = Head(InHand(c)), Execute(s)
  PROVE  LET b == s.accountId
         IN  /\ s \in Work("accounts") /\ b \in Account
             /\ \A a \in Account : a # b => accounts'[a] = accounts[a]
             /\ accounts'[b] # NoRow /\ KeptIn(b, accounts'[b].currency)
             /\ \A u : KeptIn(b, u) =>
                  accounts'[b].balance = accounts[b].balance + Weight(s, b, u)
             /\ s.op = "upsert" => RowDue(c, 1, b)
             /\ s.op = "add" => accounts[b] # NoRow
<1> DEFINE b == s.accountId
<1>1. /\ s \in Work("accounts") /\ s.op \in {"upsert", "add"} /\ b \in Account
      /\ s.amount \in Int /\ s.currency \in Currency
      /\ 1 \in 1..Len(InHand(c)) /\ InHand(c)[1] = s
  <2>1. 1 \in 1..Len(InHand(c)) /\ InHand(c)[1] = s
    BY InHandIsWork, EmptySeq DEF WorkInv
  <2>2. QED
    BY <2>1, InHandIsWork DEF WorkInv
<1>2. /\ accounts \in [Account -> [balance : Int, currency : Currency \cup {"none"}]]
      /\ "none" \notin Currency
  BY BankAssumption DEF WorkInv, RowsTypeOK
<1>3. CASE s.op = "upsert"
  <2>1. RowDue(c, 1, b)
    BY <1>1, <1>3 DEF RowDue, IsUpsert
  <2>2. accounts[b] = NoRow /\ KeptIn(b, s.currency)
    BY <1>1, <2>1 DEF RowsRight, RowsToCome
  <2>3. accounts' = [accounts EXCEPT ![b] = [balance |-> s.amount, currency |-> s.currency]]
    BY <1>3 DEF Execute
  <2>4. /\ \A a \in Account : a # b => accounts'[a] = accounts[a]
        /\ accounts'[b].balance = s.amount /\ accounts'[b].currency = s.currency
    BY <1>1, <1>2, <2>3
  <2>5. accounts[b].balance = 0 /\ NoRow.currency = "none"
    BY <2>2 DEF NoRow
  <2>6. accounts'[b] # NoRow
    BY <1>1, <1>2, <2>4, <2>5
  <2>7. \A u : KeptIn(b, u) => u = s.currency
    BY <1>1, <2>2, KeptOnce
  <2>8. \A u : KeptIn(b, u) => accounts'[b].balance = accounts[b].balance + Weight(s, b, u)
    BY <1>1, <2>4, <2>5, <2>7 DEF Weight
  <2>9. QED
    BY <1>1, <1>3, <2>1, <2>2, <2>4, <2>6, <2>8
<1>4. CASE s.op = "add"
  <2>1. accounts[b] # NoRow
    BY <1>1, <1>4 DEF RowsRight, AddsFollowRows, RowDue
  <2>2. KeptIn(b, accounts[b].currency)
    BY <1>1, <2>1 DEF RowsRight, RowsAreOfOpenings
  <2>3. accounts[b].currency \in Currency /\ \A u : KeptIn(b, u) => u = accounts[b].currency
    BY <1>1, <2>2, KeptOnce
  <2>4. accounts' = IF accounts[b].currency = s.currency
                    THEN [accounts EXCEPT ![b].balance = @ + s.amount]
                    ELSE accounts
    BY <1>4 DEF Execute
  <2>5. /\ \A a \in Account : a # b => accounts'[a] = accounts[a]
        /\ accounts'[b].currency = accounts[b].currency
        /\ accounts'[b].balance = accounts[b].balance +
             (IF accounts[b].currency = s.currency THEN s.amount ELSE 0)
    BY <1>1, <1>2, <2>4
  <2>6. accounts'[b] # NoRow
    BY <1>2, <2>3, <2>5 DEF NoRow
  <2>7. \A u : KeptIn(b, u) => accounts'[b].balance = accounts[b].balance + Weight(s, b, u)
    BY <2>3, <2>5 DEF Weight
  <2>8. QED
    BY <1>1, <1>4, <2>1, <2>2, <2>5, <2>6, <2>7
<1>5. QED
  BY <1>1, <1>3, <1>4

(* Where the work of client d was before client c finished a statement.    *)
Place(c, d, i) == IF d = c THEN i + 1 ELSE i

(* The statements in hand after c has finished its first.                  *)
LEMMA WorkMovesUp ==
  ASSUME JobsTypeOK, NEW c \in Client, InHand(c) # <<>>, InHand(c)' = Tail(InHand(c)),
         \A d \in Client : d # c => InHand(d)' = InHand(d)
  PROVE  /\ \A d \in Client : \A i \in 1..Len(InHand(d)') :
              /\ i \in Nat /\ Place(c, d, i) \in 1..Len(InHand(d))
              /\ InHand(d)'[i] = InHand(d)[Place(c, d, i)]
              /\ d = c => Place(c, d, i) # 1
         /\ \A d \in Client : \A k \in 1..Len(InHand(d)) : (d = c => k # 1) =>
              \E i \in 1..Len(InHand(d)') : Place(c, d, i) = k
<1>1. /\ Len(InHand(c)) \in Nat /\ Len(InHand(c)') = Len(InHand(c)) - 1
      /\ \A i \in 1..Len(InHand(c)') : InHand(c)'[i] = InHand(c)[i + 1]
  <2>1. InHand(c) \in Seq(Work("accounts")) /\ Len(InHand(c)) \in Nat
    BY InHandIsWork
  <2>2. PICK r : r = InHand(c)'
    OBVIOUS
  <2>3. Len(r) = Len(InHand(c)) - 1 /\ \A i \in 1..Len(r) : r[i] = InHand(c)[i + 1]
    BY <2>1, <2>2, HeadTailProperties
  <2>4. QED
    BY <2>1, <2>2, <2>3
<1>2. ASSUME NEW d \in Client, NEW i \in 1..Len(InHand(d)')
      PROVE  /\ i \in Nat /\ Place(c, d, i) \in 1..Len(InHand(d))
             /\ InHand(d)'[i] = InHand(d)[Place(c, d, i)]
             /\ d = c => Place(c, d, i) # 1
  <2>1. CASE d = c
    <3>1. i \in Nat /\ i + 1 \in 1..Len(InHand(c)) /\ i + 1 # 1
      BY <1>1, <2>1
    <3>2. QED
      BY <1>1, <2>1, <3>1 DEF Place
  <2>2. CASE d # c
    <3>1. InHand(d)' = InHand(d)
      BY <2>2
    <3>2. QED
      BY <2>2, <3>1, InHandIsWork DEF Place
  <2>3. QED
    BY <2>1, <2>2
<1>3. ASSUME NEW d \in Client, NEW k \in 1..Len(InHand(d)), d = c => k # 1
      PROVE  \E i \in 1..Len(InHand(d)') : Place(c, d, i) = k
  <2>1. CASE d = c
    <3>1. k - 1 \in 1..Len(InHand(c)') /\ (k - 1) + 1 = k
      BY <1>1, <1>3, <2>1
    <3>2. QED
      BY <2>1, <3>1 DEF Place
  <2>2. CASE d # c
    BY <2>2 DEF Place
  <2>3. QED
    BY <2>1, <2>2
<1>4. QED
  BY <1>2, <1>3

(* A statement that runs leaves the others to run.                         *)
LEMMA RunKeepsRows ==
  ASSUME LogTypeOK, WorkInv, WorkInv', OpenedOnce, RowsRight, NEW c \in Client, InHand(c) # <<>>,
         Execute(Head(InHand(c))), told' = told \cup Listed(accounts'),
         InHand(c)' = Tail(InHand(c)), \A d \in Client : d # c => InHand(d)' = InHand(d),
         log' = log, client' = client
  PROVE  RowsRight'
<1>1. PICK s : s = Head(InHand(c))
  OBVIOUS
<1>2. PICK b : b = s.accountId
  OBVIOUS
<1>3. /\ s \in Work("accounts") /\ b \in Account
      /\ \A a \in Account : a # b => accounts'[a] = accounts[a]
      /\ accounts'[b] # NoRow /\ KeptIn(b, accounts'[b].currency)
      /\ \A u : KeptIn(b, u) => accounts'[b].balance = accounts[b].balance + Weight(s, b, u)
      /\ s.op = "upsert" => RowDue(c, 1, b)
      /\ s.op = "add" => accounts[b] # NoRow
  BY <1>1, <1>2, RunningStatement
<1>4. PICK new : new = [d \in Client |-> InHand(d)']
  OBVIOUS
<1>5. \A d \in Client : InHand(d)' = new[d]
  BY <1>4
<1>6. /\ \A d \in Client : \A i \in 1..Len(new[d]) :
              /\ i \in Nat /\ Place(c, d, i) \in 1..Len(InHand(d))
              /\ new[d][i] = InHand(d)[Place(c, d, i)]
              /\ d = c => Place(c, d, i) # 1
      /\ \A d \in Client : \A k \in 1..Len(InHand(d)) : (d = c => k # 1) =>
              \E i \in 1..Len(new[d]) : Place(c, d, i) = k
  <2>1. /\ \A d \in Client : \A i \in 1..Len(InHand(d)') :
              /\ i \in Nat /\ Place(c, d, i) \in 1..Len(InHand(d))
              /\ InHand(d)'[i] = InHand(d)[Place(c, d, i)]
              /\ d = c => Place(c, d, i) # 1
        /\ \A d \in Client : \A k \in 1..Len(InHand(d)) : (d = c => k # 1) =>
              \E i \in 1..Len(InHand(d)') : Place(c, d, i) = k
    BY WorkMovesUp DEF WorkInv
  <2>2. ASSUME NEW d \in Client
        PROVE  /\ \A i \in 1..Len(new[d]) :
                    /\ i \in Nat /\ Place(c, d, i) \in 1..Len(InHand(d))
                    /\ new[d][i] = InHand(d)[Place(c, d, i)]
                    /\ d = c => Place(c, d, i) # 1
               /\ \A k \in 1..Len(InHand(d)) : (d = c => k # 1) =>
                    \E i \in 1..Len(new[d]) : Place(c, d, i) = k
    <3>1. InHand(d)' = new[d]
      BY <1>5
    <3>2. \A i \in 1..Len(InHand(d)') :
            /\ i \in Nat /\ Place(c, d, i) \in 1..Len(InHand(d))
            /\ InHand(d)'[i] = InHand(d)[Place(c, d, i)]
            /\ d = c => Place(c, d, i) # 1
      BY <2>1, Zenon
    <3>3. \A k \in 1..Len(InHand(d)) : (d = c => k # 1) =>
            \E i \in 1..Len(InHand(d)') : Place(c, d, i) = k
      BY <2>1, Zenon
    <3>4. QED
      BY <3>1, <3>2, <3>3
  <2>3. QED
    BY <2>2
<1>7. \A d \in Client : \A i, a :
        RowDue(d, i, a)' <=> i \in 1..Len(new[d]) /\ IsUpsert(new[d][i], a)
  BY <1>5 DEF RowDue, IsUpsert
<1>8. \A d \in Client : \A i, a : RowDue(d, i, a)' =>
        /\ i \in Nat /\ Place(c, d, i) \in Nat /\ RowDue(d, Place(c, d, i), a)
        /\ d = c => Place(c, d, i) # 1
        /\ new[d][i] = InHand(d)[Place(c, d, i)]
  <2>1. ASSUME NEW d \in Client, NEW i, NEW a, RowDue(d, i, a)'
        PROVE  /\ i \in Nat /\ Place(c, d, i) \in Nat /\ RowDue(d, Place(c, d, i), a)
               /\ d = c => Place(c, d, i) # 1
               /\ new[d][i] = InHand(d)[Place(c, d, i)]
    <3>1. i \in 1..Len(new[d]) /\ IsUpsert(new[d][i], a)
      BY <1>7, <2>1
    <3>2. /\ i \in Nat /\ Place(c, d, i) \in 1..Len(InHand(d))
          /\ new[d][i] = InHand(d)[Place(c, d, i)]
          /\ d = c => Place(c, d, i) # 1
      BY <1>6, <3>1
    <3>3. Place(c, d, i) \in Nat
      BY <3>2, InHandIsWork DEF WorkInv
    <3>4. RowDue(d, Place(c, d, i), a)
      BY <3>1, <3>2 DEF RowDue
    <3>5. QED
      BY <3>2, <3>3, <3>4
  <2>2. QED
    BY <2>1
<1>9. \A a, u : KeptIn(a, u)' <=> KeptIn(a, u)
  BY DEF KeptIn, EventAt
<1>10. ASSUME NEW a \in Account, NEW d \in Client, NEW i, RowDue(d, i, a)' PROVE a # b
  <2>1. /\ Place(c, d, i) \in Nat /\ RowDue(d, Place(c, d, i), a) /\ (d = c => Place(c, d, i) # 1)
    BY <1>8, <1>10
  <2>2. s.op \in {"upsert", "add"}
    BY <1>3, WorkOnAccounts
  <2>3. CASE s.op = "upsert"
    BY <1>3, <2>1, <2>3 DEF RowsRight, RowsComeOnce
  <2>4. CASE s.op = "add"
    BY <1>3, <2>1, <2>4 DEF RowsRight, RowsToCome
  <2>5. QED
    BY <2>2, <2>3, <2>4
<1>11. RowsAreOfOpenings'
  <2>1. ASSUME NEW a \in Account, accounts'[a] # NoRow PROVE KeptIn(a, accounts'[a].currency)
    BY <1>3, <2>1 DEF RowsRight, RowsAreOfOpenings
  <2>2. QED
    BY <1>9, <2>1 DEF RowsAreOfOpenings, NoRow
<1>12. RowsComeOnce'
  <2>1. ASSUME NEW a \in Account, NEW d \in Client, NEW e \in Client, NEW i \in Nat, NEW j \in Nat,
               RowDue(d, i, a)', RowDue(e, j, a)'
        PROVE  d = e /\ i = j
    <3>1. /\ RowDue(d, Place(c, d, i), a) /\ RowDue(e, Place(c, e, j), a)
          /\ Place(c, d, i) \in Nat /\ Place(c, e, j) \in Nat
      BY <1>8, <2>1
    <3>2. d = e /\ Place(c, d, i) = Place(c, e, j)
      BY <3>1 DEF RowsRight, RowsComeOnce
    <3>3. QED
      BY <3>2 DEF Place
  <2>2. QED
    BY <2>1 DEF RowsComeOnce
<1>13. RowsToCome'
  <2>1. ASSUME NEW a \in Account, NEW d \in Client, NEW i \in Nat, RowDue(d, i, a)'
        PROVE  accounts'[a] = NoRow /\ KeptIn(a, new[d][i].currency)
    <3>1. /\ RowDue(d, Place(c, d, i), a) /\ Place(c, d, i) \in Nat
          /\ new[d][i] = InHand(d)[Place(c, d, i)]
      BY <1>8, <2>1
    <3>2. a # b
      BY <1>10, <2>1
    <3>3. QED
      BY <1>3, <3>1, <3>2 DEF RowsRight, RowsToCome
  <2>2. QED
    BY <1>5, <1>9, <2>1 DEF RowsToCome, NoRow
<1>14. NotToldBefore'
  <2>1. ASSUME NEW a \in Account, NEW d \in Client, NEW i \in Nat, RowDue(d, i, a)', At(d, "notify")
        PROVE  a \notin told' /\ OpenedBy(client[d].event, a)
    <3>1. RowDue(d, Place(c, d, i), a) /\ Place(c, d, i) \in Nat
      BY <1>8, <2>1
    <3>2. a \notin told /\ OpenedBy(client[d].event, a) /\ accounts[a] = NoRow
      BY <2>1, <3>1 DEF RowsRight, NotToldBefore, RowsToCome
    <3>3. accounts'[a] = NoRow
      BY <1>3, <1>10, <2>1, <3>2
    <3>4. QED
      BY <3>2, <3>3 DEF Listed
  <2>2. QED
    BY <2>1 DEF NotToldBefore, At, OpenedBy
<1>15. OpenHaveRows'
  <2>1. ASSUME NEW a \in Account, IsOpen(a)', accounts'[a] = NoRow
        PROVE  \E d \in Client : \E i \in Nat : RowDue(d, i, a)'
    <3>1. IsOpen(a)
      BY <2>1 DEF IsOpen, EventAt
    <3>2. a # b /\ accounts[a] = NoRow
      BY <1>3, <2>1
    <3>3. PICK d \in Client, k \in Nat : RowDue(d, k, a)
      BY <3>1, <3>2 DEF RowsRight, OpenHaveRows
    <3>4. k \in 1..Len(InHand(d)) /\ (d = c => k # 1)
      <4>1. ASSUME d = c, k = 1 PROVE FALSE
        <5>1. InHand(c)[1] = s
          BY <1>1, <3>3, InHandIsWork DEF WorkInv
        <5>2. s.accountId = a
          BY <3>3, <4>1, <5>1 DEF RowDue, IsUpsert
        <5>3. QED
          BY <1>2, <3>2, <5>2
      <4>2. QED
        BY <3>3, <4>1 DEF RowDue
    <3>5. PICK i \in 1..Len(new[d]) : Place(c, d, i) = k
      BY <1>6, <3>4
    <3>6. i \in Nat /\ new[d][i] = InHand(d)[k]
      BY <1>6, <3>5
    <3>7. RowDue(d, i, a)'
      BY <1>7, <3>3, <3>5, <3>6 DEF RowDue
    <3>8. QED
      BY <3>6, <3>7
  <2>2. QED
    BY <2>1 DEF OpenHaveRows, NoRow
<1>16. AddsFollowRows'
  <2>1. ASSUME NEW d \in Client, NEW i \in 1..Len(new[d]), new[d][i].op = "add",
               accounts'[new[d][i].accountId] = NoRow
        PROVE  \E j \in Nat : j < i /\ RowDue(d, j, new[d][i].accountId)'
    <3> DEFINE a == new[d][i].accountId
               k == Place(c, d, i)
    <3>1. i \in Nat /\ k \in 1..Len(InHand(d)) /\ new[d][i] = InHand(d)[k] /\ (d = c => k # 1)
      BY <1>6
    <3>2. a \in Account /\ a # b /\ accounts[a] = NoRow
      <4>1. a \in Account
        BY <3>1, InHandIsWork DEF WorkInv
      <4>2. QED
        BY <1>3, <2>1, <4>1
    <3>3. PICK m \in Nat : m < k /\ RowDue(d, m, a)
      BY <2>1, <3>1, <3>2 DEF RowsRight, AddsFollowRows
    <3>4. m \in 1..Len(InHand(d)) /\ (d = c => m # 1)
      <4>1. ASSUME d = c, m = 1 PROVE FALSE
        <5>1. InHand(c)[1] = s
          BY <1>1, <3>3, InHandIsWork DEF WorkInv
        <5>2. s.accountId = a
          BY <3>3, <4>1, <5>1 DEF RowDue, IsUpsert
        <5>3. QED
          BY <1>2, <3>2, <5>2
      <4>2. QED
        BY <3>3, <4>1 DEF RowDue
    <3>5. PICK j \in 1..Len(new[d]) : Place(c, d, j) = m
      BY <1>6, <3>4
    <3>6. j \in Nat /\ new[d][j] = InHand(d)[m]
      BY <1>6, <3>5
    <3>7. RowDue(d, j, a)'
      BY <1>7, <3>3, <3>5, <3>6 DEF RowDue
    <3>8. j < i
      BY <3>1, <3>3, <3>5, <3>6 DEF Place
    <3>9. QED
      BY <3>6, <3>7, <3>8
  <2>2. QED
    BY <1>5, <2>1 DEF AddsFollowRows, NoRow
<1>17. BalancesAddUp'
  <2>1. ASSUME NEW a \in Account, NEW u \in Currency, KeptIn(a, u)
        PROVE  Booked(log, Len(log), a, u) = accounts'[a].balance + DueTotal(a, u)'
    <3>1. Booked(log, Len(log), a, u) = accounts[a].balance + DueTotal(a, u)
      BY <2>1 DEF RowsRight, BalancesAddUp
    <3>2. /\ DueTotal(a, u) \in Int /\ DueTotal(a, u)' \in Int
          /\ DueTotal(a, u)' = (DueTotal(a, u) - Total(InHand(c), a, u)) + Total(new[c], a, u)
          /\ Total(InHand(c), a, u) \in Int /\ Total(new[c], a, u) \in Int
      BY <1>5, DueTotalChanges DEF WorkInv, InHand
    <3>3. Total(InHand(c), a, u) = Weight(s, a, u) + Total(new[c], a, u)
      <4>1. InHand(c) \in Seq(Work("accounts"))
        BY InHandIsWork DEF WorkInv
      <4>2. Total(InHand(c), a, u) = Weight(Head(InHand(c)), a, u) + Total(Tail(InHand(c)), a, u)
        BY <4>1, TotalFromHead
      <4>3. new[c] = Tail(InHand(c))
        BY <1>5
      <4>4. QED
        BY <1>1, <4>2, <4>3
    <3>4. Weight(s, a, u) \in Int /\ accounts[a].balance \in Int
      BY <1>3, WorkOnAccounts DEF Weight, WorkInv, RowsTypeOK
    <3>5. accounts'[a].balance = accounts[a].balance + Weight(s, a, u)
      <4>1. CASE a = b
        BY <1>3, <2>1, <4>1
      <4>2. CASE a # b
        BY <1>2, <1>3, <3>4, <4>2 DEF Weight
      <4>3. QED
        BY <4>1, <4>2
    <3>6. QED
      BY <3>1, <3>2, <3>3, <3>4, <3>5
  <2>2. QED
    BY <1>9, <2>1 DEF BalancesAddUp
<1>18. QED
  BY <1>11, <1>12, <1>13, <1>14, <1>15, <1>16, <1>17 DEF RowsRight

(* Nobody knows of an account that is not open: it has no row, none comes, *)
(* and nothing is to be added to it.                                       *)
LEMMA NotOpenUnknown ==
  ASSUME WorkInv, KnownIsOpen, AddsFollowRows, NEW a \in Account, ~IsOpen(a)
  PROVE  /\ a \notin told /\ accounts[a] = NoRow
         /\ \A c \in Client : \A i : ~RowDue(c, i, a)
         /\ \A u : DueTotal(a, u) = 0
<1>1. a \notin told /\ accounts[a] = NoRow /\ ~UpsertDue(a)
  BY DEF KnownIsOpen
<1>2. \A c \in Client : \A i : ~RowDue(c, i, a)
  BY <1>1 DEF UpsertDue, RowDue, InHand
<1>3. ASSUME NEW c \in Client, NEW i \in 1..Len(InHand(c)) PROVE InHand(c)[i].accountId # a
  <2>1. InHand(c)[i].op \in {"upsert", "add"}
    BY InHandIsWork DEF WorkInv
  <2>2. CASE InHand(c)[i].op = "upsert"
    BY <1>2, <2>2 DEF RowDue, IsUpsert
  <2>3. CASE InHand(c)[i].op = "add"
    BY <1>1, <1>2, <2>3 DEF AddsFollowRows
  <2>4. QED
    BY <2>1, <2>2, <2>3
<1>4. ASSUME NEW u PROVE DueTotal(a, u) = 0
  <2>1. \A c \in Client : Total(InHand(c), a, u) = 0
    BY <1>3, InHandIsWork, TotalOfOthers DEF WorkInv
  <2>2. QED
    BY <2>1, NothingDue DEF WorkInv, InHand
<1>5. QED
  BY <1>1, <1>2, <1>4

(* The listener of an event that is stored takes its statements in hand,   *)
(* and no rebuild is under way.                                            *)
LEMMA StoreKeepsRows ==
  ASSUME LogTypeOK, WorkInv, WorkInv', IdentityInv, RowsRight, NEW c \in Client,
         At(c, "append"), NEW e \in BankEvent, e = client[c].event,
         log' = log \o Numbered(<<e>>, Len(log)),
         InHand(c)' = Statements("accounts", e),
         \A d \in Client : d # c => InHand(d)' = InHand(d) /\ client'[d] = client[d],
         client'[c].event = e, accounts' = accounts, told' = told,
         \A d \in Client : ~Rebuilding(d, "accounts")
  PROVE  RowsRight'
<1>1. PICK s : s = Statements("accounts", e)
  OBVIOUS
<1>2. /\ s \in Seq(Work("accounts")) /\ Len(s) \in 1..2
      /\ \A j \in 1..Len(s) : \/ e.type = "BankAccountOpened" /\ s[j] = Upsert(e)
                              \/ s[j].op = "add" /\ Moves(e, s[j].accountId)
      /\ e.type = "BankAccountOpened" => Len(s) = 1 /\ s[1] = Upsert(e)
  BY <1>1, AccountStatementsAre
<1>3. InHand(c) = <<>> /\ \A i, a : ~RowDue(c, i, a)
  <2>1. InHand(c) = <<>>
    BY DEF WorkInv, Phases, PhaseOK, InHand, At, Table
  <2>2. QED
    BY <2>1, EmptySeq DEF RowDue
<1>4. /\ \A a : IsOpen(a)' <=> IsOpen(a) \/ OpenedBy(e, a)
      /\ \A a, u : KeptIn(a, u)' <=> KeptIn(a, u) \/ (OpenedBy(e, a) /\ e.currency = u)
  <2>1. PICK last : last = Len(log) + 1
    OBVIOUS
  <2>2. /\ Len(log) \in Nat /\ Len(log') = last
        /\ \A i : i \in 1..last <=> i \in 1..Len(log) \/ i = last
        /\ \A i \in 1..Len(log) : EventAt(i)' = EventAt(i)
        /\ EventAt(last)' = e
        /\ \A a : IsOpen(a)' <=> IsOpen(a) \/ OpenedBy(e, a)
    BY <2>1, OpenInLonger
  <2>3. ASSUME NEW a, NEW u
        PROVE  KeptIn(a, u)' <=> KeptIn(a, u) \/ (OpenedBy(e, a) /\ e.currency = u)
    <3>1. KeptIn(a, u)' <=>
            \E i \in 1..last : OpenedBy(EventAt(i)', a) /\ EventAt(i)'.currency = u
      BY <2>2 DEF KeptIn, OpenedBy
    <3>2. QED
      BY <2>2, <3>1 DEF KeptIn
  <2>4. QED
    BY <2>2, <2>3
<1>5. \A d \in Client : d # c =>
        \A i, a : RowDue(d, i, a)' <=> RowDue(d, i, a)
  BY DEF RowDue, IsUpsert
<1>6. \A i, a : RowDue(c, i, a)' <=> i \in 1..Len(s) /\ IsUpsert(s[i], a)
  <2>1. InHand(c)' = s
    BY <1>1
  <2>2. QED
    BY <2>1 DEF RowDue, IsUpsert
<1>7. \A a \in Account : ~IsOpen(a) =>
        /\ a \notin told /\ accounts[a] = NoRow
        /\ \A d \in Client : \A i : ~RowDue(d, i, a)
        /\ \A u : DueTotal(a, u) = 0
  BY NotOpenUnknown DEF IdentityInv, RowsRight
<1>8. ASSUME NEW a, NEW i, RowDue(c, i, a)'
      PROVE  i = 1 /\ s[i] = Upsert(e) /\ OpenedBy(e, a)
  <2>1. i \in 1..Len(s) /\ IsUpsert(s[i], a)
    BY <1>6, <1>8
  <2>2. e.type = "BankAccountOpened" /\ s[i] = Upsert(e)
    BY <1>2, <2>1 DEF IsUpsert
  <2>3. i = 1
    <3>1. Len(s) = 1
      BY <1>2, <2>2
    <3>2. QED
      BY <2>1, <3>1
  <2>4. e.accountId = a
    BY <2>1, <2>2, UpsertIsOfAccount DEF IsUpsert
  <2>5. QED
    BY <2>2, <2>3, <2>4 DEF OpenedBy
<1>9. \A a \in Account : OpenedBy(e, a) => ~IsOpen(a)
  BY DEF IdentityInv, OpenAfterAppend
<1>10. ASSUME NEW a \in Account, NEW d \in Client, NEW i \in Nat, RowDue(d, i, a)
       PROVE  a \notin told /\ At(d, "notify")
  <2>1. InHand(d) # <<>>
    BY <1>10, EmptySeq DEF RowDue
  <2>2. At(d, "notify")
    BY <2>1 DEF WorkInv, Phases, PhaseOK, InHand, At, Table, Rebuilding
  <2>3. QED
    BY <1>10, <2>2 DEF RowsRight, NotToldBefore
<1>11. RowsAreOfOpenings'
  BY <1>4 DEF RowsRight, RowsAreOfOpenings, NoRow
<1>12. RowsComeOnce'
  <2>1. ASSUME NEW a \in Account, NEW d \in Client, NEW f \in Client, NEW i \in Nat, NEW j \in Nat,
               RowDue(d, i, a)', RowDue(f, j, a)'
        PROVE  d = f /\ i = j
    <3>1. CASE d = c /\ f = c
      BY <1>8, <2>1, <3>1
    <3>2. CASE d # c /\ f # c
      BY <1>5, <2>1, <3>2 DEF RowsRight, RowsComeOnce
    <3>3. CASE (d = c) # (f = c)
      BY <1>5, <1>7, <1>8, <1>9, <2>1, <3>3
    <3>4. QED
      BY <3>1, <3>2, <3>3
  <2>2. QED
    BY <2>1 DEF RowsComeOnce
<1>13. RowsToCome'
  <2>1. ASSUME NEW a \in Account, NEW d \in Client, NEW i \in Nat, RowDue(d, i, a)',
               NEW v, v = InHand(d)'[i].currency
        PROVE  accounts[a] = NoRow /\ (KeptIn(a, v) \/ (OpenedBy(e, a) /\ e.currency = v))
    <3>1. CASE d = c
      <4>1. OpenedBy(e, a) /\ v = e.currency
        <5>1. OpenedBy(e, a) /\ InHand(d)'[i] = Upsert(e)
          BY <1>1, <1>8, <2>1, <3>1
        <5>2. QED
          BY <2>1, <5>1, UpsertIsOfAccount DEF OpenedBy
      <4>2. QED
        BY <1>7, <1>9, <4>1
    <3>2. CASE d # c
      <4>1. RowDue(d, i, a) /\ v = InHand(d)[i].currency
        BY <1>5, <2>1, <3>2
      <4>2. QED
        BY <4>1 DEF RowsRight, RowsToCome
    <3>3. QED
      BY <3>1, <3>2
  <2>2. ASSUME NEW a \in Account, NEW d \in Client, NEW i \in Nat, RowDue(d, i, a)'
        PROVE  accounts[a] = NoRow /\ KeptIn(a, InHand(d)[i].currency)'
    <3>1. PICK v : v = InHand(d)'[i].currency
      OBVIOUS
    <3>2. accounts[a] = NoRow /\ KeptIn(a, v)'
      BY <1>4, <2>1, <2>2, <3>1
    <3>3. QED
      BY <3>1, <3>2 DEF KeptIn
  <2>3. QED
    BY <2>2 DEF RowsToCome, NoRow
<1>14. NotToldBefore'
  <2>1. ASSUME NEW a \in Account, NEW d \in Client, NEW i \in Nat, RowDue(d, i, a)'
        PROVE  a \notin told /\ OpenedBy(client'[d].event, a)
    <3>1. CASE d = c
      BY <1>7, <1>8, <1>9, <2>1, <3>1
    <3>2. CASE d # c
      <4>1. RowDue(d, i, a) /\ client'[d] = client[d]
        BY <1>5, <2>1, <3>2
      <4>2. QED
        BY <1>10, <4>1 DEF RowsRight, NotToldBefore
    <3>3. QED
      BY <3>1, <3>2
  <2>2. QED
    BY <2>1 DEF NotToldBefore, OpenedBy
<1>15. OpenHaveRows'
  <2>1. ASSUME NEW a \in Account, IsOpen(a)', accounts[a] = NoRow
        PROVE  \E d \in Client : \E i \in Nat : RowDue(d, i, a)'
    <3>1. CASE IsOpen(a)
      <4>1. PICK d \in Client, i \in Nat : RowDue(d, i, a)
        BY <2>1, <3>1 DEF RowsRight, OpenHaveRows
      <4>2. d # c
        BY <1>3, <4>1
      <4>3. QED
        BY <1>5, <4>1, <4>2
    <3>2. CASE OpenedBy(e, a)
      <4>1. Len(s) = 1 /\ IsUpsert(s[1], a)
        BY <1>2, <3>2, UpsertIsOfAccount DEF IsUpsert, OpenedBy
      <4>2. RowDue(c, 1, a)'
        BY <1>6, <4>1
      <4>3. QED
        BY <4>2
    <3>3. QED
      BY <1>4, <2>1, <3>1, <3>2
  <2>2. QED
    BY <2>1 DEF OpenHaveRows, NoRow
<1>16. AddsFollowRows'
  <2>1. ASSUME NEW d \in Client, NEW i \in 1..Len(InHand(d)'), InHand(d)'[i].op = "add",
               accounts[InHand(d)'[i].accountId] = NoRow
        PROVE  \E j \in Nat : j < i /\ RowDue(d, j, InHand(d)[i].accountId)'
    <3>1. CASE d # c
      <4>1. InHand(d)' = InHand(d)
        BY <3>1
      <4>2. PICK j \in Nat : j < i /\ RowDue(d, j, InHand(d)[i].accountId)
        BY <2>1, <4>1 DEF RowsRight, AddsFollowRows
      <4>3. RowDue(d, j, InHand(d)[i].accountId)'
        BY <4>1, <4>2 DEF RowDue, IsUpsert
      <4>4. QED
        BY <4>1, <4>2, <4>3
    <3>2. CASE d = c
      <4>1. InHand(d)' = s /\ i \in 1..Len(s)
        BY <1>1, <2>1, <3>2
      <4>2. PICK a : a = s[i].accountId
        OBVIOUS
      <4>3. a \in Account /\ Moves(e, a)
        <5>1. s[i] \in Work("accounts") /\ s[i].op = "add"
          BY <1>2, <2>1, <4>1, ElementOfSeq
        <5>2. QED
          BY <1>2, <4>1, <4>2, <5>1, WorkOnAccounts DEF Upsert
      <4>4. a \in told
        BY <4>3 DEF IdentityInv, IntentionsAreOnOpen, Intended
      <4>5. IsOpen(a) /\ accounts[a] = NoRow
        BY <2>1, <4>1, <4>2, <4>3, <4>4 DEF IdentityInv, KnownIsOpen
      <4>6. PICK f \in Client, j \in Nat : RowDue(f, j, a)
        BY <4>3, <4>5 DEF RowsRight, OpenHaveRows
      <4>7. QED
        BY <1>10, <4>3, <4>4, <4>6
    <3>3. QED
      BY <3>1, <3>2
  <2>2. QED
    BY <2>1 DEF AddsFollowRows, NoRow
<1>17. BalancesAddUp'
  <2>1. ASSUME NEW a \in Account, NEW u \in Currency, KeptIn(a, u)'
        PROVE  Booked(log', Len(log'), a, u) = accounts[a].balance + DueTotal(a, u)'
    <3>1. Booked(log', Len(log'), a, u) = Booked(log, Len(log), a, u) + Effect(e, a, u)
      BY BookedOfLonger
    <3>2. Booked(log, Len(log), a, u) = accounts[a].balance + DueTotal(a, u)
      <4>1. CASE KeptIn(a, u)
        BY <4>1 DEF RowsRight, BalancesAddUp
      <4>2. CASE OpenedBy(e, a)
        <5>1. ~IsOpen(a)
          BY <1>9, <4>2
        <5>2. accounts[a].balance = 0 /\ DueTotal(a, u) = 0
          BY <1>7, <5>1 DEF NoRow
        <5>3. Booked(log, Len(log), a, u) = 0
          BY <5>1, NothingBooked DEF IdentityInv
        <5>4. QED
          BY <5>2, <5>3
      <4>3. QED
        BY <1>4, <2>1, <4>1, <4>2
    <3>3. /\ DueTotal(a, u) \in Int /\ DueTotal(a, u)' \in Int
          /\ Total(InHand(c), a, u) \in Int /\ Total(s, a, u) \in Int
          /\ DueTotal(a, u)' = (DueTotal(a, u) - Total(InHand(c), a, u)) + Total(s, a, u)
      <4>1. /\ jobs'[c]["accounts"] = s
            /\ \A d \in Client : d # c => jobs'[d]["accounts"] = jobs[d]["accounts"]
        BY <1>1 DEF InHand
      <4>2. QED
        BY <4>1, DueTotalChanges DEF WorkInv, InHand
    <3>4. Total(InHand(c), a, u) = 0
      BY <1>3, TotalOfNone
    <3>5. Total(s, a, u) = Effect(e, a, u)
      <4>1. e.type = "MoneyTransferred" => e.fromAccountId # e.toAccountId
        BY DEF IdentityInv, IntentionsAreOnOpen, Intended
      <4>2. QED
        BY <1>1, <4>1, TotalIsEffect
    <3>6. accounts[a].balance \in Int
      BY DEF WorkInv, RowsTypeOK
    <3>7. QED
      BY <3>1, <3>2, <3>3, <3>4, <3>5, <3>6
  <2>2. QED
    BY <2>1 DEF BalancesAddUp
<1>18. QED
  BY <1>11, <1>12, <1>13, <1>14, <1>15, <1>16, <1>17 DEF RowsRight

(* A rebuild that has the empty list to itself replays the whole log.      *)
LEMMA ReplayKeepsRows ==
  ASSUME LogTypeOK, WorkInv, WorkInv', OpenedOnce, MovesAfterOpening, NEW c \in Client,
         \A d \in Client : InHand(d) = <<>>, accounts = [a \in Account |-> NoRow],
         log' = log, accounts' = accounts, ~At(c, "notify")',
         InHand(c)' = FlattenSeq(History("accounts")),
         \A d \in Client : d # c => InHand(d)' = InHand(d)
  PROVE  RowsRight'
<1>1. PICK h : h = FlattenSeq(History("accounts"))
  OBVIOUS
<1>2. /\ h \in Seq(Work("accounts"))
      /\ \A p \in 1..Len(h) : h[p].op = "upsert" =>
           \E i \in 1..Len(log) : EventAt(i).type = "BankAccountOpened" /\ h[p] = Upsert(EventAt(i))
      /\ \A i \in 1..Len(log) : EventAt(i).type = "BankAccountOpened" =>
           \E p \in 1..Len(h) : h[p] = Upsert(EventAt(i))
      /\ \A a \in Account, p, q \in 1..Len(h) : IsUpsert(h[p], a) /\ IsUpsert(h[q], a) => p = q
      /\ \A p \in 1..Len(h) : h[p].op = "add" =>
           \E q \in 1..Len(h) : q < p /\ IsUpsert(h[q], h[p].accountId)
  BY <1>1, HistoryIsSound DEF HistoryUpTo
<1>3. Len(h) \in Nat /\ \A p \in 1..Len(h) : p \in Nat
  BY <1>2, LenProperties
<1>4. \A a, u : KeptIn(a, u)' <=> KeptIn(a, u)
  BY DEF KeptIn, EventAt
<1>5. /\ \A d \in Client : \A i, a : RowDue(d, i, a)' => d = c
      /\ \A i, a : RowDue(c, i, a)' <=> i \in 1..Len(h) /\ IsUpsert(h[i], a)
  <2>1. InHand(c)' = h
    BY <1>1
  <2>2. \A d \in Client : d # c => Len(InHand(d)') = 0
    BY EmptySeq
  <2>3. QED
    BY <2>1, <2>2 DEF RowDue, IsUpsert
<1>6. RowsAreOfOpenings'
  BY DEF RowsAreOfOpenings, NoRow
<1>7. RowsComeOnce'
  <2>1. ASSUME NEW a \in Account, NEW d \in Client, NEW f \in Client, NEW i \in Nat, NEW j \in Nat,
               RowDue(d, i, a)', RowDue(f, j, a)'
        PROVE  d = f /\ i = j
    BY <1>2, <1>5, <2>1
  <2>2. QED
    BY <2>1 DEF RowsComeOnce
<1>8. RowsToCome'
  <2>1. ASSUME NEW a \in Account, NEW d \in Client, NEW i \in Nat, RowDue(d, i, a)'
        PROVE  d = c /\ i \in 1..Len(h) /\ KeptIn(a, h[i].currency)
    <3>1. d = c /\ i \in 1..Len(h) /\ IsUpsert(h[i], a)
      BY <1>5, <2>1
    <3>2. PICK k \in 1..Len(log) :
            EventAt(k).type = "BankAccountOpened" /\ h[i] = Upsert(EventAt(k))
      BY <1>2, <3>1 DEF IsUpsert
    <3>3. EventAt(k) \in BankEvent
      BY LogHoldsEvents DEF LogTypeOK
    <3>4. OpenedBy(EventAt(k), a) /\ EventAt(k).currency = h[i].currency
      BY <3>1, <3>2, <3>3, UpsertIsOfAccount DEF OpenedBy, IsUpsert
    <3>5. QED
      BY <3>1, <3>4 DEF KeptIn
  <2>2. ASSUME NEW a \in Account, NEW d \in Client, NEW i \in Nat, RowDue(d, i, a)'
        PROVE  accounts[a] = NoRow /\ KeptIn(a, InHand(d)[i].currency)'
    <3>1. KeptIn(a, h[i].currency) /\ InHand(d)'[i] = h[i]
      BY <1>1, <2>1, <2>2
    <3>2. QED
      BY <3>1 DEF KeptIn, EventAt
  <2>3. QED
    BY <2>2 DEF RowsToCome, NoRow
<1>9. NotToldBefore'
  BY <1>5 DEF NotToldBefore, At
<1>10. OpenHaveRows'
  <2>1. ASSUME NEW a \in Account, IsOpen(a)'
        PROVE  \E d \in Client : \E i \in Nat : RowDue(d, i, a)'
    <3>1. PICK k \in 1..Len(log) : OpenedBy(EventAt(k), a)
      BY <2>1 DEF IsOpen, OpenedBy, EventAt
    <3>2. EventAt(k) \in BankEvent
      BY LogHoldsEvents DEF LogTypeOK
    <3>3. PICK p \in 1..Len(h) : h[p] = Upsert(EventAt(k))
      BY <1>2, <3>1 DEF OpenedBy
    <3>4. IsUpsert(h[p], a)
      BY <3>1, <3>2, <3>3, UpsertIsOfAccount DEF OpenedBy, IsUpsert
    <3>5. QED
      BY <1>3, <1>5, <3>4
  <2>2. QED
    BY <2>1 DEF OpenHaveRows
<1>11. AddsFollowRows'
  <2>1. ASSUME NEW d \in Client, NEW i \in 1..Len(InHand(d)'), InHand(d)'[i].op = "add"
        PROVE  \E j \in Nat : j < i /\ RowDue(d, j, InHand(d)[i].accountId)'
    <3>1. d = c
      <4>1. d # c => Len(InHand(d)') = 0
        BY EmptySeq
      <4>2. QED
        BY <2>1, <4>1
    <3>2. InHand(d)' = h
      BY <1>1, <3>1
    <3>3. PICK j \in 1..Len(h) : j < i /\ IsUpsert(h[j], h[i].accountId)
      BY <1>2, <2>1, <3>2
    <3>4. RowDue(d, j, h[i].accountId)'
      BY <1>5, <3>1, <3>3
    <3>5. RowDue(d, j, InHand(d)[i].accountId)'
      BY <3>2, <3>4 DEF RowDue
    <3>6. QED
      BY <1>3, <3>3, <3>5
  <2>2. QED
    BY <2>1 DEF AddsFollowRows
<1>12. BalancesAddUp'
  <2>1. ASSUME NEW a \in Account, NEW u
        PROVE  Booked(log, Len(log), a, u) = accounts[a].balance + DueTotal(a, u)'
    <3>1. \A d \in Client : Total(InHand(d), a, u) = 0
      BY TotalOfNone
    <3>2. DueTotal(a, u) = 0
      BY <3>1, NothingDue DEF WorkInv, InHand
    <3>3. /\ jobs'[c]["accounts"] = h
          /\ \A d \in Client : d # c => jobs'[d]["accounts"] = jobs[d]["accounts"]
      BY <1>1 DEF InHand
    <3>4. /\ DueTotal(a, u)' = (DueTotal(a, u) - Total(InHand(c), a, u)) + Total(h, a, u)
          /\ Total(h, a, u) \in Int
      BY <3>3, DueTotalChanges DEF WorkInv, InHand
    <3>5. Total(h, a, u) = Booked(log, Len(log), a, u)
      BY <1>1, HistoryTotal
    <3>6. accounts[a].balance = 0
      BY DEF NoRow
    <3>7. QED
      BY <3>1, <3>2, <3>4, <3>5, <3>6
  <2>2. QED
    BY <2>1 DEF BalancesAddUp
<1>13. QED
  BY <1>6, <1>7, <1>8, <1>9, <1>10, <1>11, <1>12 DEF RowsRight

(* Every action keeps the rows right.                                      *)
LEMMA StepKeepsRows ==
  ASSUME BankInv, WorkInv, RebuildInv, IdentityInv, RowsInv, [Next]_vars
  PROVE  RowsInv'
<1> DEFINE t == "accounts"
<1>1. /\ LogTypeOK /\ WorkInv' /\ JobsTypeOK /\ RowsTypeOK /\ t \in Table /\ IdentityInv
      /\ \A c \in Client : PhaseOK(c)
  BY StepKeepsWork DEF BankInv, WorkInv, Phases, Table
<1>2. ASSUME NEW c \in Client, OpenAccount(c) \/ MoneyCommand(c) PROVE RowsInv'
  <2>1. PICK event \in BankEvent : Decide(c, event) /\ At(c, "idle")
    BY <1>1, <1>2, CommandDecides
  <2>2. /\ \A d \in Client : d # c => client'[d] = client[d]
        /\ client'[c].pc = "append"
        /\ UNCHANGED <<log, jobs, accounts, told, spoiled>>
    BY <1>1, <2>1 DEF Decide, tables, LogTypeOK
  <2>3. Settled(t)' => Settled(t)
    BY <2>1, <2>2 DEF Settled, At
  <2>4. /\ \A d \in Client : InHand(d)' = InHand(d)
        /\ \A d \in Client : At(d, "notify")' /\ InHand(d) # <<>> => client'[d] = client[d]
    BY <2>2 DEF InHand, At
  <2>5. QED
    BY <2>2, <2>3, <2>4, SameRows
<1>3. ASSUME NEW c \in Client, AppendEvent(c) \/ AnswerLost(c) PROVE RowsInv'
  <2> SUFFICES ASSUME Settled(t)' PROVE RowsRight'
    BY DEF RowsInv
  <2>1. PICK e \in BankEvent : e = client[c].event
    BY <1>1, <1>3 DEF AppendEvent, AnswerLost, PhaseOK, At
  <2>2. Statements(t, e) # <<>>
    <3>1. PICK s : s = Statements(t, e)
      OBVIOUS
    <3>2. Len(s) \in 1..2
      BY <2>1, <3>1, AccountStatementsAre
    <3>3. QED
      BY <3>1, <3>2, EmptySeq
  <2>3. AppendEvent(c)
    <3>1. ASSUME AnswerLost(c) PROVE t \in spoiled'
      BY <1>1, <2>1, <2>2, <3>1 DEF AnswerLost
    <3>2. QED
      BY <1>3, <3>1 DEF Settled
  <2>4. /\ At(c, "append") /\ log' = log \o Numbered(<<e>>, Len(log))
        /\ \A d \in Client : d # c => client'[d] = client[d]
        /\ client'[c].event = e /\ client'[c].pc = "notify"
        /\ accounts' = accounts /\ told' = told
        /\ jobs'[c][t] = Statements(t, e)
        /\ \A d \in Client : d # c => jobs'[d] = jobs[d]
    BY <1>1, <2>1, <2>3 DEF AppendEvent, LogTypeOK, JobsTypeOK
  <2>5. t \notin spoiled /\ \A d \in Client : ~Rebuilding(d, t)
    <3>1. spoiled' = spoiled \cup {u \in Table : /\ Statements(u, e) # <<>>
                                                 /\ \E d \in Client : Rebuilding(d, u)}
      BY <2>1, <2>3 DEF AppendEvent
    <3>2. t \notin spoiled'
      BY DEF Settled
    <3>3. QED
      BY <1>1, <2>2, <3>1, <3>2
  <2>6. Settled(t)
    BY <2>5 DEF Settled, At, Rebuilding
  <2>7. RowsRight
    BY <2>6 DEF RowsInv
  <2>8. /\ InHand(c)' = Statements(t, e)
        /\ \A d \in Client : d # c => InHand(d)' = InHand(d) /\ client'[d] = client[d]
    BY <2>4 DEF InHand
  <2>9. QED
    BY <1>1, <2>1, <2>4, <2>5, <2>7, <2>8, StoreKeepsRows
<1>4. ASSUME NEW c \in Client, AppendFails(c) \/ RebuildFails(c) PROVE RowsInv'
  <2>1. /\ client'[c] = Idle /\ \A d \in Client : d # c => client'[d] = client[d]
        /\ UNCHANGED <<log, jobs, accounts, told>>
    BY <1>1, <1>4 DEF AppendFails, RebuildFails, tables, LogTypeOK
  <2>2. Settled(t)' => Settled(t)
    BY <1>1, <1>4, <2>1 DEF AppendFails, RebuildFails, tables, Settled, At
  <2>3. /\ \A d \in Client : InHand(d)' = InHand(d)
        /\ \A d \in Client : At(d, "notify")' /\ InHand(d) # <<>> => client'[d] = client[d]
    BY <2>1 DEF InHand, At, Idle
  <2>4. QED
    BY <2>1, <2>2, <2>3, SameRows
<1>5. ASSUME NEW c \in Client, Return(c) PROVE RowsInv'
  <2>1. /\ client'[c] = Idle /\ \A d \in Client : d # c => client'[d] = client[d]
        /\ UNCHANGED <<log, accounts, jobs, spoiled>>
        /\ InHand(c) = <<>>
        /\ told' = IF client[c].event.type = "BankAccountOpened"
                   THEN told \cup {client[c].event.accountId} ELSE told
        /\ client[c].pc \in {"notify", "replay"}
    BY <1>1, <1>5, NoWork DEF Return, LogTypeOK, InHand
  <2> SUFFICES ASSUME Settled(t)' PROVE RowsInv'
    BY DEF RowsInv
  <2>2. Settled(t)
    BY <2>1 DEF Settled, At
  <2>3. /\ \A d \in Client : InHand(d)' = InHand(d)
        /\ \A d \in Client : At(d, "notify")' /\ InHand(d) # <<>> => client'[d] = client[d]
    BY <2>1 DEF InHand, At, Idle
  <2>4. ASSUME NEW a \in told' \ told, NEW d \in Client, NEW i \in Nat, RowDue(d, i, a),
               At(d, "notify")
        PROVE  FALSE
    <3>1. OpenedBy(client[c].event, a)
      BY <2>1, <2>4 DEF OpenedBy
    <3>2. a \in Account
      <4>1. client[c].event \in BankEvent
        BY <1>1, <2>1, <3>1 DEF PhaseOK, OpenedBy, NoEvent
      <4>2. QED
        BY <3>1, <4>1, EventShapes DEF OpenedBy
    <3>3. OpenedBy(client[d].event, a)
      BY <2>2, <2>4, <3>2 DEF RowsInv, RowsRight, NotToldBefore
    <3>4. d = c
      BY <3>1, <3>2, <3>3 DEF IdentityInv, DrawnOnce
    <3>5. QED
      BY <2>1, <2>4, <3>4, EmptySeq DEF RowDue
  <2>5. QED
    BY <2>1, <2>2, <2>3, <2>4, SameRows
<1>6. ASSUME NEW c \in Client, Crash(c) PROVE RowsInv'
  <2>1. /\ client'[c] = Idle /\ \A d \in Client : d # c => client'[d] = client[d]
        /\ UNCHANGED <<log, accounts, told>>
        /\ \A d \in Client : d # c => jobs'[d] = jobs[d]
        /\ jobs'[c][t] = <<>>
    BY <1>1, <1>6, NoWork DEF Crash, LogTypeOK, JobsTypeOK
  <2>2. CASE jobs[c][t] # <<>> \/ Rebuilding(c, t)
    <3>1. t \in spoiled'
      BY <1>1, <1>6, <2>2 DEF Crash
    <3>2. QED
      BY <3>1 DEF RowsInv, Settled
  <2>3. CASE jobs[c][t] = <<>> /\ ~Rebuilding(c, t)
    <3>1. Settled(t)' => Settled(t)
      BY <1>1, <1>6, <2>1, <2>3 DEF Crash, Settled, At, Rebuilding
    <3>2. /\ \A d \in Client : InHand(d)' = InHand(d)
          /\ \A d \in Client : At(d, "notify")' /\ InHand(d) # <<>> => client'[d] = client[d]
      BY <2>1, <2>3 DEF InHand, At, Idle
    <3>3. QED
      BY <2>1, <3>1, <3>2, SameRows
  <2>4. QED
    BY <2>2, <2>3
<1>7. ASSUME NEW c \in Client, NEW u \in Table, Clear(c, u) PROVE RowsInv'
  <2>1. /\ client'[c].pc = "cleared" /\ client'[c].table = u /\ At(c, "idle")
        /\ \A d \in Client : d # c => client'[d] = client[d]
        /\ UNCHANGED <<log, jobs, told>>
    BY <1>1, <1>7 DEF Clear, LogTypeOK
  <2>2. CASE u = t
    <3>1. ~Settled(t)'
      BY <2>1, <2>2 DEF Settled, At
    <3>2. QED
      BY <3>1 DEF RowsInv
  <2>3. CASE u # t
    <3>1. accounts' = accounts /\ (t \in spoiled => t \in spoiled')
      BY <1>7, <2>3 DEF Clear, Table
    <3>2. Settled(t)' => Settled(t)
      BY <2>1, <3>1 DEF Settled, At
    <3>3. /\ \A d \in Client : InHand(d)' = InHand(d)
          /\ \A d \in Client : At(d, "notify")' /\ InHand(d) # <<>> => client'[d] = client[d]
      BY <2>1 DEF InHand, At
    <3>4. QED
      BY <2>1, <3>1, <3>2, <3>3, SameRows
  <2>4. QED
    BY <2>2, <2>3
<1>8. ASSUME NEW c \in Client, ReadHistory(c) PROVE RowsInv'
  <2> DEFINE u == client[c].table
             replayed == FlattenSeq(History(u))
  <2>1. /\ u \in Table /\ At(c, "cleared") /\ \A v \in Table : jobs[c][v] = <<>>
    BY <1>1, <1>8 DEF ReadHistory, PhaseOK, At
  <2>2. /\ client'[c].pc = "replay"
        /\ \A d \in Client : d # c => client'[d] = client[d]
        /\ UNCHANGED <<log, accounts, told, spoiled>>
        /\ jobs' = [jobs EXCEPT ![c][u] = replayed]
    BY <1>1, <1>8 DEF ReadHistory, History, LogTypeOK, tables
  <2> HIDE DEF replayed
  <2>3. /\ jobs'[c][u] = replayed
        /\ \A d \in Client : d # c => jobs'[d] = jobs[d]
        /\ \A v \in Table : v # u => jobs'[c][v] = jobs[c][v]
    BY <1>1, <2>1, <2>2 DEF JobsTypeOK
  <2>4. CASE u # t
    <3>1. Settled(t)' => Settled(t)
      BY <2>2, <2>4 DEF Settled, At
    <3>2. /\ \A d \in Client : InHand(d)' = InHand(d)
          /\ \A d \in Client : At(d, "notify")' /\ InHand(d) # <<>> => client'[d] = client[d]
      BY <1>1, <2>2, <2>3, <2>4 DEF InHand, At
    <3>3. QED
      BY <2>2, <3>1, <3>2, SameRows
  <2>5. CASE u = t
    <3> SUFFICES ASSUME Settled(t)' PROVE RowsRight'
      BY DEF RowsInv
    <3>1. t \in Table \ spoiled /\ Rebuilding(c, t)
      BY <1>1, <2>1, <2>2, <2>5 DEF Settled, Rebuilding, At
    <3>2. accounts = [a \in Account |-> NoRow]
      BY <2>1, <2>5, <3>1 DEF RebuildInv, EmptiedFor
    <3>3. \A d \in Client : InHand(d) = <<>>
      BY <1>1, <2>1, <3>1 DEF RebuildInv, AloneOn, InHand
    <3>4. /\ InHand(c)' = FlattenSeq(History(t))
          /\ \A d \in Client : d # c => InHand(d)' = InHand(d)
      BY <2>3, <2>5 DEF InHand, replayed
    <3>5. ~At(c, "notify")' /\ OpenedOnce /\ MovesAfterOpening
      BY <1>1, <2>2 DEF At, IdentityInv
    <3>6. QED
      BY <1>1, <2>2, <3>2, <3>3, <3>4, <3>5, ReplayKeepsRows
  <2>6. QED
    BY <2>4, <2>5
<1>9. ASSUME NEW c \in Client, NEW u \in Table, RunStatement(c, u) PROVE RowsInv'
  <2>1. /\ jobs[c][u] # <<>> /\ UNCHANGED <<log, client, spoiled>>
        /\ Execute(Head(jobs[c][u]))
        /\ told' = told \cup Listed(accounts')
        /\ jobs'[c][u] = Tail(jobs[c][u])
        /\ \A d \in Client : d # c => jobs'[d] = jobs[d]
        /\ \A v \in Table : v # u => jobs'[c][v] = jobs[c][v]
    BY <1>1, <1>9 DEF RunStatement, JobsTypeOK
  <2> SUFFICES ASSUME Settled(t)' PROVE RowsRight'
    BY DEF RowsInv
  <2>2. Settled(t) /\ RowsRight
    BY <2>1 DEF Settled, At, RowsInv
  <2>3. CASE u # t
    <3>1. accounts' = accounts
      <4>1. Head(jobs[c][u]) \in Work(u)
        BY <1>1, <2>1, HeadTailProperties DEF JobsTypeOK
      <4>2. Head(jobs[c][u]).op = "count"
        BY <2>3, <4>1 DEF Work, Table
      <4>3. QED
        BY <2>1, <4>2 DEF Execute
    <3>2. /\ \A d \in Client : InHand(d)' = InHand(d)
          /\ \A d \in Client : At(d, "notify")' /\ InHand(d) # <<>> => client'[d] = client[d]
      BY <1>1, <2>1, <2>3 DEF InHand
    <3>3. \A a \in told' \ told, d \in Client, i \in Nat : RowDue(d, i, a) => ~At(d, "notify")
      <4>1. \A a \in told' \ told : a \in Account /\ accounts[a] # NoRow
        BY <2>1, <3>1 DEF Listed
      <4>2. QED
        BY <2>2, <4>1 DEF RowsRight, RowsToCome
    <3>4. RowsInv'
      BY <2>1, <2>2, <3>1, <3>2, <3>3, SameRows
    <3>5. QED
      BY <3>4 DEF RowsInv
  <2>4. CASE u = t
    <3>1. /\ InHand(c) # <<>> /\ Execute(Head(InHand(c))) /\ InHand(c)' = Tail(InHand(c))
          /\ \A d \in Client : d # c => InHand(d)' = InHand(d)
      BY <2>1, <2>4 DEF InHand
    <3>2. OpenedOnce
      BY <1>1 DEF IdentityInv
    <3>3. QED
      BY <1>1, <2>1, <2>2, <3>1, <3>2, RunKeepsRows
  <2>5. QED
    BY <2>3, <2>4
<1>10. ASSUME NEW c \in Client, NEW u \in Table, StatementFails(c, u) PROVE RowsInv'
  <2>1. /\ UNCHANGED <<log, client, accounts, told>> /\ spoiled' = spoiled \cup {u}
        /\ \A d \in Client, v \in Table : v # u => jobs'[d][v] = jobs[d][v]
    BY <1>1, <1>10 DEF StatementFails, JobsTypeOK
  <2>2. CASE u = t
    BY <2>1, <2>2 DEF RowsInv, Settled
  <2>3. CASE u # t
    <3>1. Settled(t)' => Settled(t)
      BY <2>1 DEF Settled, At
    <3>2. \A d \in Client : InHand(d)' = InHand(d)
      BY <1>1, <2>1, <2>3 DEF InHand
    <3>3. QED
      BY <2>1, <3>1, <3>2, SameRows
  <2>4. QED
    BY <2>2, <2>3
<1>11. CASE UNCHANGED vars
  <2>1. Settled(t)' => Settled(t)
    BY <1>11 DEF vars, Settled, At
  <2>2. \A d \in Client : InHand(d)' = InHand(d)
    BY <1>11 DEF vars, InHand
  <2>3. QED
    BY <1>11, <2>1, <2>2, SameRows DEF vars
<1>12. QED
  BY <1>2, <1>3, <1>4, <1>5, <1>6, <1>7, <1>8, <1>9, <1>10, <1>11 DEF Next

(* The rows of the list, and what is still due on them, are the accounts   *)
(* of the log with their balances, for live handlers and for rebuilds that *)
(* nothing overlapped.                                                     *)
THEOREM RowsSafety == Spec => []RowsInv
<1>1. Init => RowsInv
  <2> SUFFICES ASSUME Init PROVE RowsInv
    OBVIOUS
  <2>1. Len(log) = 0
    BY EmptySeq DEF Init
  <2>2. \A c \in Client : Len(InHand(c)) = 0
    BY NoWork, EmptySeq DEF Init, Table, InHand
  <2>3. \A a, u : ~IsOpen(a) /\ ~KeptIn(a, u)
    BY <2>1 DEF IsOpen, KeptIn
  <2>4. \A c \in Client : \A i, a : ~RowDue(c, i, a)
    BY <2>2 DEF RowDue
  <2>5. RowsAreOfOpenings
    BY DEF Init, RowsAreOfOpenings
  <2>6. RowsComeOnce /\ RowsToCome /\ NotToldBefore /\ OpenHaveRows /\ BalancesAddUp
    BY <2>3, <2>4 DEF RowsComeOnce, RowsToCome, NotToldBefore, OpenHaveRows, BalancesAddUp
  <2>7. AddsFollowRows
    BY <2>2 DEF AddsFollowRows
  <2>8. QED
    BY <2>5, <2>6, <2>7 DEF RowsInv, RowsRight
<1>2. BankInv /\ WorkInv /\ RebuildInv /\ IdentityInv /\ RowsInv /\ [Next]_vars => RowsInv'
  BY StepKeepsRows
<1>3. QED
  BY <1>1, <1>2, BankSafety, WorkSafety, RebuildSafety, IdentitySafety, PTL DEF Spec

-----------------------------------------------------------------------------
(* What each statement due adds to an account.                             *)
DueWeights(a, u) == [p \in Due("accounts") |-> Weight(Job("accounts", p), a, u)]

(* The positions of a client's work in hand.                               *)
PositionsOf(c) == {<<c, i>> : i \in 1..Len(InHand(c))}

(* They are finitely many, and their weights those of the work.            *)
LEMMA WeightsOfClient ==
  ASSUME JobsTypeOK, NEW c \in Client, NEW a, NEW u
  PROVE  /\ IsFiniteSet(PositionsOf(c)) /\ PositionsOf(c) \subseteq Due("accounts")
         /\ \A p \in PositionsOf(c) : DueWeights(a, u)[p] \in Int
         /\ SumFunctionOnSet(DueWeights(a, u), PositionsOf(c)) = Totals(a, u)[c]
<1> DEFINE s == InHand(c)
           numbers == 1..Len(s)
           b == [i \in numbers |-> <<c, i>>]
           f == Weights(s, a, u)
           g == DueWeights(a, u)
<1>1. s \in Seq(Work("accounts"))
  BY InHandIsWork
<1>2. /\ IsFiniteSet(numbers)
      /\ \A i \in numbers : f[i] = Weight(s[i], a, u) /\ f[i] \in Int
  <2> HIDE DEF s
  <2>1. QED
    BY <1>1, WeightsAreNumbers
<1>3. \A i \in numbers : b[i] = <<c, i>> /\ b[i] \in Due("accounts") /\ Job("accounts", b[i]) = s[i]
  BY DueMeans DEF Job, InHand
<1>4. \A i \in numbers : g[b[i]] = Weight(s[i], a, u)
  BY <1>3 DEF DueWeights
<1>5. \A i, j \in numbers : b[i] = b[j] => i = j
  OBVIOUS
<1>6. PositionsOf(c) = {b[i] : i \in numbers}
  BY DEF PositionsOf
<1>7. Total(s, a, u) = SumFunctionOnSet(f, numbers) /\ Totals(a, u)[c] = Total(s, a, u)
  BY DEF Total, Totals, InHand
<1>8. IsFiniteSet(PositionsOf(c))
  <2>1. b \in Surjection(numbers, PositionsOf(c))
    BY <1>6 DEF Surjection
  <2>2. QED
    BY <1>2, <2>1, FS_Surjection
<1> HIDE DEF s, numbers, b, f, g
<1>9. \A i \in numbers : g[b[i]] = f[i] /\ f[i] \in Int
  BY <1>2, <1>4
<1>10. SumFunctionOnSet(g, {b[i] : i \in numbers}) = SumFunctionOnSet(f, numbers)
  BY <1>2, <1>5, <1>9, SumRenamed, SMTT(60)
<1>11. PositionsOf(c) \subseteq Due("accounts") /\ \A p \in PositionsOf(c) : g[p] \in Int
  BY <1>3, <1>6, <1>9
<1>12. QED
  BY <1>6, <1>7, <1>8, <1>10, <1>11 DEF g

(* The statements due, taken one by one or client by client, add up to the *)
(* same.                                                                   *)
LEMMA DueTotalIsASum ==
  ASSUME JobsTypeOK, NEW a, NEW u
  PROVE  DueTotal(a, u) = SumFunctionOnSet(DueWeights(a, u), Due("accounts"))
<1> DEFINE f == Totals(a, u)
           w == DueWeights(a, u)
           Of(s) == UNION {PositionsOf(c) : c \in s}
           G == {s \in SUBSET Client : SumFunctionOnSet(w, Of(s)) = SumFunctionOnSet(f, s)}
<1>1. /\ IsFiniteSet(Client) /\ IsFiniteSet(Due("accounts"))
      /\ \A c \in Client : f[c] \in Int
  BY TotalsAreNumbers, DueIsFinite DEF Table
<1>2. \A c \in Client : /\ IsFiniteSet(PositionsOf(c)) /\ PositionsOf(c) \subseteq Due("accounts")
                        /\ \A p \in PositionsOf(c) : w[p] \in Int
                        /\ SumFunctionOnSet(w, PositionsOf(c)) = f[c]
  BY WeightsOfClient
<1> HIDE DEF f, w
<1>3. {} \in G
  <2>1. Of({}) = {}
    OBVIOUS
  <2>2. SumFunctionOnSet(w, {}) = 0 /\ SumFunctionOnSet(f, {}) = 0
    BY SumOfNone
  <2> HIDE DEF Of
  <2>3. QED
    BY <2>1, <2>2
<1>4. ASSUME NEW s \in SUBSET Client, NEW c \in Client \ s, s \in G PROVE s \cup {c} \in G
  <2> DEFINE old == Of(s)
             new == PositionsOf(c)
  <2>1. Of(s \cup {c}) = old \cup new
    OBVIOUS
  <2>2. old \cap new = {}
    BY <1>4 DEF PositionsOf
  <2>3. old \subseteq Due("accounts") /\ \A p \in old : w[p] \in Int
    BY <1>2
  <2>4. IsFiniteSet(old) /\ IsFiniteSet(s)
    BY <1>1, <2>3, FS_Subset
  <2>5. SumFunctionOnSet(w, old) = SumFunctionOnSet(f, s)
    BY <1>4
  <2> HIDE DEF Of, old
  <2>6. /\ IsFiniteSet(new) /\ \A p \in old \cup new : w[p] \in Int
        /\ SumFunctionOnSet(w, new) = f[c]
    BY <1>2, <2>3
  <2> HIDE DEF new
  <2>7. SumFunctionOnSet(w, old \cup new) = SumFunctionOnSet(w, old) + SumFunctionOnSet(w, new)
    BY <2>2, <2>4, <2>6, SumOfBoth
  <2>8. c \notin s /\ \A x \in s \cup {c} : f[x] \in Int
    BY <1>1, <1>4
  <2>9. SumFunctionOnSet(f, s \cup {c}) = f[c] + SumFunctionOnSet(f, s)
    BY <2>4, <2>8, SumWithOneMore
  <2>10. SumFunctionOnSet(f, s) \in Int /\ f[c] \in Int
    BY <1>1, <2>4, <2>8, SumFrom
  <2>11. SumFunctionOnSet(w, Of(s \cup {c})) = SumFunctionOnSet(f, s \cup {c})
    <3>1. SumFunctionOnSet(w, old \cup new) = SumFunctionOnSet(f, s) + f[c]
      BY <2>5, <2>6, <2>7
    <3>2. SumFunctionOnSet(f, s) + f[c] = f[c] + SumFunctionOnSet(f, s)
      BY <2>10
    <3>3. QED
      BY <2>1, <2>9, <3>1, <3>2
  <2>12. QED
    BY <2>11
<1>5. Client \in G
  <2> HIDE DEF G
  <2>1. QED
    BY <1>1, <1>3, <1>4, AllSubsets
<1>6. Of(Client) = Due("accounts")
  BY DEF PositionsOf, Due, InHand
<1>7. QED
  BY <1>5, <1>6 DEF DueTotal, f, w

(* The amounts of statements, summed up as a function of them.             *)
LEMMA AmountsAreASum ==
  ASSUME NEW D
  PROVE  LET amount(p) == Job("accounts", p).amount
         IN  MapThenSumSet(amount, D) =
               SumFunctionOnSet([p \in D |-> Job("accounts", p).amount], D)
BY Zenon DEF MapThenSumSet, MapThenFoldSet, SumFunctionOnSet, FoldFunctionOnSet

(* What the statements due in the currency of an account add to it.        *)
LEMMA DueAmounts ==
  ASSUME JobsTypeOK, NEW a, NEW u,
         NEW D, D = {p \in Due("accounts") : /\ Job("accounts", p).accountId = a
                                             /\ Job("accounts", p).currency = u}
  PROVE  SumFunctionOnSet([p \in D |-> Job("accounts", p).amount], D) = DueTotal(a, u)
<1> DEFINE all == Due("accounts")
           w == DueWeights(a, u)
           g == [p \in D |-> Job("accounts", p).amount]
<1>1. IsFiniteSet(all) /\ D \in SUBSET all
  BY DueIsFinite DEF Table
<1>2. ASSUME NEW p \in all PROVE Job("accounts", p).amount \in Int
  <2>1. PICK c \in Client : \E i \in 1..Len(jobs[c]["accounts"]) : p = <<c, i>>
    BY DueMeans
  <2>2. PICK i \in 1..Len(jobs[c]["accounts"]) : p = <<c, i>>
    BY <2>1
  <2>3. Job("accounts", p) = InHand(c)[i]
    BY <2>2 DEF Job, InHand
  <2>4. QED
    BY <2>3, InHandIsWork DEF InHand
<1>3. \A p \in D : g[p] \in Int /\ w[p] = g[p]
  BY <1>1, <1>2 DEF DueWeights, Weight
<1>4. \A p \in all \ D : w[p] = 0
  BY DEF DueWeights, Weight
<1>5. DueTotal(a, u) = SumFunctionOnSet(w, all)
  BY DueTotalIsASum
<1>6. IsFiniteSet(D)
  BY <1>1, FS_Subset
<1> HIDE DEF all, w, g
<1>7. \A p \in D : w[p] \in Int
  BY <1>3
<1>8. SumFunctionOnSet(w, all) = SumFunctionOnSet(w, D)
  BY <1>1, <1>4, <1>7, SumOfTheRest
<1>9. SumFunctionOnSet(w, D) = SumFunctionOnSet(g, D)
  BY <1>3, <1>6, SumOfSame
<1>10. QED
  BY <1>5, <1>8, <1>9 DEF g

(* get-account folds what the whole log has of the account.                *)
LEMMA AccountSeesAll ==
  ASSUME LogTypeOK, NEW a \in Account
  PROVE  /\ Openings(Seen(AccountQuery[a]), a) = Openings(AllRecords, a)
         /\ Balance(Seen(AccountQuery[a]), a) = Balance(AllRecords, a)
<1> DEFINE query == AccountQuery[a]
<1>1. /\ log \in Seq(EventRecord)
      /\ \A i \in 1..Len(log) : EventAt(i) \in BankEvent /\ log[i].sequenceNumber = i /\ i > 0
  BY LogHoldsEvents, LenProperties DEF LogTypeOK
<1>2. query.min = 0
  BY DEF AccountQuery, Query
<1>3. ASSUME NEW i \in 1..Len(log), ~Matches(query, log[i])
      PROVE  /\ \A u : Effect(EventAt(i), a, u) = 0
             /\ EventAt(i).type = "BankAccountOpened" => EventAt(i).accountId # a
  <2>1. EventAt(i) \notin query.types
    BY <1>1, <1>2, <1>3 DEF Matches, EventAt
  <2>2. ~Concerns(EventAt(i), "accountId", {a})
    BY <1>1, <2>1 DEF AccountQuery, Query
  <2>3. QED
    BY <1>1, <2>1, <2>2, NoEffectOutside, EventShapes DEF Concerns
<1> HIDE DEF query
<1>4. /\ Openings(AllRecords, a) = Openings(Seen(query), a)
      /\ Balance(AllRecords, a) = Balance(Seen(query), a)
  BY <1>1, <1>3, BalanceOfSeen
<1>5. QED
  BY <1>4 DEF query

(* An account is open in a currency, or get-account does not find it.      *)
LEMMA AccountIsFound ==
  ASSUME LogTypeOK, NEW a \in Account
  PROVE  /\ IsOpen(a) => /\ Openings(AllRecords, a) # {}
                         /\ KeptIn(a, Opening(AllRecords, a).currency)
         /\ ~IsOpen(a) => Openings(AllRecords, a) = {}
<1>1. \A e : e \in Openings(AllRecords, a) <=>
        \E i \in 1..Len(log) : e = EventAt(i) /\ OpenedBy(e, a)
  BY DEF Openings, OfKind, AllRecords, EventAt, OpenedBy
<1>2. Openings(AllRecords, a) # {} => Opening(AllRecords, a) \in Openings(AllRecords, a)
  BY DEF Opening
<1>3. QED
  BY <1>1, <1>2 DEF IsOpen, KeptIn

(* A client that reads its account from the list finds it, with the        *)
(* balance and the currency that get-account folds from the log, but for   *)
(* what statements of handlers that have not answered yet will add: list-  *)
(* accounts and get-account tell the same story (list-                     *)
(* accounts/projector.ts, get-account/core.ts).                            *)
THEOREM ListedBalancesStayRight == Spec => []ListedBalancesAreRight
<1>1. BankInv /\ WorkInv /\ IdentityInv /\ RowsInv => ListedBalancesAreRight
  <2> SUFFICES ASSUME BankInv, WorkInv, IdentityInv, RowsInv, Settled("accounts"),
                      NEW a \in Account
               PROVE  LET state     == AccountState(Seen(AccountQuery[a]), a)
                          statement(p) == Job("accounts", p)
                          amount(p) == statement(p).amount
                          due == {p \in Due("accounts") : statement(p).accountId = a}
                      IN  IF \E p \in due : statement(p).op = "upsert"
                          THEN accounts[a] = NoRow
                          ELSE /\ accounts[a].currency = state.currency
                               /\ state.balance = accounts[a].balance +
                                    MapThenSumSet(amount,
                                      {p \in due : statement(p).currency = state.currency})
    BY DEF ListedBalancesAreRight
  <2> DEFINE state     == AccountState(Seen(AccountQuery[a]), a)
             statement(p) == Job("accounts", p)
             amount(p) == statement(p).amount
             due == {p \in Due("accounts") : statement(p).accountId = a}
             counted == {p \in due : statement(p).currency = state.currency}
  <2>1. LogTypeOK /\ JobsTypeOK /\ RowsRight
    BY DEF BankInv, WorkInv, RowsInv
  <2>2. \A p \in Due("accounts") : \E c \in Client, i \in Nat :
          /\ i \in 1..Len(InHand(c)) /\ statement(p) = InHand(c)[i]
          /\ statement(p).currency \in Currency
    <3>1. ASSUME NEW p \in Due("accounts")
          PROVE  \E c \in Client, i \in Nat :
                   /\ i \in 1..Len(InHand(c)) /\ statement(p) = InHand(c)[i]
                   /\ statement(p).currency \in Currency
      <4>1. PICK c \in Client : \E i \in 1..Len(jobs[c]["accounts"]) : p = <<c, i>>
        BY DueMeans
      <4>2. PICK i \in 1..Len(jobs[c]["accounts"]) : p = <<c, i>>
        BY <4>1
      <4>3. i \in 1..Len(InHand(c)) /\ statement(p) = InHand(c)[i]
        BY <4>2 DEF Job, InHand
      <4>4. i \in Nat /\ InHand(c)[i].currency \in Currency
        BY <2>1, <4>3, InHandIsWork
      <4>5. QED
        BY <4>3, <4>4
    <3>2. QED
      BY <3>1
  <2>3. ASSUME NEW p \in due, statement(p).op = "upsert" PROVE accounts[a] = NoRow
    <3>1. PICK c \in Client, i \in Nat : i \in 1..Len(InHand(c)) /\ statement(p) = InHand(c)[i]
      BY <2>2
    <3>2. RowDue(c, i, a)
      BY <2>3, <3>1 DEF RowDue, IsUpsert
    <3>3. QED
      BY <2>1, <3>2 DEF RowsRight, RowsToCome
  <2>4. ASSUME ~ \E p \in due : statement(p).op = "upsert"
        PROVE  /\ accounts[a].currency = state.currency
               /\ state.balance = accounts[a].balance + MapThenSumSet(amount, counted)
    <3>1. MapThenSumSet(amount, counted) =
            SumFunctionOnSet([p \in counted |-> Job("accounts", p).amount], counted)
      BY AmountsAreASum, Zenon
    <3>2. CASE ~IsOpen(a)
      <4>1. state = NoRow
        BY <2>1, <3>2, AccountIsFound, AccountSeesAll DEF AccountState
      <4>2. accounts[a] = NoRow
        BY <3>2 DEF IdentityInv, KnownIsOpen
      <4>3. counted = {}
        <5>1. "none" \notin Currency /\ state.currency = "none"
          BY <4>1, BankAssumption DEF NoRow
        <5>2. QED
          BY <2>2, <5>1
      <4>4. SumFunctionOnSet([p \in counted |-> Job("accounts", p).amount], counted) = 0
        BY <4>3, SumOfNone
      <4>5. NoRow.balance = 0
        BY DEF NoRow
      <4> HIDE DEF state, counted
      <4>6. QED
        BY <3>1, <4>1, <4>2, <4>4, <4>5
    <3>3. CASE IsOpen(a)
      <4> DEFINE u == Opening(AllRecords, a).currency
      <4>1. Openings(AllRecords, a) # {} /\ KeptIn(a, u)
        BY <2>1, <3>3, AccountIsFound
      <4>2. Opening(Seen(AccountQuery[a]), a) = Opening(AllRecords, a)
        BY <2>1, AccountSeesAll DEF Opening
      <4>3. state.currency = u /\ state.balance = Balance(AllRecords, a)
        BY <2>1, <4>1, <4>2, AccountSeesAll DEF AccountState
      <4>4. Balance(AllRecords, a) = Booked(log, Len(log), a, u)
        BY <2>1, BookedIsBalance
      <4> HIDE DEF u
      <4>5. u \in Currency /\ \A v : KeptIn(a, v) => v = u
        BY <2>1, <4>1, KeptOnce DEF IdentityInv
      <4>6. Booked(log, Len(log), a, u) = accounts[a].balance + DueTotal(a, u)
        BY <2>1, <4>1, <4>5 DEF RowsRight, BalancesAddUp
      <4>7. accounts[a] # NoRow
        <5>1. ASSUME accounts[a] = NoRow PROVE FALSE
          <6>1. PICK c \in Client, i \in Nat : RowDue(c, i, a)
            BY <2>1, <3>3, <5>1 DEF RowsRight, OpenHaveRows
          <6>2. <<c, i>> \in Due("accounts") /\ statement(<<c, i>>) = InHand(c)[i]
            BY <6>1, DueMeans DEF RowDue, InHand, Job
          <6>3. QED
            BY <2>4, <6>1, <6>2 DEF RowDue, IsUpsert
        <5>2. QED
          BY <5>1
      <4>8. accounts[a].currency = u
        BY <2>1, <4>5, <4>7 DEF RowsRight, RowsAreOfOpenings
      <4>9. counted = {p \in Due("accounts") : /\ Job("accounts", p).accountId = a
                                               /\ Job("accounts", p).currency = u}
        BY <4>3
      <4> HIDE DEF counted
      <4>10. SumFunctionOnSet([p \in counted |-> Job("accounts", p).amount], counted) =
               DueTotal(a, u)
        BY <2>1, <4>9, DueAmounts
      <4> HIDE DEF state
      <4>11. QED
        BY <3>1, <4>3, <4>4, <4>6, <4>8, <4>10
    <3>4. QED
      BY <3>2, <3>3
  <2>5. QED
    BY <2>3, <2>4
<1>2. QED
  BY <1>1, BankSafety, WorkSafety, IdentitySafety, RowsSafety, PTL
=============================================================================
