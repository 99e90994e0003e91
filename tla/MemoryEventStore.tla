--------------------------- MODULE MemoryEventStore ---------------------------
(***************************************************************************)
(* The in-memory event store with its lock, its optimistic-locking append, *)
(* its notification chain and its write-through file                       *)
(* (packages/core/src/eventstore/stores/memory/index.ts, eventstream.ts,   *)
(* notifiers/memory/index.ts).                                             *)
(*                                                                         *)
(* Everything between two awaits runs without interruption, so an action   *)
(* is the code from one await of a call to the next.  A member of Proc is  *)
(* a caller with at most one outstanding call: an application client, a    *)
(* Workflow (a subscription whose handler appends events and awaits that), *)
(* or a Saver (an explicit storeToFile()).                                 *)
(***************************************************************************)
EXTENDS ReadWriteLock, EventLog

CONSTANTS
  Subscription,   \* the subscriptions that are ever made
  Workflow,       \* the subscriptions whose handlers call append()
  Saver,          \* the callers of storeToFile()
  Stuck,          \* the subscriptions whose handlers never settle
  Batch,          \* the arguments of append(): sequences of event types
  Query,          \* the arguments of query()
  WriteThru,      \* the store was constructed with writeThruFilename
  FileErrors,     \* opening or writing the file may fail
  MaxCalls,       \* bound: calls made by each caller
  MaxCrashes      \* bound: crashes of the process

ASSUME StoreAssumption ==
  /\ Workflow \subseteq Proc \cap Subscription
  /\ Saver \subseteq Proc
  /\ Stuck \subseteq Subscription
  /\ Workflow \cap Saver = {}
  /\ Batch \subseteq Seq(EventType)
  /\ Query \subseteq EventQuery
  /\ WriteThru \in BOOLEAN /\ FileErrors \in BOOLEAN
  /\ MaxCalls \in Nat /\ MaxCrashes \in Nat

VARIABLES
  eventStream, lastSequenceNumber,        \* EventStream
  pc, calls,                              \* where each call awaits; calls made
  args,                                   \* arguments of the call in progress
  view,                                   \* result of the caller's last query
  context,                                \* maximum read by append()'s check
  result,                                 \* outcome of the caller's last append
  notificationQueue, notifying, handling, \* promise chain, running notify()
  subscriptions, created, delivered,      \* the notifier; what each handler got
  file, saving, mixed,                    \* the write-through file, its writes
  acknowledged, observed,                 \* history: appends resolved, events
                                          \* shown by query() and handlers
  up, crashes                             \* the store could be constructed

streamVars == <<eventStream, lastSequenceNumber>>
callVars   == <<pc, calls, args, view, context, result>>
notifyVars == <<notificationQueue, notifying, handling>>
subVars    == <<subscriptions, created, delivered>>
fileVars   == <<file, saving, mixed>>
history    == <<acknowledged, observed>>
process    == <<up, crashes>>
vars == <<lockVars, streamVars, callVars, notifyVars, subVars, fileVars,
          history, process>>

(* The callers of query() and append(); a workflow calls from its handler. *)
MayCall(p) == p \notin Saver /\ (p \in Workflow => p \in handling)

AllEvents == [types |-> {}, min |-> 0]
NothingRead == [query |-> AllEvents, events |-> {}, max |-> 0]
NoArgs == [query |-> AllEvents, batch |-> <<>>, conditional |-> FALSE,
           basis |-> {}]
Elements(log) == {log[i] : i \in 1..Len(log)}

(* serialize() and what a file may hold: the records and the last number.  *)
EmptyText == [records |-> <<>>, last |-> 0]
File(state, text) == [state |-> state, text |-> text]

ByProc(value) == [p \in Proc |-> value]

Init ==
  /\ LockInit
  /\ eventStream = <<>> /\ lastSequenceNumber = 0
  /\ pc = ByProc("idle") /\ calls = ByProc(0) /\ args = ByProc(NoArgs)
  /\ view = ByProc(NothingRead) /\ context = ByProc(0) /\ result = ByProc("none")
  /\ notificationQueue = <<>> /\ notifying = FALSE /\ handling = {}
  /\ subscriptions = {} /\ created = {}
  /\ delivered = [s \in Subscription |-> <<>>]
  /\ file = File("missing", EmptyText) /\ saving = ByProc(EmptyText)
  /\ mixed = FALSE
  /\ acknowledged = {} /\ observed = {}
  /\ up = TRUE /\ crashes = 0

-----------------------------------------------------------------------------
At(p, label) == pc[p] = label
Goto(p, label) == pc' = [pc EXCEPT ![p] = label]

StartCall(p, label, arguments) ==
  /\ up /\ At(p, "idle")
  /\ calls[p] < MaxCalls
  /\ calls' = [calls EXCEPT ![p] = @ + 1]
  /\ args' = [args EXCEPT ![p] = arguments]
  /\ Goto(p, label)

(* query(): ask for the read lock; once it is granted, read the stream and *)
(* release the lock (finally).                                             *)
QueryCall(p) ==
  \E q \in Query :
    /\ MayCall(p)
    /\ StartCall(p, "reading", [NoArgs EXCEPT !.query = q])
    /\ AcquireRead(p)
    /\ UNCHANGED <<streamVars, view, context, result, notifyVars, subVars,
                   fileVars, history, process>>

(* Mutant: the maximum of the whole stream goes with the filtered events.  *)
AnswerWithGlobalMax(query) ==
  [query |-> query, events |-> MatchingEvents(eventStream, query),
   max |-> MaxSequenceNumber(eventStream, AllEvents)]

Answer(query) ==
  [query |-> query, events |-> MatchingEvents(eventStream, query),
   max |-> MaxSequenceNumber(eventStream, query)]

(* Mutant: the read lock is not released.                                  *)
QueryReadKeepingLock(p) ==
  /\ At(p, "reading") /\ grant[p] = "read"
  /\ view' = [view EXCEPT ![p] = Answer(args[p].query)]
  /\ observed' = observed \cup view'[p].events
  /\ Goto(p, "idle")
  /\ UNCHANGED <<lockVars, streamVars, calls, args, context, result, notifyVars,
                 subVars, fileVars, acknowledged, process>>

QueryRead(p) ==
  /\ At(p, "reading")
  /\ ReleaseRead(p)
  /\ view' = [view EXCEPT ![p] = Answer(args[p].query)]
  /\ observed' = observed \cup view'[p].events
  /\ Goto(p, "idle")
  /\ UNCHANGED <<streamVars, calls, args, context, result, notifyVars, subVars,
                 fileVars, acknowledged, process>>

(* queryAll() returns at once and does not take the lock.                  *)
QueryAll(p) ==
  /\ MayCall(p)
  /\ StartCall(p, "idle", NoArgs)
  /\ view' = [view EXCEPT ![p] = Answer(AllEvents)]
  /\ UNCHANGED <<lockVars, streamVars, context, result, notifyVars, subVars,
                 fileVars, history, process>>

(* The events the caller has in hand.  A query without filters and options *)
(* answers with the store's own array, which goes on growing.              *)
InHand(p) ==
  IF view[p].query = AllEvents THEN Elements(eventStream) ELSE view[p].events

(* append(): a command handler passes the query it has read with and the   *)
(* maximum it was told; without them nothing is checked.                   *)
AppendCall(p) ==
  \E b \in Batch, conditional \in BOOLEAN :
    /\ MayCall(p)
    /\ StartCall(p, "locking",
         [query |-> view[p].query, batch |-> b, conditional |-> conditional,
          basis |-> InHand(p)])
    /\ AcquireWrite(p)
    /\ result' = [result EXCEPT ![p] = "none"]
    /\ UNCHANGED <<streamVars, view, context, notifyVars, subVars, fileVars,
                   history, process>>

(* The check reads the context under the write lock, without a lock of its *)
(* own; comparing it is a later step (await queryWithLock).                *)
(* Mutant: the context is read while the call still waits for the lock.    *)
CheckContextEarly(p) ==
  /\ At(p, "locking")
  /\ args[p].conditional
  /\ context' = [context EXCEPT
                   ![p] = MaxSequenceNumber(eventStream, args[p].query)]
  /\ Goto(p, "comparing")
  /\ UNCHANGED <<lockVars, streamVars, calls, args, view, result, notifyVars,
                 subVars, fileVars, history, process>>

CheckContext(p) ==
  /\ At(p, "locking") /\ grant[p] = "write"
  /\ args[p].conditional
  /\ context' = [context EXCEPT
                   ![p] = MaxSequenceNumber(eventStream, args[p].query)]
  /\ Goto(p, "comparing")
  /\ UNCHANGED <<lockVars, streamVars, calls, args, view, result, notifyVars,
                 subVars, fileVars, history, process>>

(* Mutant: the lock is not released when the check throws.                 *)
ContextChangedKeepingLock(p) ==
  /\ At(p, "comparing") /\ context[p] # view[p].max
  /\ result' = [result EXCEPT ![p] = "refused"]
  /\ Goto(p, "idle")
  /\ UNCHANGED <<lockVars, streamVars, calls, args, view, context, notifyVars,
                 subVars, fileVars, history, process>>

ContextChanged(p) ==
  /\ At(p, "comparing") /\ context[p] # view[p].max
  /\ ReleaseWrite(p)
  /\ result' = [result EXCEPT ![p] = "refused"]
  /\ Goto(p, "idle")
  /\ UNCHANGED <<streamVars, calls, args, view, context, notifyVars, subVars,
                 fileVars, history, process>>

(* Mutant: what was appended last is published first.                      *)
PublishFirst(p, records) ==
  /\ ReleaseWrite(p)
  /\ notificationQueue' =
       <<[proc |-> p, events |-> records]>> \o notificationQueue
  /\ Goto(p, "notifying")
  /\ UNCHANGED <<notifying, handling>>

(* The end of a successful append(): release the lock (finally) and put    *)
(* the records on the notification chain, in one step.                     *)
Publish(p, records) ==
  /\ ReleaseWrite(p)
  /\ notificationQueue' =
       Append(notificationQueue, [proc |-> p, events |-> records])
  /\ Goto(p, "notifying")
  /\ UNCHANGED <<notifying, handling>>

(* Mutant: the file name of the write-through mode is forgotten.           *)
AppendWithoutFile(p) ==
  LET records == Numbered(args[p].batch, lastSequenceNumber)
  IN  /\ \/ At(p, "locking") /\ ~args[p].conditional
         \/ At(p, "comparing") /\ context[p] = view[p].max
      /\ grant[p] = "write"
      /\ eventStream' = eventStream \o records
      /\ lastSequenceNumber' = lastSequenceNumber + Len(records)
      /\ result' = [result EXCEPT ![p] = "accepted"]
      /\ Publish(p, records)
      /\ UNCHANGED <<calls, args, view, context, subVars, fileVars, history,
                     process>>

(* Add the batch to the stream; write through, or publish.                 *)
AppendToStream(p) ==
  LET records == Numbered(args[p].batch, lastSequenceNumber)
  IN  /\ \/ At(p, "locking") /\ ~args[p].conditional
         \/ At(p, "comparing") /\ context[p] = view[p].max
      /\ grant[p] = "write"
      /\ eventStream' = eventStream \o records
      /\ lastSequenceNumber' = lastSequenceNumber + Len(records)
      /\ result' = [result EXCEPT ![p] = "accepted"]
      /\ IF WriteThru
         THEN Goto(p, "importing") /\ UNCHANGED <<lockVars, notifyVars>>
         ELSE Publish(p, records)
      /\ UNCHANGED <<calls, args, view, context, subVars, fileVars, history,
                     process>>

-----------------------------------------------------------------------------
(* storeToFile(): import the file module, serialize the stream and open    *)
(* the file, which truncates it; then write.  There is one file name.      *)
SaveCall(p) ==
  /\ p \in Saver
  /\ StartCall(p, "importing", NoArgs)
  /\ UNCHANGED <<lockVars, streamVars, view, context, result, notifyVars,
                 subVars, fileVars, history, process>>

Writers == {p \in Proc : At(p, "writing")}

Serialize(p) ==
  /\ At(p, "importing")
  /\ saving' = [saving EXCEPT ![p] =
                  [records |-> eventStream, last |-> lastSequenceNumber]]
  /\ file' = File("torn", EmptyText)
  /\ mixed' = (mixed \/ Writers # {})
  /\ Goto(p, "writing")
  /\ UNCHANGED <<lockVars, streamVars, calls, args, view, context, result,
                 notifyVars, subVars, history, process>>

EndOfWrite(p) == mixed' = (mixed /\ Writers # {p})

(* Mutant: the whole stream is published instead of the new records.       *)
WholeStream(p) == eventStream

(* The records of the append() that p is executing: the last ones.         *)
OwnRecords(p) ==
  SubSeq(eventStream, Len(eventStream) - Len(args[p].batch) + 1,
         Len(eventStream))

(* Two writes that overlap may leave a mixture of both in the file.        *)
WriteSucceeds(p) ==
  /\ At(p, "writing")
  /\ \/ file' = File("intact", saving[p])
     \/ mixed /\ file' = File("torn", EmptyText)
  /\ EndOfWrite(p)
  /\ IF p \in Saver
     THEN Goto(p, "idle") /\ UNCHANGED <<lockVars, notifyVars>>
     ELSE Publish(p, OwnRecords(p))
  /\ UNCHANGED <<streamVars, calls, args, view, context, result, saving,
                 subVars, history, process>>

(* Mutant: the error of the file system is swallowed.                      *)
SaveFailsSilently(p) ==
  /\ FileErrors
  /\ At(p, "importing") \/ At(p, "writing")
  /\ EndOfWrite(p)
  /\ Publish(p, OwnRecords(p))
  /\ UNCHANGED <<streamVars, calls, args, view, context, result, subVars,
                 file, saving, history, process>>

(* The call rejects with the error of the file system.  The events of an   *)
(* append() stay in the stream and are not published.                      *)
SaveFails(p) ==
  /\ FileErrors
  /\ At(p, "importing") \/ At(p, "writing")
  /\ EndOfWrite(p)
  /\ Goto(p, "idle")
  /\ IF p \in Saver
     THEN UNCHANGED <<lockVars, result>>
     ELSE ReleaseWrite(p) /\ result' = [result EXCEPT ![p] = "failed"]
  /\ UNCHANGED <<streamVars, calls, args, view, context, notifyVars, subVars,
                 file, saving, history, process>>

-----------------------------------------------------------------------------
(* Mutant: a single event is not worth a notification.                     *)
NotifyStartBatches ==
  LET events  == Head(notificationQueue).events
      targets == IF Len(events) <= 1 THEN {} ELSE subscriptions
  IN  /\ notificationQueue # <<>> /\ ~notifying
      /\ notifying' = TRUE
      /\ handling' = targets
      /\ delivered' = [s \in Subscription |->
           IF s \in targets THEN delivered[s] \o events ELSE delivered[s]]
      /\ observed' = observed \cup (IF targets = {} THEN {} ELSE Elements(events))
      /\ UNCHANGED <<lockVars, streamVars, callVars, notificationQueue,
                     subscriptions, created, fileVars, acknowledged, process>>

(* The chain of notify() calls: each starts when the one before it is      *)
(* done, hands its events to every subscription of that moment, and is     *)
(* done when all their handlers have settled (an error is caught).         *)
NotifyStart ==
  LET events  == Head(notificationQueue).events
      targets == IF events = <<>> THEN {} ELSE subscriptions
  IN  /\ notificationQueue # <<>> /\ ~notifying
      /\ notifying' = TRUE
      /\ handling' = targets
      /\ delivered' = [s \in Subscription |->
           IF s \in targets THEN delivered[s] \o events ELSE delivered[s]]
      /\ observed' = observed \cup (IF targets = {} THEN {} ELSE Elements(events))
      /\ UNCHANGED <<lockVars, streamVars, callVars, notificationQueue,
                     subscriptions, created, fileVars, acknowledged, process>>

HandlerSettles(s) ==
  /\ s \in handling \ Stuck
  /\ s \in Workflow => At(s, "idle")
  /\ handling' = handling \ {s}
  /\ UNCHANGED <<lockVars, streamVars, callVars, notificationQueue, notifying,
                 subVars, fileVars, history, process>>

(* notify() is done and append() resolves.                                 *)
NotifyEnd ==
  LET job == Head(notificationQueue)
  IN  /\ notifying /\ handling = {}
      /\ notifying' = FALSE
      /\ notificationQueue' = Tail(notificationQueue)
      /\ Goto(job.proc, "idle")
      /\ result' = [result EXCEPT ![job.proc] = "resolved"]
      /\ acknowledged' = acknowledged \cup Elements(job.events)
      /\ UNCHANGED <<lockVars, streamVars, calls, args, view, context, handling,
                     subVars, fileVars, observed, process>>

(* Every subscribe() creates a new subscription; unsubscribe() removes it, *)
(* close() removes them all.                                               *)
Subscribe(s) ==
  /\ up /\ s \notin created
  /\ subscriptions' = subscriptions \cup {s}
  /\ created' = created \cup {s}
  /\ UNCHANGED <<lockVars, streamVars, callVars, notifyVars, delivered,
                 fileVars, history, process>>

Unsubscribe(s) ==
  /\ s \in subscriptions
  /\ subscriptions' = subscriptions \ {s}
  /\ UNCHANGED <<lockVars, streamVars, callVars, notifyVars, created,
                 delivered, fileVars, history, process>>

Close ==
  /\ subscriptions # {}
  /\ subscriptions' = {}
  /\ UNCHANGED <<lockVars, streamVars, callVars, notifyVars, created,
                 delivered, fileVars, history, process>>

-----------------------------------------------------------------------------
(* Mutant: deserialize() does not restore the counter.                     *)
CreateFromFileUncounted ==
  /\ up' = (file.state # "torn")
  /\ eventStream' = file.text.records
  /\ lastSequenceNumber' = 0
  /\ NewLock
  /\ notificationQueue' = <<>> /\ notifying' = FALSE /\ handling' = {}
  /\ subscriptions' = {}

(* createFromFile(filename, true, ...): a missing file means an empty      *)
(* stream, and a text that is not complete makes JSON.parse throw.         *)
CreateFromFile ==
  /\ up' = (file.state # "torn")
  /\ eventStream' = file.text.records
  /\ lastSequenceNumber' = file.text.last
  /\ NewLock
  /\ notificationQueue' = <<>> /\ notifying' = FALSE /\ handling' = {}
  /\ subscriptions' = {}

(* The process dies with the calls in progress, and its successor loads    *)
(* the store from the file.                                                *)
CrashAndRestart ==
  /\ up /\ crashes < MaxCrashes
  /\ crashes' = crashes + 1
  /\ CreateFromFile
  /\ pc' = ByProc("idle") /\ args' = ByProc(NoArgs)
  /\ view' = ByProc(NothingRead) /\ context' = ByProc(0) /\ result' = ByProc("none")
  /\ saving' = ByProc(EmptyText) /\ mixed' = FALSE
  /\ UNCHANGED <<calls, created, delivered, file, history>>

CallStep(p) ==
  \/ QueryCall(p) \/ QueryRead(p) \/ QueryAll(p)
  \/ AppendCall(p) \/ CheckContext(p) \/ ContextChanged(p) \/ AppendToStream(p)
  \/ SaveCall(p) \/ Serialize(p) \/ WriteSucceeds(p) \/ SaveFails(p)

SubscriptionStep(s) == Subscribe(s) \/ Unsubscribe(s) \/ HandlerSettles(s)

Next ==
  \/ \E p \in Proc : CallStep(p)
  \/ \E s \in Subscription : SubscriptionStep(s)
  \/ NotifyStart \/ NotifyEnd \/ Close
  \/ CrashAndRestart

Spec == Init /\ [][Next]_vars

(* The event loop runs the continuation of every settled promise, the file *)
(* system answers, and handlers that are not Stuck settle.                 *)
Continue(p) ==
  \/ QueryRead(p) \/ CheckContext(p) \/ ContextChanged(p) \/ AppendToStream(p)
  \/ Serialize(p) \/ WriteSucceeds(p)

Fairness ==
  /\ \A p \in Proc : WF_vars(Continue(p))
  /\ \A s \in Subscription : WF_vars(HandlerSettles(s))
  /\ WF_vars(NotifyStart) /\ WF_vars(NotifyEnd)

FairSpec == Spec /\ Fairness

-----------------------------------------------------------------------------
Label == {"idle", "reading", "locking", "comparing", "importing", "writing",
          "notifying"}
Text == [records : Seq(EventRecord), last : Nat]

StoreTypeOK ==
  /\ LockTypeOK
  /\ eventStream \in Seq(EventRecord) /\ lastSequenceNumber \in Nat
  /\ pc \in [Proc -> Label] /\ calls \in [Proc -> Nat]
  /\ args \in [Proc -> [query : EventQuery, batch : Seq(EventType),
                        conditional : BOOLEAN, basis : SUBSET EventRecord]]
  /\ view \in [Proc -> [query : EventQuery, events : SUBSET EventRecord,
                        max : Nat]]
  /\ context \in [Proc -> Nat]
  /\ result \in [Proc -> {"none", "accepted", "refused", "failed", "resolved"}]
  /\ notificationQueue \in Seq([proc : Proc, events : Seq(EventRecord)])
  /\ notifying \in BOOLEAN /\ handling \subseteq Subscription
  /\ subscriptions \subseteq Subscription /\ created \subseteq Subscription
  /\ delivered \in [Subscription -> Seq(EventRecord)]
  /\ file \in [state : {"missing", "torn", "intact"}, text : Text]
  /\ saving \in [Proc -> Text] /\ mixed \in BOOLEAN
  /\ acknowledged \subseteq EventRecord /\ observed \subseteq EventRecord
  /\ up \in BOOLEAN /\ crashes \in Nat

(* Sequence numbers are 1, 2, 3, ... in stream order and the counter is    *)
(* the last one, after appends of all kinds and after loading a file       *)
(* (eventstream.ts:7-18 and 31-45).                                        *)
StreamIsDense ==
  /\ IsDense(eventStream) /\ lastSequenceNumber = Len(eventStream)
  /\ IsDense(file.text.records) /\ file.text.last = Len(file.text.records)

(* The write lock is held from the check of the context to the end of the  *)
(* write-through (index.ts:98-122), and every way out of query() and       *)
(* append() gives the lock back: nobody who holds or awaits it is idle.    *)
LockFollowsCalls ==
  \A p \in Proc :
    /\ ~Idle(p) => At(p, "reading") \/ (p \notin Saver /\
                     pc[p] \in {"locking", "comparing", "importing", "writing"})
    /\ p \notin Saver /\ pc[p] \in {"comparing", "importing", "writing"}
         => grant[p] = "write"

(* A conditional append() takes effect only while the events its caller    *)
(* had in hand when it decided are exactly those the query would give      *)
(* (index.ts:100-115), although the array of an unfiltered result grows.   *)
DecisionIsCurrent ==
  [][\A p \in Proc :
       result[p] = "none" /\ result'[p] = "accepted" /\ args[p].conditional =>
         args[p].basis = MatchingEvents(eventStream, args[p].query)]_vars

(* What waits in the notification chain was appended and is in the order   *)
(* of the stream, although the lock is released before the records join    *)
(* the chain and a write-through lies between (index.ts:115-135).          *)
ChainFollowsStream ==
  LET jobs == 1..Len(notificationQueue)
  IN  /\ \A i, j \in jobs : i < j =>
           \A e \in Elements(notificationQueue[i].events),
              f \in Elements(notificationQueue[j].events) :
             e.sequenceNumber < f.sequenceNumber
      /\ \A i \in jobs :
           Elements(notificationQueue[i].events) \subseteq Elements(eventStream)

(* A subscription never receives an event twice or out of order            *)
(* (__tests__/index.test.ts:185, notifications keep the order of appends). *)
DeliveredInOrder ==
  \A s \in Subscription : \A i, j \in 1..Len(delivered[s]) :
    i < j => delivered[s][i].sequenceNumber < delivered[s][j].sequenceNumber

(* While files do not fail, a subscription receives every event from its   *)
(* first one on.                                                           *)
DeliveredWithoutGaps ==
  \A s \in Subscription : \A i \in 1..Len(delivered[s]) - 1 :
    delivered[s][i+1].sequenceNumber = delivered[s][i].sequenceNumber + 1

(* In write-through mode a complete file holds every event of an append()  *)
(* that has resolved, whatever writes failed or crashes happened before.   *)
AcknowledgedIsOnFile ==
  WriteThru /\ file.state # "torn" =>
    acknowledged \subseteq Elements(file.text.records)

(* Without write errors nothing is shown to a query or a handler that a    *)
(* crash could take back, except while a later write is under way: the     *)
(* lock hides events until they are written (index.ts:115-124).            *)
ObservedIsOnFile ==
  WriteThru /\ file.state # "torn" => observed \subseteq Elements(file.text.records)

(* What queryAll() and the array of an unfiltered query show goes further  *)
(* than the file by one batch at most: that of the append() which holds    *)
(* the write lock and has not opened the file yet (index.ts:71-79, 108-125). *)
OnlyTheWriterIsAhead ==
  WriteThru /\ file.state # "torn" =>
    \/ Elements(eventStream) \subseteq Elements(file.text.records)
    \/ \E p \in Proc :
         /\ At(p, "importing") /\ grant[p] = "write"
         /\ Elements(eventStream) \ Elements(file.text.records)
              \subseteq Elements(OwnRecords(p))

(* README.md:500: in write-through mode the store "persists all changes    *)
(* automatically"; a restart finds everything that was acknowledged.       *)
AcknowledgedSurvivesCrash ==
  crashes > 0 => acknowledged \subseteq Elements(eventStream)

(* Every append() and every query() settles.                               *)
CallsSettle == \A p \in Proc : ~At(p, "idle") ~> At(p, "idle")

(* A published event reaches every subscription that does not leave.       *)
Published(n) ==
  \E i \in 1..Len(notificationQueue) :
    /\ notifying => i > 1
    /\ \E e \in Elements(notificationQueue[i].events) : e.sequenceNumber = n

Received(s, n) == \E e \in Elements(delivered[s]) : e.sequenceNumber = n

SubscribersAreNotified ==
  \A s \in Subscription, n \in 1..MaxCalls * Cardinality(Proc) :
    s \in subscriptions /\ Published(n)
      ~> s \notin subscriptions \/ Received(s, n)

(* The store implements the log with atomic conditional appends: an append *)
(* asks when it is called and is accepted or refused where it changes the  *)
(* stream or throws.                                                       *)
Asked(p) == pc[p] \in {"locking", "comparing"}

Abstract == INSTANCE ConditionalAppendLog WITH
  Caller  <- Proc,
  log     <- eventStream,
  view    <- [p \in Proc |-> [query |-> view[p].query, events |-> view[p].events]],
  request <- [p \in Proc |->
                IF Asked(p)
                THEN [batch |-> args[p].batch, conditional |-> args[p].conditional]
                ELSE [batch |-> <<>>, conditional |-> FALSE]],
  status  <- [p \in Proc |->
                IF Asked(p) THEN "asked"
                ELSE CASE result[p] = "none" -> "idle"
                       [] result[p] = "refused" -> "refused"
                       [] OTHER -> "accepted"]

ImplementsLog == Abstract!AbsSpec
=============================================================================
