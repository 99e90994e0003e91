------------------------ MODULE MemoryEventStoreProofs ------------------------
(***************************************************************************)
(* The safety of the in-memory event store for every set of callers,       *)
(* subscriptions, event types, batches and queries, every number of calls  *)
(* and every number of crashes.  The proof is made of layers, each an      *)
(* inductive invariant relative to the ones before it: the lock, the types *)
(* of the variables, the agreement of the lock and of the notification     *)
(* chain with where the calls are, the numbering of the stream, and what   *)
(* the callers know about it.                                              *)
(*                                                                         *)
(* From the same invariant the last part shows that the store implements   *)
(* the log with atomic conditional appends: with write-through or without, *)
(* with failing files, callers of storeToFile(), workflows and crashes.    *)
(***************************************************************************)
EXTENDS MemoryEventStore, ReadWriteLockProofs, EventLogProofs

-----------------------------------------------------------------------------
(* Layer 1: the store uses its lock only through the lock's methods, or    *)
(* creates a new one; what was proved of the lock holds in the store.      *)

LEMMA CallsUseTheLock ==
  ASSUME NEW p \in Proc, CallStep(p)
  PROVE  LockStep(p) \/ UNCHANGED lockVars
<1>1. CASE QueryCall(p)
  BY <1>1 DEF QueryCall, LockStep
<1>2. CASE QueryRead(p)
  BY <1>2 DEF QueryRead, LockStep
<1>3. CASE QueryAll(p)
  BY <1>3 DEF QueryAll
<1>4. CASE AppendCall(p)
  BY <1>4 DEF AppendCall, LockStep
<1>5. CASE CheckContext(p)
  BY <1>5 DEF CheckContext
<1>6. CASE ContextChanged(p)
  BY <1>6 DEF ContextChanged, LockStep
<1>7. CASE AppendToStream(p)
  BY <1>7 DEF AppendToStream, Publish, LockStep
<1>8. CASE SaveCall(p)
  BY <1>8 DEF SaveCall
<1>9. CASE Serialize(p)
  BY <1>9 DEF Serialize
<1>10. CASE WriteSucceeds(p)
  BY <1>10 DEF WriteSucceeds, Publish, LockStep
<1>11. CASE SaveFails(p)
  BY <1>11 DEF SaveFails, LockStep
<1>12. QED
  BY <1>1, <1>2, <1>3, <1>4, <1>5, <1>6, <1>7, <1>8, <1>9, <1>10, <1>11
     DEF CallStep

LEMMA NewLockKeepsInv ==
  ASSUME NewLock
  PROVE  LockInv'
<1>1. LockTypeOK' /\ WaitersAreDistinct' /\ NoLostWakeup' /\ MutualExclusion'
  BY EmptySeq DEF NewLock, LockTypeOK, WaitersAreDistinct, NoLostWakeup,
                  MutualExclusion
<1>2. Holders("read")' = {} /\ Holders("write")' = {}
  BY DEF NewLock, Holders
<1>3. CountsMatchHolders'
  BY <1>2, FS_EmptySet DEF NewLock, CountsMatchHolders, ReleaseThrows
<1>4. QED
  BY <1>1, <1>3 DEF LockInv

LEMMA StoreKeepsLockInv ==
  ASSUME LockInv, [Next]_vars
  PROVE  LockInv'
<1>1. ASSUME NEW p \in Proc, CallStep(p) PROVE LockInv'
  BY <1>1, CallsUseTheLock, LockInvStep DEF LockNext
<1>2. ASSUME UNCHANGED lockVars PROVE LockInv'
  BY <1>2, LockInvStep
<1>3. ASSUME NEW s \in Subscription, SubscriptionStep(s) PROVE LockInv'
  BY <1>2, <1>3 DEF SubscriptionStep, Subscribe, Unsubscribe, HandlerSettles
<1>4. CASE NotifyStart \/ NotifyEnd \/ Close
  BY <1>2, <1>4 DEF NotifyStart, NotifyEnd, Close
<1>5. CASE CrashAndRestart
  BY <1>5, NewLockKeepsInv DEF CrashAndRestart, CreateFromFile
<1>6. CASE UNCHANGED vars
  BY <1>2, <1>6 DEF vars
<1>7. QED
  BY <1>1, <1>3, <1>4, <1>5, <1>6 DEF Next

(* The lock of the store is safe in every reachable state of the store.    *)
THEOREM StoreLockSafety == Spec => []LockInv
<1>1. Init => LockInv
  BY LockInvInit DEF Init
<1>2. QED
  BY <1>1, StoreKeepsLockInv, PTL DEF Spec

-----------------------------------------------------------------------------
(* Layer 2: types.  The records an append() publishes after its            *)
(* write-through are found at the end of the stream, so the type of the    *)
(* notification chain depends on the batch having been appended.           *)

BatchIsInStream ==
  \A p \in Proc :
    p \notin Saver /\ pc[p] \in {"importing", "writing"} =>
      Len(args[p].batch) <= Len(eventStream)

TypeInv == StoreTypeOK /\ BatchIsInStream

(* A notify() that is running was started for the head of the chain.       *)
RunHasJob == notifying => notificationQueue # <<>>

ArgsType == [query : EventQuery, batch : Seq(EventType),
             conditional : BOOLEAN, basis : SUBSET EventRecord]
ViewType == [query : EventQuery, events : SUBSET EventRecord, max : Nat]

LEMMA TypesOfConstants ==
  /\ AllEvents \in EventQuery
  /\ NoArgs \in ArgsType
  /\ NothingRead \in ViewType
  /\ EmptyText \in Text
<1>1. AllEvents \in EventQuery
  BY DEF AllEvents, EventQuery
<1>2. QED
  BY <1>1, EmptySeq DEF NoArgs, ArgsType, NothingRead, ViewType, EmptyText, Text

LEMMA TypeInvInit == Init => TypeInv
<1> SUFFICES ASSUME Init PROVE TypeInv
  OBVIOUS
<1>1. LockTypeOK
  BY LockInvInit DEF Init, LockInv
<1>2. StoreTypeOK
  BY <1>1, TypesOfConstants, EmptySeq
     DEF Init, StoreTypeOK, ArgsType, ViewType, ByProc, File, Label
<1>3. BatchIsInStream
  BY DEF Init, BatchIsInStream, ByProc
<1>4. QED
  BY <1>2, <1>3 DEF TypeInv

(* A query's answer consists of records of the stream.                     *)
LEMMA AnswerType ==
  ASSUME eventStream \in Seq(EventRecord), NEW query \in EventQuery
  PROVE  Answer(query) \in ViewType
<1>1. MatchingEvents(eventStream, query) \subseteq EventRecord
  BY ElementOfSeq DEF MatchingEvents, MatchingIndices
<1>2. QED
  BY <1>1, MaximumIsNatural DEF Answer, ViewType

(* The caller's records, numbered or found at the end of the stream.       *)
LEMMA RecordTypes ==
  ASSUME TypeInv, NEW p \in Proc
  PROVE  /\ Numbered(args[p].batch, lastSequenceNumber) \in Seq(EventRecord)
         /\ Len(Numbered(args[p].batch, lastSequenceNumber)) = Len(args[p].batch)
         /\ p \notin Saver /\ pc[p] = "writing" => OwnRecords(p) \in Seq(EventRecord)
<1>1. /\ args[p].batch \in Seq(EventType) /\ lastSequenceNumber \in Nat
      /\ eventStream \in Seq(EventRecord)
  BY DEF TypeInv, StoreTypeOK
<1>2. /\ Len(args[p].batch) \in Nat /\ Len(eventStream) \in Nat
      /\ \A i \in 1..Len(args[p].batch) : args[p].batch[i] \in EventType
  BY <1>1, LenProperties, ElementOfSeq
<1>3. \A i \in 1..Len(args[p].batch) :
        [sequenceNumber |-> lastSequenceNumber + i, eventType |-> args[p].batch[i]]
          \in EventRecord
  BY <1>1, <1>2 DEF EventRecord
<1>4. ASSUME p \notin Saver, pc[p] = "writing" PROVE OwnRecords(p) \in Seq(EventRecord)
  <2> DEFINE first == Len(eventStream) - Len(args[p].batch) + 1
  <2>1. first \in 1..Len(eventStream)+1
    <3>1. Len(args[p].batch) <= Len(eventStream)
      BY <1>4 DEF TypeInv, BatchIsInStream
    <3>2. \A n, k \in Nat : k <= n => n - k + 1 \in 1..n+1
      OBVIOUS
    <3>3. QED
      BY <1>2, <3>1, <3>2
  <2>2. \A i \in first..Len(eventStream) : eventStream[i] \in EventRecord
    BY <1>1, <2>1, ElementOfSeq
  <2>3. first \in Int /\ Len(eventStream) \in Int
    BY <1>2
  <2>4. QED
    BY <2>2, <2>3, SubSeqProperties DEF OwnRecords
<1>5. QED
  BY <1>2, <1>3, <1>4 DEF Numbered

(* A call that starts keeps the types if its arguments have theirs.        *)
LEMMA StartKeepsTypes ==
  ASSUME TypeInv, LockInv', NEW p \in Proc, NEW label \in Label,
         NEW arguments \in ArgsType,
         p \notin Saver => label \notin {"importing", "writing"},
         StartCall(p, label, arguments),
         view' \in [Proc -> ViewType], UNCHANGED context,
         result' \in [Proc -> {"none", "accepted", "refused", "failed", "resolved"}],
         UNCHANGED <<streamVars, notifyVars, subVars, fileVars, history, process>>
  PROVE  TypeInv'
<1>1. LockTypeOK'
  BY DEF LockInv
<1>2. /\ pc' = [pc EXCEPT ![p] = label] /\ calls' = [calls EXCEPT ![p] = @ + 1]
      /\ args' = [args EXCEPT ![p] = arguments]
  BY DEF StartCall, Goto
<1>3. pc' \in [Proc -> Label] /\ calls' \in [Proc -> Nat] /\ args' \in [Proc -> ArgsType]
  BY <1>2 DEF TypeInv, StoreTypeOK, ArgsType
<1>4. StoreTypeOK'
  BY <1>1, <1>3
     DEF TypeInv, StoreTypeOK, ArgsType, ViewType, streamVars, notifyVars, subVars,
         fileVars, history, process
<1>5. BatchIsInStream'
  BY <1>2 DEF TypeInv, StoreTypeOK, BatchIsInStream, streamVars
<1>6. QED
  BY <1>4, <1>5 DEF TypeInv

LEMMA QueriesKeepTypes ==
  ASSUME TypeInv, LockInv', NEW p \in Proc, QueryCall(p) \/ QueryRead(p) \/ QueryAll(p)
  PROVE  TypeInv'
<1>1. CASE QueryCall(p)
  <2>1. PICK q \in Query :
          /\ StartCall(p, "reading", [NoArgs EXCEPT !.query = q])
          /\ UNCHANGED <<streamVars, view, context, result, notifyVars, subVars,
                         fileVars, history, process>>
    BY <1>1 DEF QueryCall
  <2>2. q \in EventQuery
    BY StoreAssumption
  <2>3. [NoArgs EXCEPT !.query = q] \in ArgsType
    BY <2>2, TypesOfConstants DEF ArgsType
  <2>4. view' \in [Proc -> ViewType] /\ "reading" \in Label
    BY <2>1 DEF TypeInv, StoreTypeOK, ViewType, Label
  <2>5. QED
    BY <2>1, <2>3, <2>4, StartKeepsTypes DEF TypeInv, StoreTypeOK
<1>2. CASE QueryRead(p)
  <2>1. args[p].query \in EventQuery /\ LockTypeOK'
    BY DEF TypeInv, StoreTypeOK, LockInv
  <2>2. Answer(args[p].query) \in ViewType
    BY <2>1, AnswerType DEF TypeInv, StoreTypeOK
  <2>3. /\ view' = [view EXCEPT ![p] = Answer(args[p].query)]
        /\ observed' = observed \cup view'[p].events
        /\ Goto(p, "idle")
        /\ UNCHANGED <<streamVars, calls, args, context, result, notifyVars,
                       subVars, fileVars, acknowledged, process>>
    BY <1>2 DEF QueryRead
  <2>4. view' \in [Proc -> ViewType] /\ observed' \subseteq EventRecord
    BY <2>2, <2>3 DEF TypeInv, StoreTypeOK, ViewType
  <2>5. StoreTypeOK'
    BY <2>1, <2>3, <2>4
       DEF TypeInv, StoreTypeOK, ViewType, Goto, Label, streamVars, notifyVars,
           subVars, fileVars, process
  <2>6. BatchIsInStream'
    BY <2>3 DEF TypeInv, StoreTypeOK, BatchIsInStream, Goto, streamVars
  <2>7. QED
    BY <2>5, <2>6 DEF TypeInv
<1>3. CASE QueryAll(p)
  <2>1. /\ view' = [view EXCEPT ![p] = Answer(AllEvents)]
        /\ StartCall(p, "idle", NoArgs)
        /\ UNCHANGED <<streamVars, context, result, notifyVars, subVars,
                       fileVars, history, process>>
    BY <1>3 DEF QueryAll
  <2>2. Answer(AllEvents) \in ViewType /\ NoArgs \in ArgsType /\ "idle" \in Label
    BY TypesOfConstants, AnswerType DEF TypeInv, StoreTypeOK, Label
  <2>3. view' \in [Proc -> ViewType]
    BY <2>1, <2>2 DEF TypeInv, StoreTypeOK, ViewType
  <2>4. QED
    BY <2>1, <2>2, <2>3, StartKeepsTypes DEF TypeInv, StoreTypeOK
<1>4. QED
  BY <1>1, <1>2, <1>3

(* Publish() queues a typed job and sends the call to wait for it.         *)
LEMMA PublishTypes ==
  ASSUME TypeInv, NEW p \in Proc, NEW records \in Seq(EventRecord), Publish(p, records)
  PROVE  /\ notificationQueue' \in Seq([proc : Proc, events : Seq(EventRecord)])
         /\ pc' = [pc EXCEPT ![p] = "notifying"] /\ pc' \in [Proc -> Label]
         /\ UNCHANGED <<notifying, handling>>
<1>1. [proc |-> p, events |-> records] \in [proc : Proc, events : Seq(EventRecord)]
  OBVIOUS
<1>2. notificationQueue' \in Seq([proc : Proc, events : Seq(EventRecord)])
  BY <1>1, AppendProperties DEF Publish, TypeInv, StoreTypeOK
<1>3. QED
  BY <1>2 DEF Publish, Goto, TypeInv, StoreTypeOK, Label

LEMMA ChecksKeepTypes ==
  ASSUME TypeInv, LockInv', NEW p \in Proc,
         AppendCall(p) \/ CheckContext(p) \/ ContextChanged(p)
  PROVE  TypeInv'
<1>1. CASE AppendCall(p)
  <2>1. PICK b \in Batch, conditional \in BOOLEAN :
          /\ StartCall(p, "locking",
               [query |-> view[p].query, batch |-> b, conditional |-> conditional,
                basis |-> InHand(p)])
          /\ result' = [result EXCEPT ![p] = "none"]
          /\ UNCHANGED <<streamVars, view, context, notifyVars, subVars, fileVars,
                         history, process>>
    BY <1>1 DEF AppendCall
  <2>2. view[p] \in ViewType /\ eventStream \in Seq(EventRecord)
    BY DEF TypeInv, StoreTypeOK, ViewType
  <2>3. InHand(p) \subseteq EventRecord
    BY <2>2, ElementOfSeq DEF InHand, Elements, ViewType
  <2>4. [query |-> view[p].query, batch |-> b, conditional |-> conditional,
         basis |-> InHand(p)] \in ArgsType
    BY <2>2, <2>3, StoreAssumption DEF ArgsType, ViewType
  <2>5. /\ view' \in [Proc -> ViewType] /\ "locking" \in Label
        /\ result' \in [Proc -> {"none", "accepted", "refused", "failed", "resolved"}]
    BY <2>1 DEF TypeInv, StoreTypeOK, ViewType, Label
  <2>6. QED
    BY <2>1, <2>4, <2>5, StartKeepsTypes
<1>2. CASE CheckContext(p)
  <2>1. MaxSequenceNumber(eventStream, args[p].query) \in Nat /\ LockTypeOK'
    BY MaximumIsNatural DEF TypeInv, StoreTypeOK, LockInv
  <2>2. StoreTypeOK'
    BY <1>2, <2>1
       DEF CheckContext, TypeInv, StoreTypeOK, Goto, Label, streamVars, notifyVars,
           subVars, fileVars, history, process
  <2>3. BatchIsInStream'
    BY <1>2 DEF CheckContext, TypeInv, StoreTypeOK, BatchIsInStream, Goto, streamVars
  <2>4. QED
    BY <2>2, <2>3 DEF TypeInv
<1>3. CASE ContextChanged(p)
  <2>1. LockTypeOK'
    BY DEF LockInv
  <2>2. StoreTypeOK'
    BY <1>3, <2>1
       DEF ContextChanged, TypeInv, StoreTypeOK, Goto, Label, streamVars, notifyVars,
           subVars, fileVars, history, process
  <2>3. BatchIsInStream'
    BY <1>3 DEF ContextChanged, TypeInv, StoreTypeOK, BatchIsInStream, Goto, streamVars
  <2>4. QED
    BY <2>2, <2>3 DEF TypeInv
<1>4. QED
  BY <1>1, <1>2, <1>3

LEMMA AppendsKeepTypes ==
  ASSUME TypeInv, LockInv', NEW p \in Proc, AppendToStream(p)
  PROVE  TypeInv'
<1> DEFINE records == Numbered(args[p].batch, lastSequenceNumber)
<1>1. records \in Seq(EventRecord) /\ Len(records) = Len(args[p].batch)
  BY RecordTypes
<1>2. /\ eventStream' = eventStream \o records
      /\ lastSequenceNumber' = lastSequenceNumber + Len(records)
      /\ result' = [result EXCEPT ![p] = "accepted"]
      /\ IF WriteThru
         THEN Goto(p, "importing") /\ UNCHANGED <<lockVars, notifyVars>>
         ELSE Publish(p, records)
      /\ UNCHANGED <<calls, args, view, context, subVars, fileVars, history, process>>
  BY DEF AppendToStream
<1> HIDE DEF records
<1>3. /\ eventStream' \in Seq(EventRecord)
      /\ Len(eventStream') = Len(eventStream) + Len(args[p].batch)
      /\ Len(eventStream) \in Nat /\ Len(records) \in Nat
  <2>1. eventStream \in Seq(EventRecord)
    BY DEF TypeInv, StoreTypeOK
  <2>2. Len(eventStream) \in Nat /\ Len(records) \in Nat
    BY <1>1, <2>1, LenProperties
  <2>3. /\ eventStream \o records \in Seq(EventRecord)
        /\ Len(eventStream \o records) = Len(eventStream) + Len(records)
    BY <1>1, <2>1, ConcatProperties
  <2>4. QED
    BY <1>1, <1>2, <2>2, <2>3
<1>4. \A r \in Proc : Len(args[r].batch) \in Nat
  BY LenProperties DEF TypeInv, StoreTypeOK
<1>5. lastSequenceNumber' \in Nat
  BY <1>2, <1>3 DEF TypeInv, StoreTypeOK
<1>6. /\ pc' \in [Proc -> Label]
      /\ \A r \in Proc \ {p} : pc'[r] = pc[r]
      /\ notificationQueue' \in Seq([proc : Proc, events : Seq(EventRecord)])
      /\ UNCHANGED <<notifying, handling>>
  <2>1. CASE WriteThru
    BY <1>2, <2>1 DEF Goto, Label, notifyVars, TypeInv, StoreTypeOK
  <2>2. CASE ~WriteThru
    BY <1>1, <1>2, <2>2, PublishTypes DEF TypeInv, StoreTypeOK
  <2>3. QED
    BY <2>1, <2>2
<1>7. StoreTypeOK'
  <2>1. LockTypeOK'
    BY DEF LockInv
  <2>2. QED
    BY <1>2, <1>3, <1>5, <1>6, <2>1
       DEF TypeInv, StoreTypeOK, subVars, fileVars, history, process
<1>8. BatchIsInStream'
  <2> SUFFICES ASSUME NEW r \in Proc, r \notin Saver, pc'[r] \in {"importing", "writing"}
               PROVE  Len(args[r].batch) <= Len(eventStream')
    BY <1>2 DEF BatchIsInStream
  <2>1. CASE r = p
    BY <1>3, <1>4, <2>1
  <2>2. CASE r # p
    <3>1. Len(args[r].batch) <= Len(eventStream)
      BY <1>6, <2>2 DEF TypeInv, BatchIsInStream
    <3>2. QED
      BY <1>3, <1>4, <3>1
  <2>3. QED
    BY <2>1, <2>2
<1>9. QED
  BY <1>7, <1>8 DEF TypeInv

LEMMA SavesKeepTypes ==
  ASSUME TypeInv, LockInv', NEW p \in Proc,
         SaveCall(p) \/ Serialize(p) \/ WriteSucceeds(p) \/ SaveFails(p)
  PROVE  TypeInv'
<1>1. LockTypeOK'
  BY DEF LockInv
<1>2. CASE SaveCall(p)
  <2>1. NoArgs \in ArgsType /\ "importing" \in Label /\ view' \in [Proc -> ViewType]
    BY <1>2, TypesOfConstants DEF SaveCall, TypeInv, StoreTypeOK, ViewType, Label
  <2>2. /\ StartCall(p, "importing", NoArgs) /\ p \in Saver
        /\ UNCHANGED <<streamVars, view, context, result, notifyVars, subVars,
                       fileVars, history, process>>
    BY <1>2 DEF SaveCall
  <2>3. QED
    BY <2>1, <2>2, StartKeepsTypes DEF TypeInv, StoreTypeOK
<1>3. CASE Serialize(p)
  <2>1. [records |-> eventStream, last |-> lastSequenceNumber] \in Text
    BY DEF TypeInv, StoreTypeOK, Text
  <2>2. /\ saving' = [saving EXCEPT ![p] =
                        [records |-> eventStream, last |-> lastSequenceNumber]]
        /\ file' = [state |-> "torn", text |-> EmptyText]
        /\ mixed' \in BOOLEAN
        /\ pc[p] = "importing" /\ pc' = [pc EXCEPT ![p] = "writing"]
        /\ UNCHANGED <<streamVars, calls, args, view, context, result,
                       notifyVars, subVars, history, process>>
    BY <1>3 DEF Serialize, Goto, At, File, TypeInv, StoreTypeOK
  <2>3. saving' \in [Proc -> Text]
    BY <2>1, <2>2 DEF TypeInv, StoreTypeOK
  <2>4. StoreTypeOK'
    BY <1>1, <2>2, <2>3, TypesOfConstants
       DEF TypeInv, StoreTypeOK, Label, streamVars, notifyVars, subVars, history,
           process
  <2>5. BatchIsInStream'
    BY <2>2 DEF TypeInv, StoreTypeOK, BatchIsInStream, streamVars
  <2>6. QED
    BY <2>4, <2>5 DEF TypeInv
<1>4. CASE WriteSucceeds(p)
  <2>1. /\ saving[p] \in Text
        /\ \/ file' = [state |-> "intact", text |-> saving[p]]
           \/ file' = [state |-> "torn", text |-> EmptyText]
        /\ mixed' \in BOOLEAN
        /\ IF p \in Saver
           THEN Goto(p, "idle") /\ UNCHANGED <<lockVars, notifyVars>>
           ELSE Publish(p, OwnRecords(p))
        /\ pc[p] = "writing"
        /\ UNCHANGED <<streamVars, calls, args, view, context, result, saving,
                       subVars, history, process>>
    BY <1>4 DEF WriteSucceeds, EndOfWrite, At, File, TypeInv, StoreTypeOK
  <2>2. /\ pc' \in [Proc -> Label]
        /\ \A r \in Proc : pc'[r] = pc[r] \/ pc'[r] \in {"idle", "notifying"}
        /\ notificationQueue' \in Seq([proc : Proc, events : Seq(EventRecord)])
        /\ UNCHANGED <<notifying, handling>>
    <3>1. CASE p \in Saver
      BY <2>1, <3>1 DEF Goto, Label, notifyVars, TypeInv, StoreTypeOK
    <3>2. CASE p \notin Saver
      BY <2>1, <3>2, RecordTypes, PublishTypes DEF TypeInv, StoreTypeOK
    <3>3. QED
      BY <3>1, <3>2
  <2>3. file' \in [state : {"missing", "torn", "intact"}, text : Text]
    BY <2>1, TypesOfConstants
  <2>4. StoreTypeOK'
    BY <1>1, <2>1, <2>2, <2>3
       DEF TypeInv, StoreTypeOK, streamVars, subVars, history, process
  <2>5. BatchIsInStream'
    BY <2>1, <2>2 DEF TypeInv, BatchIsInStream, streamVars
  <2>6. QED
    BY <2>4, <2>5 DEF TypeInv
<1>5. CASE SaveFails(p)
  <2>1. /\ mixed' \in BOOLEAN
        /\ pc' = [pc EXCEPT ![p] = "idle"]
        /\ result' \in [Proc -> {"none", "accepted", "refused", "failed", "resolved"}]
        /\ UNCHANGED <<streamVars, calls, args, view, context, notifyVars, subVars,
                       file, saving, history, process>>
    BY <1>5 DEF SaveFails, EndOfWrite, Goto, TypeInv, StoreTypeOK
  <2>2. StoreTypeOK'
    BY <1>1, <2>1 DEF TypeInv, StoreTypeOK, Label, streamVars, notifyVars, subVars,
                      history, process
  <2>3. BatchIsInStream'
    BY <2>1 DEF TypeInv, StoreTypeOK, BatchIsInStream, streamVars
  <2>4. QED
    BY <2>2, <2>3 DEF TypeInv
<1>6. QED
  BY <1>2, <1>3, <1>4, <1>5

LEMMA NotifierKeepsTypes ==
  ASSUME TypeInv, RunHasJob, LockInv',
         \/ NotifyStart \/ NotifyEnd \/ Close
         \/ \E s \in Subscription : SubscriptionStep(s)
  PROVE  TypeInv'
<1>1. LockTypeOK'
  BY DEF LockInv
<1>2. ASSUME notificationQueue # <<>>
      PROVE  /\ Head(notificationQueue).proc \in Proc
             /\ Head(notificationQueue).events \in Seq(EventRecord)
             /\ Tail(notificationQueue) \in Seq([proc : Proc, events : Seq(EventRecord)])
  <2> DEFINE Job == [proc : Proc, events : Seq(EventRecord)]
  <2>1. notificationQueue \in Seq(Job)
    BY DEF TypeInv, StoreTypeOK
  <2>2. Head(notificationQueue) \in Job /\ Tail(notificationQueue) \in Seq(Job)
    BY <1>2, <2>1, HeadTailProperties
  <2>3. QED
    BY <2>2
<1>3. CASE NotifyStart
  <2> DEFINE events == Head(notificationQueue).events
             targets == IF events = <<>> THEN {} ELSE subscriptions
  <2>1. /\ notificationQueue # <<>>
        /\ notifying' = TRUE /\ handling' = targets
        /\ delivered' = [s \in Subscription |->
             IF s \in targets THEN delivered[s] \o events ELSE delivered[s]]
        /\ observed' = observed \cup (IF targets = {} THEN {} ELSE Elements(events))
        /\ UNCHANGED <<lockVars, streamVars, callVars, notificationQueue,
                       subscriptions, created, fileVars, acknowledged, process>>
    BY <1>3 DEF NotifyStart
  <2>2. events \in Seq(EventRecord) /\ Elements(events) \subseteq EventRecord
    BY <1>2, <2>1, ElementOfSeq DEF Elements
  <2>3. targets \subseteq Subscription
    BY DEF TypeInv, StoreTypeOK
  <2> HIDE DEF events, targets
  <2>4. delivered' \in [Subscription -> Seq(EventRecord)]
    BY <2>1, <2>2, ConcatProperties DEF TypeInv, StoreTypeOK
  <2>5. observed' \subseteq EventRecord
    BY <2>1, <2>2 DEF TypeInv, StoreTypeOK
  <2>6. StoreTypeOK'
    BY <1>1, <2>1, <2>3, <2>4, <2>5
       DEF TypeInv, StoreTypeOK, streamVars, callVars, fileVars, process
  <2>7. BatchIsInStream'
    BY <2>1 DEF TypeInv, BatchIsInStream, streamVars, callVars
  <2>8. QED
    BY <2>6, <2>7 DEF TypeInv
<1>4. CASE NotifyEnd
  <2> DEFINE job == Head(notificationQueue)
  <2>1. notificationQueue # <<>>
    BY <1>4 DEF NotifyEnd, RunHasJob
  <2>2. /\ job.proc \in Proc /\ Elements(job.events) \subseteq EventRecord
        /\ Tail(notificationQueue) \in Seq([proc : Proc, events : Seq(EventRecord)])
    BY <1>2, <2>1, ElementOfSeq DEF Elements
  <2>3. /\ notifying' = FALSE /\ notificationQueue' = Tail(notificationQueue)
        /\ pc' = [pc EXCEPT ![job.proc] = "idle"]
        /\ result' = [result EXCEPT ![job.proc] = "resolved"]
        /\ acknowledged' = acknowledged \cup Elements(job.events)
        /\ UNCHANGED <<lockVars, streamVars, calls, args, view, context, handling,
                       subVars, fileVars, observed, process>>
    BY <1>4 DEF NotifyEnd, Goto
  <2> HIDE DEF job
  <2>4. StoreTypeOK'
    BY <1>1, <2>2, <2>3
       DEF TypeInv, StoreTypeOK, Label, streamVars, subVars, fileVars, process
  <2>5. BatchIsInStream'
    BY <2>2, <2>3 DEF TypeInv, StoreTypeOK, BatchIsInStream, streamVars
  <2>6. QED
    BY <2>4, <2>5 DEF TypeInv
<1>5. ASSUME /\ subscriptions' \subseteq Subscription /\ created' \subseteq Subscription
             /\ handling' \subseteq Subscription
             /\ UNCHANGED <<streamVars, callVars, notificationQueue, notifying,
                            delivered, fileVars, history, process>>
      PROVE  TypeInv'
  <2>1. StoreTypeOK'
    BY <1>1, <1>5 DEF TypeInv, StoreTypeOK, streamVars, callVars, fileVars, history,
                      process
  <2>2. BatchIsInStream'
    BY <1>5 DEF TypeInv, BatchIsInStream, streamVars, callVars
  <2>3. QED
    BY <2>1, <2>2 DEF TypeInv
<1>6. CASE Close
  BY <1>5, <1>6 DEF Close, notifyVars, TypeInv, StoreTypeOK
<1>7. ASSUME NEW s \in Subscription, SubscriptionStep(s) PROVE TypeInv'
  BY <1>5, <1>7 DEF SubscriptionStep, Subscribe, Unsubscribe, HandlerSettles,
                    notifyVars, subVars, TypeInv, StoreTypeOK
<1>8. QED
  BY <1>3, <1>4, <1>6, <1>7

LEMMA RestartKeepsTypes ==
  ASSUME TypeInv, LockInv', CrashAndRestart
  PROVE  TypeInv'
<1>1. LockTypeOK' /\ file.text \in Text
  BY DEF LockInv, TypeInv, StoreTypeOK
<1>2. eventStream' \in Seq(EventRecord) /\ lastSequenceNumber' \in Nat
  BY <1>1 DEF CrashAndRestart, CreateFromFile, Text
<1>3. /\ pc' \in [Proc -> Label] /\ UNCHANGED calls
      /\ args' \in [Proc -> ArgsType] /\ view' \in [Proc -> ViewType]
      /\ context' \in [Proc -> Nat] /\ saving' \in [Proc -> Text]
      /\ result' \in [Proc -> {"none", "accepted", "refused", "failed", "resolved"}]
  BY TypesOfConstants DEF CrashAndRestart, ByProc, Label
<1>4. /\ notificationQueue' = <<>> /\ notifying' = FALSE /\ handling' = {}
      /\ subscriptions' = {} /\ up' \in BOOLEAN /\ crashes' = crashes + 1
      /\ mixed' = FALSE /\ UNCHANGED <<created, delivered, file, history>>
  BY DEF CrashAndRestart, CreateFromFile
<1>5. StoreTypeOK'
  <2>1. /\ notificationQueue' \in Seq([proc : Proc, events : Seq(EventRecord)])
        /\ crashes' \in Nat /\ file' \in [state : {"missing", "torn", "intact"}, text : Text]
        /\ calls' \in [Proc -> Nat]
    BY <1>3, <1>4, EmptySeq DEF TypeInv, StoreTypeOK
  <2>2. /\ created' \subseteq Subscription /\ delivered' \in [Subscription -> Seq(EventRecord)]
        /\ acknowledged' \subseteq EventRecord /\ observed' \subseteq EventRecord
    BY <1>4 DEF TypeInv, StoreTypeOK, history
  <2>3. QED
    BY <1>1, <1>2, <1>3, <1>4, <2>1, <2>2 DEF StoreTypeOK, ArgsType, ViewType
<1>6. BatchIsInStream'
  BY DEF CrashAndRestart, BatchIsInStream, ByProc
<1>7. QED
  BY <1>5, <1>6 DEF TypeInv

LEMMA StoreKeepsTypes ==
  ASSUME TypeInv, RunHasJob, LockInv', [Next]_vars
  PROVE  TypeInv'
<1>1. ASSUME NEW p \in Proc, CallStep(p) PROVE TypeInv'
  BY <1>1, QueriesKeepTypes, ChecksKeepTypes, AppendsKeepTypes, SavesKeepTypes
     DEF CallStep
<1>2. CASE UNCHANGED vars
  <2>1. StoreTypeOK'
    BY <1>2 DEF vars, lockVars, streamVars, callVars, notifyVars, subVars, fileVars,
                history, process, TypeInv, StoreTypeOK, LockInv
  <2>2. BatchIsInStream'
    BY <1>2 DEF vars, streamVars, callVars, TypeInv, BatchIsInStream
  <2>3. QED
    BY <2>1, <2>2 DEF TypeInv
<1>3. QED
  BY <1>1, <1>2, NotifierKeepsTypes, RestartKeepsTypes DEF Next

LEMMA StoreKeepsRunHasJob ==
  ASSUME TypeInv, RunHasJob, [Next]_vars
  PROVE  RunHasJob'
<1>1. ASSUME NEW job, notificationQueue' = Append(notificationQueue, job),
             UNCHANGED notifying
      PROVE  RunHasJob'
  <2> DEFINE Job == [proc : Proc, events : Seq(EventRecord)] \cup {job}
  <2>1. notificationQueue \in Seq(Job)
    BY SeqMonotonic DEF TypeInv, StoreTypeOK
  <2>2. Append(notificationQueue, job) # <<>>
    BY <2>1, AppendProperties
  <2>3. QED
    BY <1>1, <2>2 DEF RunHasJob
<1>2. ASSUME UNCHANGED notifyVars PROVE RunHasJob'
  BY <1>2 DEF RunHasJob, notifyVars
<1>3. ASSUME NEW p \in Proc, CallStep(p) PROVE RunHasJob'
  BY <1>1, <1>2, <1>3
     DEF CallStep, QueryCall, QueryRead, QueryAll, AppendCall, CheckContext,
         ContextChanged, AppendToStream, SaveCall, Serialize, WriteSucceeds,
         SaveFails, Publish, notifyVars
<1>4. ASSUME NEW s \in Subscription, SubscriptionStep(s) PROVE RunHasJob'
  BY <1>4 DEF SubscriptionStep, Subscribe, Unsubscribe, HandlerSettles, RunHasJob,
              notifyVars
<1>5. CASE NotifyStart \/ NotifyEnd \/ Close
  BY <1>5 DEF NotifyStart, NotifyEnd, Close, RunHasJob, notifyVars
<1>6. CASE CrashAndRestart
  BY <1>6 DEF CrashAndRestart, CreateFromFile, RunHasJob
<1>7. CASE UNCHANGED vars
  BY <1>2, <1>7 DEF vars
<1>8. QED
  BY <1>3, <1>4, <1>5, <1>6, <1>7 DEF Next

(* The three layers so far.                                                *)
BaseInv == LockInv /\ TypeInv /\ RunHasJob

LEMMA BaseInvInit == Init => BaseInv
  BY LockInvInit, TypeInvInit DEF Init, BaseInv, RunHasJob

LEMMA StoreKeepsBase ==
  ASSUME BaseInv, [Next]_vars
  PROVE  BaseInv'
BY StoreKeepsLockInv, StoreKeepsTypes, StoreKeepsRunHasJob DEF BaseInv

(* The variables of the store keep their types, with any callers, batches, *)
(* queries, file errors and crashes.                                       *)
THEOREM StoreTypeCorrect == Spec => []StoreTypeOK
<1>1. BaseInv => StoreTypeOK
  BY DEF BaseInv, TypeInv
<1>2. QED
  BY <1>1, BaseInvInit, StoreKeepsBase, PTL DEF Spec

-----------------------------------------------------------------------------
(* Layer 3: the lock and the notification chain agree with where the calls *)
(* are.  The lock alone is not inductive: a call goes back to idle when    *)
(* its notification is done, which is safe only because it had let go of   *)
(* the lock when it joined the chain, and because it is in the chain once. *)

CallFollows(p) ==
  /\ ~Idle(p) => At(p, "reading") \/ (p \notin Saver /\
                   pc[p] \in {"locking", "comparing", "importing", "writing"})
  /\ p \notin Saver /\ pc[p] \in {"comparing", "importing", "writing"}
       => grant[p] = "write"

ChainFollowsCalls ==
  /\ \A i \in 1..Len(notificationQueue) : At(notificationQueue[i].proc, "notifying")
  /\ \A i, j \in 1..Len(notificationQueue) :
       notificationQueue[i].proc = notificationQueue[j].proc => i = j

CallInv == LockFollowsCalls /\ ChainFollowsCalls

(* A step of one call leaves the other calls where they are.               *)
LEMMA OthersStay ==
  ASSUME BaseInv, NEW p \in Proc, CallStep(p), NEW r \in Proc \ {p}
  PROVE  /\ pc'[r] = pc[r] /\ args'[r] = args[r] /\ view'[r] = view[r]
         /\ context'[r] = context[r]
         /\ Idle(r)' <=> Idle(r)
         /\ grant[r] # "none" => grant'[r] = grant[r]
<1>1. pc'[r] = pc[r] /\ args'[r] = args[r] /\ view'[r] = view[r] /\ context'[r] = context[r]
  BY DEF BaseInv, TypeInv, StoreTypeOK, CallStep, QueryCall, QueryRead, QueryAll,
         AppendCall, CheckContext, ContextChanged, AppendToStream, SaveCall,
         Serialize, WriteSucceeds, SaveFails, Publish, StartCall, Goto
<1>2. CASE LockStep(p)
  BY <1>1, <1>2, OthersKeepTheLock DEF BaseInv
<1>3. CASE UNCHANGED lockVars
  BY <1>1, <1>3 DEF lockVars, Idle, Waiting
<1>4. QED
  BY <1>2, <1>3, CallsUseTheLock

LEMMA CallStepFollows ==
  ASSUME BaseInv, NEW p \in Proc, CallFollows(p), CallStep(p)
  PROVE  CallFollows(p)'
<1>1. pc \in [Proc -> Label] /\ LockInv
  BY DEF BaseInv, TypeInv, StoreTypeOK
<1>2. ASSUME UNCHANGED lockVars PROVE Idle(p)' <=> Idle(p)
  BY <1>2 DEF lockVars, Idle, Waiting
<1>3. ASSUME grant[p] # "none" PROVE ~Idle(p)
  BY <1>3 DEF Idle
<1>4. ASSUME Goto(p, "idle") \/ Goto(p, "notifying"), Idle(p)' PROVE CallFollows(p)'
  BY <1>1, <1>4 DEF Goto, CallFollows
<1>5. ASSUME NEW records, Publish(p, records) PROVE CallFollows(p)'
  BY <1>1, <1>4, <1>5, ReleaseMakesIdle DEF Publish
<1>6. CASE QueryCall(p)
  BY <1>1, <1>6 DEF QueryCall, StartCall, Goto, CallFollows, At
<1>7. CASE QueryRead(p)
  BY <1>1, <1>4, <1>7, ReleaseMakesIdle DEF QueryRead
<1>8. CASE QueryAll(p)
  <2>1. Idle(p)
    BY <1>8 DEF QueryAll, StartCall, CallFollows, At
  <2>2. QED
    BY <1>2, <1>4, <1>8, <2>1 DEF QueryAll, StartCall
<1>9. CASE AppendCall(p)
  BY <1>1, <1>9 DEF AppendCall, MayCall, StartCall, Goto, CallFollows, At
<1>10. CASE CheckContext(p)
  <2>1. p \notin Saver
    BY <1>3, <1>10 DEF CheckContext, CallFollows, At
  <2>2. QED
    BY <1>1, <1>10, <2>1 DEF CheckContext, CallFollows, Goto, At, lockVars
<1>11. CASE ContextChanged(p)
  BY <1>1, <1>4, <1>11, ReleaseMakesIdle DEF ContextChanged
<1>12. CASE AppendToStream(p)
  <2>1. p \notin Saver
    BY <1>3, <1>12 DEF AppendToStream, CallFollows, At
  <2>2. CASE WriteThru
    BY <1>1, <1>12, <2>1, <2>2 DEF AppendToStream, CallFollows, Goto, At, lockVars
  <2>3. CASE ~WriteThru
    BY <1>5, <1>12, <2>3 DEF AppendToStream
  <2>4. QED
    BY <2>2, <2>3
<1>13. CASE SaveCall(p)
  <2>1. p \in Saver /\ Idle(p)'
    BY <1>2, <1>13 DEF SaveCall, StartCall, CallFollows, At
  <2>2. QED
    BY <2>1 DEF CallFollows
<1>14. CASE Serialize(p)
  <2>1. /\ Idle(p)' <=> Idle(p)
        /\ UNCHANGED grant /\ pc[p] = "importing" /\ pc' = [pc EXCEPT ![p] = "writing"]
    BY <1>2, <1>14 DEF Serialize, At, Goto, lockVars
  <2>2. QED
    BY <1>1, <2>1 DEF CallFollows, At
<1>15. CASE WriteSucceeds(p)
  <2>1. CASE p \in Saver
    <3>1. Idle(p)'
      BY <1>2, <1>15, <2>1 DEF WriteSucceeds, CallFollows, At
    <3>2. QED
      BY <1>4, <1>15, <2>1, <3>1 DEF WriteSucceeds
  <2>2. CASE p \notin Saver
    BY <1>5, <1>15, <2>2 DEF WriteSucceeds
  <2>3. QED
    BY <2>1, <2>2
<1>16. CASE SaveFails(p)
  <2>1. CASE p \in Saver
    <3>1. Idle(p)'
      BY <1>2, <1>16, <2>1 DEF SaveFails, CallFollows, At
    <3>2. QED
      BY <1>4, <1>16, <3>1 DEF SaveFails
  <2>2. CASE p \notin Saver
    BY <1>1, <1>4, <1>16, <2>2, ReleaseMakesIdle DEF SaveFails
  <2>3. QED
    BY <2>1, <2>2
<1>17. QED
  BY <1>6, <1>7, <1>8, <1>9, <1>10, <1>11, <1>12, <1>13, <1>14, <1>15, <1>16
     DEF CallStep

(* A call joins the chain at most once, when it publishes.                 *)
LEMMA CallStepKeepsChain ==
  ASSUME BaseInv, ChainFollowsCalls, NEW p \in Proc, CallStep(p)
  PROVE  ChainFollowsCalls'
<1> DEFINE Job == [proc : Proc, events : Seq(EventRecord)]
<1>1. /\ notificationQueue \in Seq(Job) /\ Len(notificationQueue) \in Nat
      /\ pc \in [Proc -> Label]
  BY LenProperties DEF BaseInv, TypeInv, StoreTypeOK
<1>2. \A i \in 1..Len(notificationQueue) : notificationQueue[i].proc \in Proc
  <2>1. \A i \in 1..Len(notificationQueue) : notificationQueue[i] \in Job
    BY <1>1, ElementOfSeq
  <2>2. QED
    BY <2>1
<1>3. ~At(p, "notifying")
  BY DEF CallStep, QueryCall, QueryRead, QueryAll, AppendCall, CheckContext,
         ContextChanged, AppendToStream, SaveCall, Serialize, WriteSucceeds,
         SaveFails, StartCall, At
<1>4. \A i \in 1..Len(notificationQueue) :
        /\ notificationQueue[i].proc # p
        /\ pc'[notificationQueue[i].proc] = "notifying"
  <2> SUFFICES ASSUME NEW i \in 1..Len(notificationQueue)
               PROVE  /\ notificationQueue[i].proc # p
                      /\ pc'[notificationQueue[i].proc] = "notifying"
    OBVIOUS
  <2>1. At(notificationQueue[i].proc, "notifying")
    BY DEF ChainFollowsCalls
  <2>2. QED
    BY <1>2, <1>3, <2>1, OthersStay DEF At
<1>5. CASE UNCHANGED notificationQueue
  BY <1>4, <1>5 DEF ChainFollowsCalls, At
<1>6. ASSUME NEW records,
             notificationQueue' = Append(notificationQueue, [proc |-> p, events |-> records]),
             pc' = [pc EXCEPT ![p] = "notifying"]
      PROVE  ChainFollowsCalls'
  <2> DEFINE job == [proc |-> p, events |-> records]
  <2>1. /\ Len(notificationQueue') = Len(notificationQueue) + 1
        /\ \A i \in 1..Len(notificationQueue) : notificationQueue'[i] = notificationQueue[i]
        /\ notificationQueue'[Len(notificationQueue) + 1] = job
    <3>1. notificationQueue \in Seq(Job \cup {job})
      BY <1>1, SeqMonotonic
    <3>2. QED
      BY <1>6, <3>1, AppendProperties
  <2>2. job.proc = p /\ pc'[p] = "notifying"
    BY <1>1, <1>6
  <2> HIDE DEF job
  <2>3. ASSUME NEW i \in 1..Len(notificationQueue')
        PROVE  pc'[notificationQueue'[i].proc] = "notifying"
    BY <1>1, <1>4, <2>1, <2>2
  <2>4. ASSUME NEW i \in 1..Len(notificationQueue'), NEW j \in 1..Len(notificationQueue'),
               notificationQueue'[i].proc = notificationQueue'[j].proc
        PROVE  i = j
    <3>1. CASE i \in 1..Len(notificationQueue) /\ j \in 1..Len(notificationQueue)
      BY <2>1, <2>4, <3>1 DEF ChainFollowsCalls
    <3>2. CASE i = Len(notificationQueue) + 1 \/ j = Len(notificationQueue) + 1
      BY <1>1, <1>4, <2>1, <2>2, <2>4, <3>2
    <3>3. QED
      BY <1>1, <2>1, <3>1, <3>2
  <2>5. QED
    BY <2>3, <2>4 DEF ChainFollowsCalls, At
<1>7. \/ UNCHANGED notificationQueue
      \/ \E records : Publish(p, records)
  BY DEF CallStep, QueryCall, QueryRead, QueryAll, AppendCall, CheckContext,
         ContextChanged, AppendToStream, SaveCall, Serialize, WriteSucceeds,
         SaveFails, notifyVars
<1>8. QED
  BY <1>5, <1>6, <1>7 DEF Publish, Goto

LEMMA NotifyEndKeepsCalls ==
  ASSUME BaseInv, CallInv, NotifyEnd
  PROVE  CallInv'
<1> DEFINE Job == [proc : Proc, events : Seq(EventRecord)]
           job == Head(notificationQueue)
<1>1. /\ notificationQueue \in Seq(Job) /\ notificationQueue # <<>>
      /\ pc \in [Proc -> Label]
  BY DEF BaseInv, TypeInv, StoreTypeOK, RunHasJob, NotifyEnd
<1>2. /\ job = notificationQueue[1] /\ job \in Job
      /\ Len(notificationQueue) \in Nat \ {0}
      /\ Len(Tail(notificationQueue)) = Len(notificationQueue) - 1
      /\ \A i \in 1..Len(notificationQueue) - 1 :
           Tail(notificationQueue)[i] = notificationQueue[i+1]
  <2>1. job \in Job /\ Tail(notificationQueue) \in Seq(Job)
        /\ Len(Tail(notificationQueue)) = Len(notificationQueue) - 1
        /\ \A i \in 1..Len(Tail(notificationQueue)) :
             Tail(notificationQueue)[i] = notificationQueue[i+1]
    BY <1>1, HeadTailProperties
  <2>2. Len(notificationQueue) \in Nat \ {0}
    BY <1>1, EmptySeq
  <2>3. job = notificationQueue[1]
    BY <1>1
  <2>4. QED
    BY <2>1, <2>2, <2>3
<1>3. /\ job.proc \in Proc /\ At(job.proc, "notifying")
      /\ notificationQueue' = Tail(notificationQueue)
      /\ pc' = [pc EXCEPT ![job.proc] = "idle"] /\ UNCHANGED lockVars
  BY <1>2 DEF CallInv, ChainFollowsCalls, NotifyEnd, Goto
<1>4. \A r \in Proc : Idle(r)' <=> Idle(r)
  BY <1>3 DEF lockVars, Idle, Waiting
<1>5. ASSUME NEW r \in Proc PROVE CallFollows(r)'
  <2>1. CallFollows(r)
    BY DEF CallInv, LockFollowsCalls, CallFollows
  <2>2. CASE r = job.proc
    BY <1>1, <1>3, <1>4, <2>1, <2>2 DEF CallFollows, At
  <2>3. CASE r # job.proc
    BY <1>1, <1>3, <1>4, <2>1, <2>3 DEF CallFollows, At, lockVars
  <2>4. QED
    BY <2>2, <2>3
<1> HIDE DEF job
<1>6. ChainFollowsCalls'
  <2>1. \A i \in 1..Len(notificationQueue') :
          i + 1 \in 1..Len(notificationQueue) /\ notificationQueue'[i] = notificationQueue[i+1]
    BY <1>2, <1>3
  <2>2. \A i \in 1..Len(notificationQueue') :
          notificationQueue'[i].proc # job.proc
    BY <1>2, <2>1 DEF CallInv, ChainFollowsCalls
  <2>3. \A i \in 1..Len(notificationQueue') : notificationQueue'[i].proc \in Proc
    <3>1. \A i \in 1..Len(notificationQueue) : notificationQueue[i] \in Job
      BY <1>1, ElementOfSeq
    <3>2. QED
      BY <2>1, <3>1
  <2>4. ASSUME NEW i \in 1..Len(notificationQueue'), NEW j \in 1..Len(notificationQueue'),
               notificationQueue'[i].proc = notificationQueue'[j].proc
        PROVE  i = j
    <3>1. i + 1 = j + 1
      BY <2>1, <2>4 DEF CallInv, ChainFollowsCalls
    <3>2. QED
      BY <3>1
  <2>5. \A i \in 1..Len(notificationQueue') :
          pc'[notificationQueue'[i].proc] = "notifying"
    BY <1>1, <1>3, <2>1, <2>2, <2>3 DEF CallInv, ChainFollowsCalls, At
  <2>6. QED
    BY <2>4, <2>5 DEF ChainFollowsCalls, At
<1>7. QED
  BY <1>5, <1>6 DEF CallInv, LockFollowsCalls, CallFollows

LEMMA StoreKeepsCalls ==
  ASSUME BaseInv, CallInv, [Next]_vars
  PROVE  CallInv'
<1>1. ASSUME NEW p \in Proc, CallStep(p) PROVE CallInv'
  <2>1. ASSUME NEW r \in Proc PROVE CallFollows(r)'
    <3>1. CallFollows(r)
      BY DEF CallInv, LockFollowsCalls, CallFollows
    <3>2. CASE r = p
      BY <1>1, <3>1, <3>2, CallStepFollows
    <3>3. CASE r # p
      <4>1. /\ pc'[r] = pc[r]
            /\ Idle(r)' <=> Idle(r)
            /\ grant[r] # "none" => grant'[r] = grant[r]
        BY <1>1, <3>3, OthersStay
      <4>2. grant[r] = "write" => grant'[r] = "write"
        BY <4>1
      <4>3. QED
        BY <3>1, <4>1, <4>2 DEF CallFollows, At
    <3>4. QED
      BY <3>2, <3>3
  <2>2. ChainFollowsCalls'
    BY <1>1, CallStepKeepsChain DEF CallInv
  <2>3. QED
    BY <2>1, <2>2 DEF CallInv, LockFollowsCalls, CallFollows
<1>2. ASSUME UNCHANGED <<lockVars, pc, notificationQueue>> PROVE CallInv'
  BY <1>2 DEF CallInv, LockFollowsCalls, ChainFollowsCalls, At, Idle, Waiting, lockVars
<1>3. ASSUME NEW s \in Subscription, SubscriptionStep(s) PROVE CallInv'
  BY <1>2, <1>3 DEF SubscriptionStep, Subscribe, Unsubscribe, HandlerSettles,
                    notifyVars, callVars
<1>4. CASE NotifyStart \/ Close
  BY <1>2, <1>4 DEF NotifyStart, Close, notifyVars, callVars
<1>5. CASE CrashAndRestart
  <2>1. /\ \A p \in Proc : Idle(p)' /\ pc'[p] = "idle"
        /\ notificationQueue' = <<>>
    BY <1>5 DEF CrashAndRestart, CreateFromFile, NewLock, ByProc, Idle, Waiting
  <2>2. QED
    BY <2>1 DEF CallInv, LockFollowsCalls, ChainFollowsCalls
<1>6. CASE UNCHANGED vars
  BY <1>2, <1>6 DEF vars, callVars, notifyVars
<1>7. QED
  BY <1>1, <1>3, <1>4, <1>5, <1>6, NotifyEndKeepsCalls DEF Next

-----------------------------------------------------------------------------
(* Layer 4: the numbering of the stream.  A restart takes the stream from  *)
(* the file and the file comes from what a call serialized, so the         *)
(* invariant is about all three.                                           *)

IsNumbered(text) == IsDense(text.records) /\ text.last = Len(text.records)

NumberInv ==
  /\ StreamIsDense
  /\ \A p \in Proc : IsNumbered(saving[p])

LEMMA EmptyTextIsNumbered == IsNumbered(EmptyText)
BY DEF IsNumbered, EmptyText, IsDense

LEMMA AppendKeepsNumbers ==
  ASSUME BaseInv, NumberInv, NEW p \in Proc, AppendToStream(p)
  PROVE  NumberInv'
<1>1. /\ eventStream \in Seq(EventRecord) /\ args[p].batch \in Seq(EventType)
      /\ IsDense(eventStream) /\ lastSequenceNumber = Len(eventStream)
  BY DEF BaseInv, TypeInv, StoreTypeOK, NumberInv, StreamIsDense
<1> DEFINE records == Numbered(args[p].batch, lastSequenceNumber)
<1>2. Len(records) = Len(args[p].batch)
  BY RecordTypes DEF BaseInv
<1>3. /\ eventStream' = eventStream \o Numbered(args[p].batch, Len(eventStream))
      /\ lastSequenceNumber' = lastSequenceNumber + Len(args[p].batch)
      /\ UNCHANGED fileVars
  BY <1>1, <1>2 DEF AppendToStream
<1>4. IsDense(eventStream') /\ Len(eventStream') = Len(eventStream) + Len(args[p].batch)
  BY <1>1, <1>3, AppendKeepsMatches
<1>5. QED
  BY <1>1, <1>3, <1>4 DEF NumberInv, StreamIsDense, fileVars, IsNumbered

LEMMA SavesKeepNumbers ==
  ASSUME BaseInv, NumberInv, NEW p \in Proc, Serialize(p) \/ WriteSucceeds(p)
  PROVE  NumberInv'
<1>1. /\ IsNumbered([records |-> eventStream, last |-> lastSequenceNumber])
      /\ IsDense(eventStream) /\ lastSequenceNumber = Len(eventStream)
      /\ saving \in [Proc -> Text] /\ IsNumbered(saving[p])
  BY DEF BaseInv, TypeInv, StoreTypeOK, NumberInv, StreamIsDense, IsNumbered
<1>2. CASE Serialize(p)
  <2>1. /\ saving' = [saving EXCEPT ![p] =
                        [records |-> eventStream, last |-> lastSequenceNumber]]
        /\ file'.text = EmptyText /\ UNCHANGED streamVars
    BY <1>2 DEF Serialize, File
  <2>2. \A r \in Proc : IsNumbered(saving'[r])
    BY <1>1, <2>1 DEF NumberInv
  <2>3. StreamIsDense'
    BY <1>1, <2>1, EmptyTextIsNumbered DEF StreamIsDense, streamVars, IsNumbered
  <2>4. QED
    BY <2>2, <2>3 DEF NumberInv, IsNumbered
<1>3. CASE WriteSucceeds(p)
  <2>1. /\ file'.text = saving[p] \/ file'.text = EmptyText
        /\ UNCHANGED streamVars /\ UNCHANGED saving
    BY <1>3 DEF WriteSucceeds, File
  <2>2. IsNumbered(file'.text)
    BY <1>1, <2>1, EmptyTextIsNumbered
  <2>3. StreamIsDense'
    BY <1>1, <2>1, <2>2 DEF StreamIsDense, streamVars, IsNumbered
  <2>4. QED
    BY <2>1, <2>3 DEF NumberInv, IsNumbered
<1>4. QED
  BY <1>2, <1>3

LEMMA StoreKeepsNumbers ==
  ASSUME BaseInv, NumberInv, [Next]_vars
  PROVE  NumberInv'
<1>1. ASSUME UNCHANGED <<streamVars, file, saving>> PROVE NumberInv'
  BY <1>1 DEF NumberInv, StreamIsDense, IsNumbered, streamVars
<1>2. ASSUME NEW p \in Proc, CallStep(p) PROVE NumberInv'
  BY <1>1, <1>2, AppendKeepsNumbers, SavesKeepNumbers
     DEF CallStep, QueryCall, QueryRead, QueryAll, AppendCall, CheckContext,
         ContextChanged, SaveCall, SaveFails, fileVars
<1>3. ASSUME NEW s \in Subscription, SubscriptionStep(s) PROVE NumberInv'
  BY <1>1, <1>3 DEF SubscriptionStep, Subscribe, Unsubscribe, HandlerSettles, fileVars
<1>4. CASE NotifyStart \/ NotifyEnd \/ Close
  BY <1>1, <1>4 DEF NotifyStart, NotifyEnd, Close, fileVars
<1>5. CASE CrashAndRestart
  <2>1. /\ eventStream' = file.text.records /\ lastSequenceNumber' = file.text.last
        /\ UNCHANGED file
        /\ saving' = [p \in Proc |-> EmptyText]
    BY <1>5 DEF CrashAndRestart, CreateFromFile, ByProc
  <2>2. QED
    BY <2>1, EmptyTextIsNumbered DEF NumberInv, StreamIsDense, IsNumbered
<1>6. CASE UNCHANGED vars
  BY <1>1, <1>6 DEF vars, fileVars
<1>7. QED
  BY <1>2, <1>3, <1>4, <1>5, <1>6 DEF Next

-----------------------------------------------------------------------------
(* Layer 5: what the callers know.  The events a query gave are the        *)
(* matching events of the present stream up to the maximum it gave; a      *)
(* decision rests on those, and possibly on later ones; and the maximum    *)
(* append() has read stays true while it holds the write lock.             *)

ViewIsPast(p) ==
  /\ view[p].max <= Len(eventStream)
  /\ view[p].events = {e \in MatchingEvents(eventStream, view[p].query) :
                         e.sequenceNumber <= view[p].max}

DecisionIsPast(p) ==
  pc[p] \in {"locking", "comparing"} =>
    /\ args[p].query = view[p].query
    /\ view[p].events \subseteq args[p].basis
    /\ args[p].basis \subseteq MatchingEvents(eventStream, args[p].query)

ContextIsCurrent(p) ==
  At(p, "comparing") /\ p \notin Saver =>
    context[p] = MaxSequenceNumber(eventStream, args[p].query)

KnowledgeInv ==
  \A p \in Proc : ViewIsPast(p) /\ DecisionIsPast(p) /\ ContextIsCurrent(p)

StreamFacts ==
  /\ eventStream \in Seq(EventRecord) /\ IsDense(eventStream)
  /\ Len(eventStream) \in Nat
  /\ lastSequenceNumber = Len(eventStream)

LEMMA StreamIsWellFormed ==
  ASSUME BaseInv, NumberInv
  PROVE  StreamFacts
BY LenProperties DEF BaseInv, TypeInv, StoreTypeOK, NumberInv, StreamIsDense, StreamFacts

(* An answer is past knowledge from the moment it is given.                *)
LEMMA AnswersArePast ==
  ASSUME StreamFacts, NEW query
  PROVE  /\ Answer(query).max <= Len(eventStream)
         /\ Answer(query).query = query
         /\ Answer(query).events =
              {e \in MatchingEvents(eventStream, query) :
                 e.sequenceNumber <= Answer(query).max}
<1>1. /\ MaxSequenceNumber(eventStream, query) \in 0..Len(eventStream)
      /\ \A e \in MatchingEvents(eventStream, query) :
           e.sequenceNumber <= MaxSequenceNumber(eventStream, query)
  BY MaximumBoundsMatches DEF StreamFacts
<1>2. QED
  BY <1>1 DEF Answer, StreamFacts

(* Nothing is known before the first query.                                *)
LEMMA NothingIsPast ==
  ASSUME StreamFacts
  PROVE  /\ NothingRead.max <= Len(eventStream)
         /\ NothingRead.events = {e \in MatchingEvents(eventStream, NothingRead.query) :
                                    e.sequenceNumber <= NothingRead.max}
<1>1. \A e \in MatchingEvents(eventStream, AllEvents) : ~(e.sequenceNumber <= 0)
  BY MaximumBoundsMatches DEF StreamFacts
<1>2. QED
  BY <1>1 DEF NothingRead, StreamFacts

(* The live array of an unfiltered query holds the events that match it.   *)
LEMMA AllEventsMatch ==
  ASSUME StreamFacts
  PROVE  Elements(eventStream) = MatchingEvents(eventStream, AllEvents)
BY DEF StreamFacts, Elements, MatchingEvents, MatchingIndices, Matches, AllEvents, IsDense

(* The step of an append: past knowledge stays past knowledge, and no      *)
(* other call is comparing, for it would hold the write lock.              *)
LEMMA AppendKeepsKnowledge ==
  ASSUME BaseInv, CallInv, NumberInv, KnowledgeInv, NEW p \in Proc, AppendToStream(p)
  PROVE  KnowledgeInv'
<1>1. StreamFacts
  BY StreamIsWellFormed
<1>2. /\ eventStream' = eventStream \o Numbered(args[p].batch, Len(eventStream))
      /\ args[p].batch \in Seq(EventType)
      /\ grant[p] = "write" /\ pc[p] \in {"locking", "comparing"}
      /\ UNCHANGED <<args, view, context>>
  BY <1>1 DEF AppendToStream, At, StreamFacts, BaseInv, TypeInv, StoreTypeOK
<1>3. \A query :
        /\ Len(eventStream') = Len(eventStream) + Len(args[p].batch)
        /\ MatchingEvents(eventStream, query) \subseteq MatchingEvents(eventStream', query)
        /\ \A e \in MatchingEvents(eventStream', query) :
             e.sequenceNumber <= Len(eventStream) => e \in MatchingEvents(eventStream, query)
  BY <1>1, <1>2, AppendKeepsMatches DEF StreamFacts
<1>4. /\ Len(args[p].batch) \in Nat
      /\ \A r \in Proc : view[r].max \in Nat
      /\ IsDense(eventStream') /\ eventStream' \in Seq(EventRecord)
  BY <1>1, <1>2, AppendKeepsMatches, LenProperties
     DEF StreamFacts, BaseInv, TypeInv, StoreTypeOK
<1>5. \A query : \A e \in MatchingEvents(eventStream', query) : e.sequenceNumber \in Nat
  <2>1. \A query : \A e \in MatchingEvents(eventStream', query) :
          e.sequenceNumber \in 1..Len(eventStream')
    BY <1>4, MaximumBoundsMatches
  <2>2. Len(eventStream') \in Nat
    BY <1>4, LenProperties
  <2>3. QED
    BY <2>1, <2>2
<1>6. /\ pc' \in [Proc -> Label] /\ pc'[p] \in {"importing", "notifying"}
      /\ \A r \in Proc \ {p} : pc'[r] = pc[r]
  BY DEF AppendToStream, Publish, Goto, BaseInv, TypeInv, StoreTypeOK, Label
<1>7. ASSUME NEW r \in Proc PROVE ViewIsPast(r)'
  <2>1. /\ view[r].max <= Len(eventStream)
        /\ view[r].events = {e \in MatchingEvents(eventStream, view[r].query) :
                               e.sequenceNumber <= view[r].max}
    BY DEF KnowledgeInv, ViewIsPast
  <2>2. view[r].max <= Len(eventStream')
    BY <1>1, <1>3, <1>4, <2>1 DEF StreamFacts
  <2>3. \A e \in MatchingEvents(eventStream', view[r].query) :
          e.sequenceNumber <= view[r].max => e \in MatchingEvents(eventStream, view[r].query)
    BY <1>1, <1>3, <1>4, <1>5, <2>1 DEF StreamFacts
  <2>4. QED
    BY <1>2, <1>3, <2>1, <2>2, <2>3 DEF ViewIsPast
<1>8. ASSUME NEW r \in Proc PROVE DecisionIsPast(r)'
  <2>1. CASE r = p
    BY <1>6, <2>1 DEF DecisionIsPast
  <2>2. CASE r # p
    BY <1>2, <1>3, <1>6, <2>2 DEF DecisionIsPast, KnowledgeInv
  <2>3. QED
    BY <2>1, <2>2
<1>9. ASSUME NEW r \in Proc PROVE ContextIsCurrent(r)'
  <2>1. CASE r = p
    BY <1>6, <2>1 DEF ContextIsCurrent, At
  <2>2. CASE r # p
    <3>1. ~(At(r, "comparing") /\ r \notin Saver)
      BY <1>2, <2>2 DEF CallInv, LockFollowsCalls, At, BaseInv, LockInv, MutualExclusion
    <3>2. QED
      BY <1>6, <2>2, <3>1 DEF ContextIsCurrent, At
  <2>3. QED
    BY <2>1, <2>2
<1>10. QED
  BY <1>7, <1>8, <1>9 DEF KnowledgeInv

(* Every other step of a call leaves the stream alone.                     *)
LEMMA CallsKeepKnowledge ==
  ASSUME BaseInv, NumberInv, KnowledgeInv, NEW p \in Proc, CallStep(p),
         ~AppendToStream(p)
  PROVE  KnowledgeInv'
<1>1. StreamFacts
  BY StreamIsWellFormed
<1>2. UNCHANGED eventStream
  BY DEF CallStep, QueryCall, QueryRead, QueryAll, AppendCall, CheckContext,
         ContextChanged, SaveCall, Serialize, WriteSucceeds, SaveFails, streamVars
<1>3. ASSUME NEW r \in Proc \ {p}
      PROVE  ViewIsPast(r)' /\ DecisionIsPast(r)' /\ ContextIsCurrent(r)'
  <2>1. /\ pc'[r] = pc[r] /\ args'[r] = args[r] /\ view'[r] = view[r]
        /\ context'[r] = context[r]
    BY OthersStay
  <2>2. QED
    BY <1>2, <2>1 DEF KnowledgeInv, ViewIsPast, DecisionIsPast, ContextIsCurrent, At
<1>4. /\ pc \in [Proc -> Label] /\ args \in [Proc -> ArgsType]
      /\ view \in [Proc -> ViewType] /\ context \in [Proc -> Nat]
  BY DEF BaseInv, TypeInv, StoreTypeOK, ArgsType, ViewType
<1>5. ViewIsPast(p) /\ DecisionIsPast(p) /\ ContextIsCurrent(p)
  BY DEF KnowledgeInv
<1>6. ASSUME pc'[p] \notin {"locking", "comparing"}
      PROVE  DecisionIsPast(p)' /\ ContextIsCurrent(p)'
  BY <1>6 DEF DecisionIsPast, ContextIsCurrent, At
<1>7. ASSUME NEW query, view' = [view EXCEPT ![p] = Answer(query)]
      PROVE  ViewIsPast(p)'
  <2>1. view'[p] = Answer(query)
    BY <1>4, <1>7
  <2>2. QED
    BY <1>1, <1>2, <2>1, AnswersArePast DEF ViewIsPast
<1>8. ASSUME UNCHANGED view PROVE ViewIsPast(p)'
  BY <1>2, <1>5, <1>8 DEF ViewIsPast
<1> SUFFICES ViewIsPast(p)' /\ DecisionIsPast(p)' /\ ContextIsCurrent(p)'
  BY <1>3 DEF KnowledgeInv
<1>9. CASE QueryCall(p)
  BY <1>4, <1>6, <1>8, <1>9 DEF QueryCall, StartCall, Goto
<1>10. CASE QueryRead(p)
  BY <1>4, <1>6, <1>7, <1>10 DEF QueryRead, Goto
<1>11. CASE QueryAll(p)
  BY <1>4, <1>6, <1>7, <1>11 DEF QueryAll, StartCall, Goto
<1>12. CASE AppendCall(p)
  <2>1. /\ args'[p].query = view[p].query /\ args'[p].basis = InHand(p)
        /\ pc'[p] = "locking" /\ UNCHANGED view
    BY <1>4, <1>12 DEF AppendCall, StartCall, Goto
  <2>2. view[p].events \subseteq MatchingEvents(eventStream, view[p].query)
    BY <1>5 DEF ViewIsPast
  <2>3. /\ view[p].events \subseteq InHand(p)
        /\ InHand(p) \subseteq MatchingEvents(eventStream, view[p].query)
    BY <1>1, <2>2, AllEventsMatch DEF InHand
  <2>4. DecisionIsPast(p)'
    BY <1>2, <2>1, <2>3 DEF DecisionIsPast
  <2>5. ContextIsCurrent(p)'
    BY <2>1 DEF ContextIsCurrent, At
  <2>6. QED
    BY <1>8, <2>1, <2>4, <2>5
<1>13. CASE CheckContext(p)
  <2>1. /\ pc[p] = "locking" /\ pc'[p] = "comparing" /\ UNCHANGED <<view, args>>
        /\ context'[p] = MaxSequenceNumber(eventStream, args[p].query)
    BY <1>4, <1>13 DEF CheckContext, Goto, At
  <2>2. DecisionIsPast(p)' /\ ContextIsCurrent(p)'
    BY <1>2, <1>5, <2>1 DEF DecisionIsPast, ContextIsCurrent
  <2>3. QED
    BY <1>8, <2>1, <2>2
<1>14. CASE ContextChanged(p)
  BY <1>4, <1>6, <1>8, <1>14 DEF ContextChanged, Goto
<1>15. CASE SaveCall(p)
  BY <1>4, <1>6, <1>8, <1>15 DEF SaveCall, StartCall, Goto
<1>16. CASE Serialize(p)
  BY <1>4, <1>6, <1>8, <1>16 DEF Serialize, Goto
<1>17. CASE WriteSucceeds(p)
  BY <1>4, <1>6, <1>8, <1>17 DEF WriteSucceeds, Publish, Goto
<1>18. CASE SaveFails(p)
  BY <1>4, <1>6, <1>8, <1>18 DEF SaveFails, Goto
<1>19. QED
  BY <1>9, <1>10, <1>11, <1>12, <1>13, <1>14, <1>15, <1>16, <1>17, <1>18 DEF CallStep

LEMMA StoreKeepsKnowledge ==
  ASSUME BaseInv, CallInv, NumberInv, NumberInv', BaseInv', KnowledgeInv, [Next]_vars
  PROVE  KnowledgeInv'
<1>1. ASSUME NEW p \in Proc, CallStep(p) PROVE KnowledgeInv'
  BY <1>1, AppendKeepsKnowledge, CallsKeepKnowledge
<1>2. ASSUME UNCHANGED <<eventStream, args, view, context>>,
             \A p \in Proc : pc'[p] = pc[p] \/ pc'[p] = "idle"
      PROVE  KnowledgeInv'
  BY <1>2 DEF KnowledgeInv, ViewIsPast, DecisionIsPast, ContextIsCurrent, At
<1>3. ASSUME NEW s \in Subscription, SubscriptionStep(s) PROVE KnowledgeInv'
  BY <1>2, <1>3 DEF SubscriptionStep, Subscribe, Unsubscribe, HandlerSettles,
                    streamVars, callVars
<1>4. CASE NotifyStart \/ Close
  BY <1>2, <1>4 DEF NotifyStart, Close, streamVars, callVars
<1>5. CASE NotifyEnd
  <2>1. pc \in [Proc -> Label]
    BY DEF BaseInv, TypeInv, StoreTypeOK
  <2>2. \A p \in Proc : pc'[p] = pc[p] \/ pc'[p] = "idle"
    BY <1>5, <2>1 DEF NotifyEnd, Goto
  <2>3. QED
    BY <1>2, <1>5, <2>2 DEF NotifyEnd, streamVars
<1>6. CASE CrashAndRestart
  <2>1. \A p \in Proc : view'[p] = NothingRead /\ pc'[p] = "idle"
    BY <1>6 DEF CrashAndRestart, ByProc
  <2>2. StreamFacts'
    BY LenProperties DEF BaseInv, TypeInv, StoreTypeOK, NumberInv, StreamIsDense,
                         StreamFacts
  <2>3. \A e \in MatchingEvents(eventStream', AllEvents) : ~(e.sequenceNumber <= 0)
    BY <2>2, MaximumBoundsMatches DEF StreamFacts
  <2>4. \A p \in Proc : ViewIsPast(p)'
    BY <2>1, <2>2, <2>3 DEF ViewIsPast, NothingRead, StreamFacts
  <2>5. QED
    BY <2>1, <2>4 DEF KnowledgeInv, DecisionIsPast, ContextIsCurrent, At
<1>7. CASE UNCHANGED vars
  BY <1>2, <1>7 DEF vars, streamVars, callVars
<1>8. QED
  BY <1>1, <1>3, <1>4, <1>5, <1>6, <1>7 DEF Next

(* Where maximum and context agree, nothing was appended that matters.     *)
LEMMA AcceptedDecisionsAreCurrent ==
  ASSUME BaseInv, CallInv, NumberInv, KnowledgeInv, NEW p \in Proc,
         AppendToStream(p), args[p].conditional
  PROVE  args[p].basis = MatchingEvents(eventStream, args[p].query)
<1>1. At(p, "comparing") /\ context[p] = view[p].max /\ p \notin Saver
  BY DEF AppendToStream, CallInv, LockFollowsCalls, Idle, At
<1>2. /\ view[p].max = MaxSequenceNumber(eventStream, args[p].query)
      /\ args[p].query = view[p].query
      /\ view[p].events \subseteq args[p].basis
      /\ args[p].basis \subseteq MatchingEvents(eventStream, args[p].query)
      /\ view[p].events = {e \in MatchingEvents(eventStream, view[p].query) :
                             e.sequenceNumber <= view[p].max}
  BY <1>1 DEF KnowledgeInv, ViewIsPast, DecisionIsPast, ContextIsCurrent, At
<1>3. \A e \in MatchingEvents(eventStream, args[p].query) :
        e.sequenceNumber <= view[p].max
  BY <1>2, StreamIsWellFormed, MaximumBoundsMatches DEF StreamFacts
<1>4. QED
  BY <1>2, <1>3

-----------------------------------------------------------------------------
(* The layers together.                                                    *)
StoreInv == BaseInv /\ CallInv /\ NumberInv /\ KnowledgeInv

LEMMA StoreInvInit == Init => StoreInv
<1> SUFFICES ASSUME Init PROVE StoreInv
  OBVIOUS
<1>1. BaseInv
  BY BaseInvInit
<1>2. CallInv
  BY DEF Init, LockInit, CallInv, LockFollowsCalls, ChainFollowsCalls, ByProc, Idle,
         Waiting, At
<1>3. NumberInv
  BY EmptyTextIsNumbered
     DEF Init, NumberInv, StreamIsDense, IsNumbered, IsDense, ByProc, File, EmptyText
<1>4. KnowledgeInv
  <2>1. StreamFacts
    BY <1>1, <1>3, StreamIsWellFormed
  <2>2. \A p \in Proc : view[p] = NothingRead /\ pc[p] = "idle"
    BY DEF Init, ByProc
  <2>3. QED
    BY <2>1, <2>2, NothingIsPast
       DEF KnowledgeInv, ViewIsPast, DecisionIsPast, ContextIsCurrent, At
<1>5. QED
  BY <1>1, <1>2, <1>3, <1>4 DEF StoreInv

LEMMA StoreInvStep ==
  ASSUME StoreInv, [Next]_vars
  PROVE  StoreInv'
BY StoreKeepsBase, StoreKeepsCalls, StoreKeepsNumbers, StoreKeepsKnowledge DEF StoreInv

(* The strengthened invariant of the store holds in every reachable state. *)
THEOREM StoreSafety == Spec => []StoreInv
BY StoreInvInit, StoreInvStep, PTL DEF Spec

(* The write lock is held from the check of the context to the end of the  *)
(* write-through, and no way out of query() or append() keeps it.          *)
THEOREM LockIsReleased == Spec => []LockFollowsCalls
<1>1. StoreInv => LockFollowsCalls
  BY DEF StoreInv, CallInv
<1>2. QED
  BY <1>1, StoreSafety, PTL

(* Sequence numbers are dense in the stream and on file, across restarts.  *)
THEOREM StreamStaysDense == Spec => []StreamIsDense
<1>1. StoreInv => StreamIsDense
  BY DEF StoreInv, NumberInv
<1>2. QED
  BY <1>1, StoreSafety, PTL

(* Optimistic locking: append() accepts a conditional batch only while the *)
(* events its caller decided on are exactly those its query would give.    *)
THEOREM AcceptedDecisionsHold == Spec => DecisionIsCurrent
<1> DEFINE Current ==
      \A p \in Proc :
        result[p] = "none" /\ result'[p] = "accepted" /\ args[p].conditional =>
          args[p].basis = MatchingEvents(eventStream, args[p].query)
<1>1. ASSUME StoreInv, Next PROVE Current
  <2> SUFFICES ASSUME NEW p \in Proc, result[p] = "none", result'[p] = "accepted",
                      args[p].conditional
               PROVE  args[p].basis = MatchingEvents(eventStream, args[p].query)
    OBVIOUS
  <2>1. result \in [Proc -> {"none", "accepted", "refused", "failed", "resolved"}]
    BY <1>1 DEF StoreInv, BaseInv, TypeInv, StoreTypeOK
  <2>2. ASSUME NEW q \in Proc, CallStep(q) PROVE AppendToStream(p)
    BY <2>1, <2>2 DEF CallStep, QueryCall, QueryRead, QueryAll, AppendCall,
         CheckContext, ContextChanged, AppendToStream, SaveCall, Serialize,
         WriteSucceeds, SaveFails
  <2>3. ~ \E s \in Subscription : SubscriptionStep(s)
    BY DEF SubscriptionStep, Subscribe, Unsubscribe, HandlerSettles, callVars
  <2>4. ~(NotifyStart \/ NotifyEnd \/ Close)
    BY <2>1 DEF NotifyStart, NotifyEnd, Close, callVars
  <2>5. ~CrashAndRestart
    BY DEF CrashAndRestart, ByProc
  <2>6. AppendToStream(p)
    BY <1>1, <2>2, <2>3, <2>4, <2>5 DEF Next
  <2>7. QED
    BY <1>1, <2>6, AcceptedDecisionsAreCurrent DEF StoreInv
<1>2. StoreInv /\ [Next]_vars => [Current]_vars
  BY <1>1
<1>3. QED
  BY <1>2, StoreSafety, PTL DEF Spec, DecisionIsCurrent

-----------------------------------------------------------------------------
(* The refinement of the log with atomic conditional appends.             *)

(* What the mapping needs beyond the invariant of the store.  A text, on   *)
(* file or on its way there, is a beginning of the stream; the maximum of  *)
(* an answer is that of one of its events; and an append() that was        *)
(* accepted is not anything else before it returns.                        *)

Begins(text) ==
  /\ Len(text.records) <= Len(eventStream)
  /\ \A i \in 1..Len(text.records) : text.records[i] = eventStream[i]

TextsBegin == Begins(file.text) /\ \A p \in Proc : Begins(saving[p])

MaximumIsSeen(p) ==
  view[p].max = 0 \/ \E e \in view[p].events : e.sequenceNumber = view[p].max

VerdictStands(p) ==
  /\ At(p, "comparing") => args[p].conditional
  /\ pc[p] = "notifying" \/ (p \notin Saver /\ pc[p] \in {"importing", "writing"})
       => result[p] = "accepted"

MappingInv == TextsBegin /\ \A p \in Proc : MaximumIsSeen(p) /\ VerdictStands(p)

LEMMA MappingInvInit == Init => MappingInv
<1> SUFFICES ASSUME Init PROVE MappingInv
  OBVIOUS
<1>1. Len(<<>>) = 0 /\ Len(eventStream) = 0
  BY DEF Init
<1>2. TextsBegin
  BY <1>1 DEF Init, TextsBegin, Begins, File, EmptyText, ByProc
<1>3. QED
  BY <1>2 DEF Init, MappingInv, MaximumIsSeen, VerdictStands, NothingRead, ByProc, At

(* The answer to a query has its maximum from one of its events.           *)
LEMMA AnswersShowTheirMaximum ==
  ASSUME eventStream \in Seq(EventRecord), NEW query
  PROVE  \/ Answer(query).max = 0
         \/ \E e \in Answer(query).events : e.sequenceNumber = Answer(query).max
<1>1. CASE MaxSequenceNumber(eventStream, query) = 0
  BY <1>1 DEF Answer
<1>2. CASE \E i \in MatchingIndices(eventStream, query) :
             MaxSequenceNumber(eventStream, query) = eventStream[i].sequenceNumber
  BY <1>2 DEF Answer, MatchingEvents
<1>3. QED
  BY <1>1, <1>2, MaximumIsLastMatch

LEMMA AppendKeepsMapping ==
  ASSUME StoreInv, MappingInv, NEW p \in Proc, AppendToStream(p)
  PROVE  MappingInv'
<1>1. /\ eventStream' = eventStream \o Numbered(args[p].batch, lastSequenceNumber)
      /\ result' = [result EXCEPT ![p] = "accepted"]
      /\ UNCHANGED <<args, view, file, saving>>
  BY DEF AppendToStream, fileVars
<1>2. /\ Numbered(args[p].batch, lastSequenceNumber) \in Seq(EventRecord)
      /\ eventStream \in Seq(EventRecord)
  BY RecordTypes DEF StoreInv, BaseInv, TypeInv, StoreTypeOK
<1>3. /\ Len(eventStream) <= Len(eventStream')
      /\ Len(eventStream) \in Nat /\ Len(eventStream') \in Nat
      /\ \A i \in 1..Len(eventStream) : eventStream'[i] = eventStream[i]
  <2>1. PICK records \in Seq(EventRecord) : eventStream' = eventStream \o records
    BY <1>1, <1>2
  <2>2. Len(records) \in Nat /\ Len(eventStream) \in Nat
    BY <1>2, LenProperties
  <2>3. /\ Len(eventStream \o records) = Len(eventStream) + Len(records)
        /\ \A i \in 1..Len(eventStream) + Len(records) :
             (eventStream \o records)[i] = IF i <= Len(eventStream) THEN eventStream[i]
                                           ELSE records[i - Len(eventStream)]
    BY <1>2, <2>1, ConcatProperties
  <2>4. QED
    BY <2>1, <2>2, <2>3
<1>4. ASSUME NEW text \in Text, Begins(text) PROVE Begins(text)'
  <2>1. Len(text.records) \in Nat
    BY LenProperties DEF Text
  <2>2. QED
    BY <1>3, <1>4, <2>1 DEF Begins
<1>5. TextsBegin'
  BY <1>1, <1>4 DEF MappingInv, TextsBegin, Begins, StoreInv, BaseInv, TypeInv, StoreTypeOK
<1>6. /\ pc \in [Proc -> Label]
      /\ result \in [Proc -> {"none", "accepted", "refused", "failed", "resolved"}]
  BY DEF StoreInv, BaseInv, TypeInv, StoreTypeOK
<1>7. /\ \A r \in Proc \ {p} : pc'[r] = pc[r] /\ result'[r] = result[r]
      /\ result'[p] = "accepted" /\ pc'[p] # "comparing"
  BY <1>1, <1>6 DEF AppendToStream, Publish, Goto
<1>8. ASSUME NEW r \in Proc PROVE MaximumIsSeen(r)' /\ VerdictStands(r)'
  BY <1>1, <1>7 DEF MappingInv, MaximumIsSeen, VerdictStands, At
<1>9. QED
  BY <1>5, <1>8 DEF MappingInv

LEMMA CallsKeepMapping ==
  ASSUME StoreInv, MappingInv, NEW p \in Proc, CallStep(p), ~AppendToStream(p)
  PROVE  MappingInv'
<1>1. /\ pc \in [Proc -> Label] /\ args \in [Proc -> ArgsType]
      /\ view \in [Proc -> ViewType] /\ saving \in [Proc -> Text]
      /\ result \in [Proc -> {"none", "accepted", "refused", "failed", "resolved"}]
      /\ eventStream \in Seq(EventRecord)
  BY DEF StoreInv, BaseInv, TypeInv, StoreTypeOK, ArgsType, ViewType
<1>2. UNCHANGED eventStream
  BY DEF CallStep, QueryCall, QueryRead, QueryAll, AppendCall, CheckContext,
         ContextChanged, SaveCall, Serialize, WriteSucceeds, SaveFails, streamVars
<1>3. TextsBegin'
  <2>1. CASE Serialize(p)
    <3>1. /\ saving' = [saving EXCEPT ![p] =
                          [records |-> eventStream, last |-> lastSequenceNumber]]
          /\ file'.text = EmptyText
      BY <2>1 DEF Serialize, File
    <3>2. Begins(EmptyText) /\ Begins([records |-> eventStream, last |-> lastSequenceNumber])
      BY <1>1, LenProperties DEF Begins, EmptyText
    <3>3. QED
      BY <1>1, <1>2, <3>1, <3>2 DEF MappingInv, TextsBegin, Begins
  <2>2. CASE WriteSucceeds(p)
    <3>1. UNCHANGED saving /\ (file'.text = saving[p] \/ file'.text = EmptyText)
      BY <2>2 DEF WriteSucceeds, File
    <3>2. Begins(EmptyText)
      BY <1>1, LenProperties DEF Begins, EmptyText
    <3>3. QED
      BY <1>2, <3>1, <3>2 DEF MappingInv, TextsBegin, Begins
  <2>3. CASE ~Serialize(p) /\ ~WriteSucceeds(p)
    <3>1. UNCHANGED <<file, saving>>
      BY <2>3 DEF CallStep, QueryCall, QueryRead, QueryAll, AppendCall, CheckContext,
         ContextChanged, SaveCall, SaveFails, fileVars
    <3>2. QED
      BY <1>2, <3>1 DEF MappingInv, TextsBegin, Begins
  <2>4. QED
    BY <2>1, <2>2, <2>3
<1>4. ASSUME NEW r \in Proc \ {p} PROVE MaximumIsSeen(r)' /\ VerdictStands(r)'
  <2>1. pc'[r] = pc[r] /\ args'[r] = args[r] /\ view'[r] = view[r]
    BY OthersStay DEF StoreInv
  <2>2. result'[r] = result[r]
    BY <1>1 DEF CallStep, QueryCall, QueryRead, QueryAll, AppendCall, CheckContext,
       ContextChanged, SaveCall, Serialize, WriteSucceeds, SaveFails
  <2>3. QED
    BY <2>1, <2>2 DEF MappingInv, MaximumIsSeen, VerdictStands, At
<1>5. MaximumIsSeen(p)'
  <2>1. ASSUME NEW query, view' = [view EXCEPT ![p] = Answer(query)] PROVE MaximumIsSeen(p)'
    BY <1>1, <2>1, AnswersShowTheirMaximum DEF MaximumIsSeen
  <2>2. ASSUME UNCHANGED view PROVE MaximumIsSeen(p)'
    BY <2>2 DEF MappingInv, MaximumIsSeen
  <2>3. QED
    BY <2>1, <2>2 DEF CallStep, QueryCall, QueryRead, QueryAll, AppendCall,
       CheckContext, ContextChanged, SaveCall, Serialize, WriteSucceeds, SaveFails
<1>6. VerdictStands(p)'
  <2>1. CASE Serialize(p) \/ WriteSucceeds(p)
    BY <1>1, <2>1 DEF Serialize, WriteSucceeds, Publish, Goto, At, MappingInv,
       VerdictStands
  <2>2. CASE CheckContext(p)
    BY <1>1, <2>2 DEF CheckContext, Goto, At, VerdictStands
  <2>3. CASE QueryCall(p) \/ QueryRead(p) \/ QueryAll(p) \/ AppendCall(p)
               \/ ContextChanged(p) \/ SaveCall(p) \/ SaveFails(p)
    <3>1. pc'[p] \in {"reading", "idle", "locking"} \/ (pc'[p] = "importing" /\ p \in Saver)
      BY <1>1, <2>3 DEF QueryCall, QueryRead, QueryAll, AppendCall, ContextChanged,
         SaveCall, SaveFails, StartCall, Goto
    <3>2. QED
      BY <3>1 DEF VerdictStands, At
  <2>4. QED
    BY <2>1, <2>2, <2>3 DEF CallStep
<1>7. QED
  BY <1>3, <1>4, <1>5, <1>6 DEF MappingInv

LEMMA StoreKeepsMapping ==
  ASSUME StoreInv, MappingInv, [Next]_vars
  PROVE  MappingInv'
<1>1. ASSUME NEW p \in Proc, CallStep(p) PROVE MappingInv'
  BY <1>1, AppendKeepsMapping, CallsKeepMapping
<1>2. ASSUME UNCHANGED <<eventStream, file, saving, pc, args, view, result>>
      PROVE  MappingInv'
  BY <1>2 DEF MappingInv, TextsBegin, Begins, MaximumIsSeen, VerdictStands, At
<1>3. CASE NotifyEnd
  <2>1. UNCHANGED <<eventStream, file, saving, args, view>>
    BY <1>3 DEF NotifyEnd, streamVars, fileVars
  <2>2. \A p \in Proc : pc'[p] = "idle" \/ (pc'[p] = pc[p] /\ result'[p] = result[p])
    BY <1>3 DEF NotifyEnd, Goto, StoreInv, BaseInv, TypeInv, StoreTypeOK
  <2>3. QED
    BY <2>1, <2>2 DEF MappingInv, TextsBegin, Begins, MaximumIsSeen, VerdictStands, At
<1>4. CASE CrashAndRestart
  <2>1. /\ eventStream' = file.text.records /\ UNCHANGED file
        /\ \A p \in Proc : /\ saving'[p] = EmptyText /\ view'[p] = NothingRead
                           /\ pc'[p] = "idle"
    BY <1>4 DEF CrashAndRestart, CreateFromFile, ByProc
  <2>2. Len(file.text.records) \in Nat /\ Len(<<>>) = 0
    BY LenProperties DEF StoreInv, BaseInv, TypeInv, StoreTypeOK, Text
  <2>3. QED
    BY <2>1, <2>2 DEF MappingInv, TextsBegin, Begins, MaximumIsSeen, VerdictStands, At,
       EmptyText, NothingRead
<1>5. ASSUME NEW s \in Subscription, SubscriptionStep(s) PROVE MappingInv'
  BY <1>2, <1>5 DEF SubscriptionStep, Subscribe, Unsubscribe, HandlerSettles,
     streamVars, callVars, fileVars
<1>6. CASE NotifyStart \/ Close \/ UNCHANGED vars
  BY <1>2, <1>6 DEF NotifyStart, Close, vars, streamVars, callVars, fileVars
<1>7. QED
  BY <1>1, <1>3, <1>4, <1>5, <1>6 DEF Next

-----------------------------------------------------------------------------
(* The steps of the abstract log, with the mapping of MemoryEventStore.    *)

AbsView == [p \in Proc |-> [query |-> view[p].query, events |-> view[p].events]]
AbsRequest ==
  [p \in Proc |->
     IF Asked(p)
     THEN [batch |-> args[p].batch, conditional |-> args[p].conditional]
     ELSE [batch |-> <<>>, conditional |-> FALSE]]
Status(p) ==
  IF Asked(p) THEN "asked"
  ELSE CASE result[p] = "none" -> "idle"
         [] result[p] = "refused" -> "refused"
         [] OTHER -> "accepted"
AbsStatus == [p \in Proc |-> Status(p)]

LEMMA SameQueries ==
  \A log, query : Abstract!MatchingEvents(log, query) = MatchingEvents(log, query)
BY DEF Abstract!MatchingEvents, Abstract!MatchingIndices, Abstract!Matches,
       MatchingEvents, MatchingIndices, Matches

(* What changes for the abstract log when one call moves.                  *)
LEMMA OthersAreMapped ==
  ASSUME StoreInv, NEW p \in Proc, CallStep(p), NEW r \in Proc \ {p}
  PROVE  /\ AbsView'[r] = AbsView[r] /\ AbsRequest'[r] = AbsRequest[r]
         /\ AbsStatus'[r] = AbsStatus[r]
<1>1. pc'[r] = pc[r] /\ args'[r] = args[r] /\ view'[r] = view[r]
  BY OthersStay DEF StoreInv
<1>2. result'[r] = result[r]
  BY DEF StoreInv, BaseInv, TypeInv, StoreTypeOK, CallStep, QueryCall, QueryRead,
     QueryAll, AppendCall, CheckContext, ContextChanged, AppendToStream, SaveCall,
     Serialize, WriteSucceeds, SaveFails
<1>3. QED
  BY <1>1, <1>2 DEF AbsView, AbsRequest, AbsStatus, Status, Asked

(* A function that changes at one place is the EXCEPT of the old one.      *)
LEMMA ChangedAtOnePlace ==
  ASSUME NEW D, NEW f, NEW g, f = [x \in D |-> f[x]], g = [x \in D |-> g[x]],
         NEW p \in D, \A r \in D \ {p} : g[r] = f[r]
  PROVE  g = [f EXCEPT ![p] = g[p]]
OBVIOUS

LEMMA MappedFunctions ==
  /\ AbsView = [x \in Proc |-> AbsView[x]] /\ AbsView' = [x \in Proc |-> AbsView'[x]]
  /\ AbsRequest = [x \in Proc |-> AbsRequest[x]]
  /\ AbsRequest' = [x \in Proc |-> AbsRequest'[x]]
  /\ AbsStatus = [x \in Proc |-> AbsStatus[x]]
  /\ AbsStatus' = [x \in Proc |-> AbsStatus'[x]]
BY DEF AbsView, AbsRequest, AbsStatus

(* The pieces of the mapping that the moving call changes.                 *)
LEMMA MappedCall ==
  ASSUME StoreInv, NEW p \in Proc, CallStep(p)
  PROVE  /\ AbsView' = [AbsView EXCEPT ![p] = AbsView'[p]]
         /\ AbsRequest' = [AbsRequest EXCEPT ![p] = AbsRequest'[p]]
         /\ AbsStatus' = [AbsStatus EXCEPT ![p] = AbsStatus'[p]]
<1>1. \A r \in Proc \ {p} : /\ AbsView'[r] = AbsView[r] /\ AbsRequest'[r] = AbsRequest[r]
                           /\ AbsStatus'[r] = AbsStatus[r]
  BY OthersAreMapped
<1>2. PICK v, w : v = AbsView /\ w = AbsView'
  OBVIOUS
<1>3. PICK b, c : b = AbsRequest /\ c = AbsRequest'
  OBVIOUS
<1>4. PICK s, t : s = AbsStatus /\ t = AbsStatus'
  OBVIOUS
<1>5. w = [v EXCEPT ![p] = w[p]]
  BY <1>1, <1>2, MappedFunctions, ChangedAtOnePlace
<1>6. c = [b EXCEPT ![p] = c[p]]
  BY <1>1, <1>3, MappedFunctions, ChangedAtOnePlace
<1>7. t = [s EXCEPT ![p] = t[p]]
  BY <1>1, <1>4, MappedFunctions, ChangedAtOnePlace
<1>8. QED
  BY <1>2, <1>3, <1>4, <1>5, <1>6, <1>7

LEMMA NothingMoves ==
  ASSUME UNCHANGED eventStream,
         \A r \in Proc : /\ AbsView'[r] = AbsView[r] /\ AbsRequest'[r] = AbsRequest[r]
                         /\ AbsStatus'[r] = AbsStatus[r]
  PROVE  UNCHANGED Abstract!absVars
<1>1. AbsView' = AbsView /\ AbsRequest' = AbsRequest /\ AbsStatus' = AbsStatus
  BY DEF AbsView, AbsRequest, AbsStatus
<1>2. QED
  BY <1>1 DEF Abstract!absVars, AbsView, AbsRequest, AbsStatus, Status

LEMMA MappedRead ==
  ASSUME UNCHANGED eventStream, NEW p \in Proc,
         AbsStatus[p] # "asked",
         AbsView'[p].query \in EventQuery,
         AbsView'[p].events = MatchingEvents(eventStream, AbsView'[p].query),
         AbsView' = [AbsView EXCEPT ![p] = AbsView'[p]],
         UNCHANGED <<AbsRequest, AbsStatus>>
  PROVE  Abstract!Read(p)
BY SameQueries DEF Abstract!Read, Abstract!EventQuery, EventQuery, AbsView, AbsRequest,
   AbsStatus, Status

LEMMA MappedAsk ==
  ASSUME UNCHANGED eventStream, NEW p \in Proc,
         AbsStatus[p] # "asked", AbsStatus' = [AbsStatus EXCEPT ![p] = "asked"],
         AbsRequest'[p].batch \in Seq(EventType),
         AbsRequest' = [AbsRequest EXCEPT ![p] = AbsRequest'[p]],
         UNCHANGED AbsView
  PROVE  Abstract!Ask(p)
BY DEF Abstract!Ask, AbsView, AbsRequest, AbsStatus, Status

LEMMA MappedAccept ==
  ASSUME NEW p \in Proc,
         AbsStatus[p] = "asked", AbsStatus' = [AbsStatus EXCEPT ![p] = "accepted"],
         AbsRequest[p].conditional =>
           MatchingEvents(eventStream, AbsView[p].query) = AbsView[p].events,
         eventStream' = eventStream \o Numbered(AbsRequest[p].batch, Len(eventStream)),
         AbsRequest' = [AbsRequest EXCEPT ![p] = [batch |-> <<>>, conditional |-> FALSE]],
         UNCHANGED AbsView
  PROVE  Abstract!Accept(p)
BY SameQueries DEF Abstract!Accept, Abstract!IsCurrent, Abstract!Settle,
   Abstract!NoRequest, Abstract!Numbered, Numbered, AbsView, AbsRequest, AbsStatus, Status

LEMMA MappedRefuse ==
  ASSUME UNCHANGED eventStream, NEW p \in Proc,
         AbsStatus[p] = "asked", AbsStatus' = [AbsStatus EXCEPT ![p] = "refused"],
         AbsRequest[p].conditional,
         MatchingEvents(eventStream, AbsView[p].query) # AbsView[p].events,
         AbsRequest' = [AbsRequest EXCEPT ![p] = [batch |-> <<>>, conditional |-> FALSE]],
         UNCHANGED AbsView
  PROVE  Abstract!Refuse(p)
BY SameQueries DEF Abstract!Refuse, Abstract!IsCurrent, Abstract!Settle,
   Abstract!NoRequest, AbsView, AbsRequest, AbsStatus, Status

-----------------------------------------------------------------------------
(* Every step of a call is a step of the abstract log or none at all.      *)

LEMMA TypesOfCalls ==
  ASSUME StoreInv
  PROVE  /\ pc \in [Proc -> Label] /\ args \in [Proc -> ArgsType]
         /\ view \in [Proc -> ViewType]
         /\ result \in [Proc -> {"none", "accepted", "refused", "failed", "resolved"}]
BY DEF StoreInv, BaseInv, TypeInv, StoreTypeOK, ArgsType, ViewType

(* An answer is what the abstract log reads.                               *)
LEMMA AnswersAreRead ==
  ASSUME StoreInv, NEW p \in Proc, CallStep(p), NEW query \in EventQuery,
         UNCHANGED eventStream, view' = [view EXCEPT ![p] = Answer(query)],
         UNCHANGED result, pc[p] \in {"idle", "reading"}, pc'[p] = "idle"
  PROVE  Abstract!Read(p)
<1>1. view'[p] = Answer(query)
  BY TypesOfCalls
<1>2. /\ AbsView'[p].query \in EventQuery
      /\ AbsView'[p].events = MatchingEvents(eventStream, AbsView'[p].query)
  BY <1>1 DEF AbsView, Answer
<1>3. AbsStatus[p] # "asked" /\ AbsStatus'[p] = AbsStatus[p] /\ AbsRequest'[p] = AbsRequest[p]
  BY DEF AbsStatus, Status, Asked, AbsRequest
<1>4. /\ AbsView' = [AbsView EXCEPT ![p] = AbsView'[p]]
      /\ AbsRequest' = [AbsRequest EXCEPT ![p] = AbsRequest'[p]]
      /\ AbsStatus' = [AbsStatus EXCEPT ![p] = AbsStatus'[p]]
  BY MappedCall
<1>5. UNCHANGED <<AbsRequest, AbsStatus>>
  BY <1>3, <1>4, MappedFunctions
<1>6. QED
  BY <1>2, <1>3, <1>4, <1>5, MappedRead

LEMMA QueriesAreReads ==
  ASSUME StoreInv, NEW p \in Proc, QueryRead(p) \/ QueryAll(p)
  PROVE  Abstract!Read(p)
<1>1. CallStep(p) /\ UNCHANGED <<eventStream, result>> /\ pc'[p] = "idle"
  BY TypesOfCalls DEF CallStep, QueryRead, QueryAll, StartCall, Goto, streamVars
<1>2. CASE QueryRead(p)
  <2>1. args[p].query \in EventQuery
    BY TypesOfCalls DEF ArgsType
  <2>2. QED
    BY <1>1, <1>2, <2>1, AnswersAreRead DEF QueryRead, At
<1>3. CASE QueryAll(p)
  <2>1. AllEvents \in EventQuery
    BY DEF AllEvents, EventQuery
  <2>2. QED
    BY <1>1, <1>3, <2>1, AnswersAreRead DEF QueryAll, StartCall, At
<1>4. QED
  BY <1>2, <1>3

LEMMA AppendAsks ==
  ASSUME StoreInv, NEW p \in Proc, AppendCall(p)
  PROVE  Abstract!Ask(p)
<1>1. CallStep(p) /\ UNCHANGED <<eventStream, view>>
  BY DEF CallStep, AppendCall, streamVars
<1>2. PICK b \in Batch, conditional \in BOOLEAN :
        /\ pc[p] = "idle" /\ pc' = [pc EXCEPT ![p] = "locking"]
        /\ args' = [args EXCEPT ![p] =
             [query |-> view[p].query, batch |-> b, conditional |-> conditional,
              basis |-> InHand(p)]]
  BY DEF AppendCall, StartCall, Goto, At
<1>3. pc'[p] = "locking" /\ args'[p].batch = b /\ b \in Seq(EventType)
  BY <1>2, TypesOfCalls, StoreAssumption
<1>4. /\ AbsStatus[p] # "asked" /\ AbsStatus'[p] = "asked"
      /\ AbsRequest'[p].batch \in Seq(EventType) /\ AbsView'[p] = AbsView[p]
  BY <1>1, <1>2, <1>3 DEF AbsStatus, Status, Asked, AbsRequest, AbsView
<1>5. /\ AbsView' = [AbsView EXCEPT ![p] = AbsView'[p]]
      /\ AbsRequest' = [AbsRequest EXCEPT ![p] = AbsRequest'[p]]
      /\ AbsStatus' = [AbsStatus EXCEPT ![p] = AbsStatus'[p]]
  BY <1>1, MappedCall
<1>6. UNCHANGED AbsView /\ AbsStatus' = [AbsStatus EXCEPT ![p] = "asked"]
  BY <1>4, <1>5, MappedFunctions
<1>7. QED
  BY <1>1, <1>4, <1>5, <1>6, MappedAsk

(* What is the maximum of an answer decides whether the answer is current. *)
LEMMA MaximumDecides ==
  ASSUME StoreInv, MappingInv, NEW p \in Proc, At(p, "comparing"), p \notin Saver
  PROVE  /\ args[p].query = view[p].query
         /\ context[p] = view[p].max
              <=> MatchingEvents(eventStream, view[p].query) = view[p].events
<1>1. /\ context[p] = MaxSequenceNumber(eventStream, args[p].query)
      /\ args[p].query = view[p].query
      /\ view[p].events = {e \in MatchingEvents(eventStream, view[p].query) :
                             e.sequenceNumber <= view[p].max}
  BY DEF StoreInv, KnowledgeInv, ViewIsPast, DecisionIsPast, ContextIsCurrent, At
<1>2. StreamFacts
  BY StreamIsWellFormed DEF StoreInv
<1>3. \A e \in MatchingEvents(eventStream, view[p].query) :
        e.sequenceNumber \in 1..Len(eventStream) /\ e.sequenceNumber <= context[p]
  BY <1>1, <1>2, MaximumBoundsMatches DEF StreamFacts
<1>4. view[p].max \in Nat /\ context[p] \in Nat
  BY TypesOfCalls DEF ViewType, StoreInv, BaseInv, TypeInv, StoreTypeOK
<1>5. ASSUME context[p] = view[p].max
      PROVE  MatchingEvents(eventStream, view[p].query) = view[p].events
  BY <1>1, <1>3, <1>5
<1>6. ASSUME MatchingEvents(eventStream, view[p].query) = view[p].events
      PROVE  context[p] = view[p].max
  <2>1. MaximumIsSeen(p)
    BY DEF MappingInv
  <2>2. \/ MatchingEvents(eventStream, view[p].query) = {} /\ context[p] = 0
        \/ \E e \in MatchingEvents(eventStream, view[p].query) :
             e.sequenceNumber = context[p]
    BY <1>1, <1>2, MaximumIsLastMatch DEF MatchingEvents, StreamFacts
  <2>3. CASE MatchingEvents(eventStream, view[p].query) = {}
    BY <1>6, <2>1, <2>2, <2>3 DEF MaximumIsSeen
  <2>4. CASE \E e \in MatchingEvents(eventStream, view[p].query) :
               e.sequenceNumber = context[p]
    <3>1. context[p] <= view[p].max /\ context[p] >= 1
      BY <1>1, <1>3, <1>6, <2>4, <1>2 DEF StreamFacts
    <3>2. view[p].max <= context[p]
      BY <1>3, <1>4, <1>6, <2>1, <3>1 DEF MaximumIsSeen
    <3>3. QED
      BY <1>4, <3>1, <3>2
  <2>5. QED
    BY <2>2, <2>3, <2>4
<1>7. QED
  BY <1>1, <1>5, <1>6

LEMMA ContextChangedRefuses ==
  ASSUME StoreInv, MappingInv, NEW p \in Proc, ContextChanged(p)
  PROVE  Abstract!Refuse(p)
<1>1. /\ CallStep(p) /\ UNCHANGED <<eventStream, view, args>>
      /\ pc[p] = "comparing" /\ pc'[p] = "idle" /\ result'[p] = "refused"
      /\ context[p] # view[p].max
  BY TypesOfCalls DEF CallStep, ContextChanged, Goto, At, streamVars
<1>2. p \notin Saver /\ args[p].conditional
  BY <1>1 DEF ContextChanged, ReleaseWrite, StoreInv, CallInv, LockFollowsCalls, Idle,
     At, MappingInv, VerdictStands
<1>3. MatchingEvents(eventStream, view[p].query) # view[p].events
  BY <1>1, <1>2, MaximumDecides DEF At
<1>4. /\ AbsStatus[p] = "asked" /\ AbsStatus'[p] = "refused"
      /\ AbsRequest[p].conditional
      /\ AbsRequest'[p] = [batch |-> <<>>, conditional |-> FALSE]
      /\ AbsView'[p] = AbsView[p]
      /\ MatchingEvents(eventStream, AbsView[p].query) # AbsView[p].events
  BY <1>1, <1>2, <1>3 DEF AbsStatus, Status, Asked, AbsRequest, AbsView
<1>5. /\ AbsView' = [AbsView EXCEPT ![p] = AbsView'[p]]
      /\ AbsRequest' = [AbsRequest EXCEPT ![p] = AbsRequest'[p]]
      /\ AbsStatus' = [AbsStatus EXCEPT ![p] = AbsStatus'[p]]
  BY <1>1, MappedCall
<1>6. /\ UNCHANGED AbsView /\ AbsStatus' = [AbsStatus EXCEPT ![p] = "refused"]
      /\ AbsRequest' = [AbsRequest EXCEPT ![p] = [batch |-> <<>>, conditional |-> FALSE]]
  BY <1>4, <1>5, MappedFunctions
<1>7. QED
  BY <1>1, <1>4, <1>6, MappedRefuse

LEMMA AppendAccepts ==
  ASSUME StoreInv, MappingInv, NEW p \in Proc, AppendToStream(p)
  PROVE  Abstract!Accept(p)
<1>1. /\ CallStep(p) /\ UNCHANGED <<view, args>>
      /\ pc[p] \in {"locking", "comparing"} /\ pc'[p] \in {"importing", "notifying"}
      /\ result'[p] = "accepted"
      /\ args[p].conditional => pc[p] = "comparing" /\ context[p] = view[p].max
      /\ eventStream' = eventStream \o Numbered(args[p].batch, lastSequenceNumber)
  BY TypesOfCalls DEF CallStep, AppendToStream, Publish, Goto, At
<1>2. p \notin Saver
  BY <1>1 DEF AppendToStream, StoreInv, CallInv, LockFollowsCalls, Idle, At
<1>3. lastSequenceNumber = Len(eventStream)
  BY StreamIsWellFormed DEF StoreInv, StreamFacts
<1>4. args[p].conditional =>
        MatchingEvents(eventStream, view[p].query) = view[p].events
  BY <1>1, <1>2, MaximumDecides DEF At
<1>5. /\ AbsStatus[p] = "asked" /\ AbsStatus'[p] = "accepted"
      /\ AbsRequest[p].conditional = args[p].conditional
      /\ AbsRequest[p].batch = args[p].batch
      /\ AbsRequest'[p] = [batch |-> <<>>, conditional |-> FALSE]
      /\ AbsView[p].query = view[p].query /\ AbsView[p].events = view[p].events
      /\ AbsView'[p] = AbsView[p]
  BY <1>1 DEF AbsStatus, Status, Asked, AbsRequest, AbsView
<1>6. /\ AbsView' = [AbsView EXCEPT ![p] = AbsView'[p]]
      /\ AbsRequest' = [AbsRequest EXCEPT ![p] = AbsRequest'[p]]
      /\ AbsStatus' = [AbsStatus EXCEPT ![p] = AbsStatus'[p]]
  BY <1>1, MappedCall
<1>7. /\ UNCHANGED AbsView /\ AbsStatus' = [AbsStatus EXCEPT ![p] = "accepted"]
      /\ AbsRequest' = [AbsRequest EXCEPT ![p] = [batch |-> <<>>, conditional |-> FALSE]]
  BY <1>5, <1>6, MappedFunctions
<1>8. eventStream' = eventStream \o Numbered(AbsRequest[p].batch, Len(eventStream))
  BY <1>1, <1>3, <1>5
<1>9. QED
  BY <1>4, <1>5, <1>7, <1>8, MappedAccept

(* The other steps of a call are none of the abstract log.                 *)
LEMMA OtherCallsStutter ==
  ASSUME StoreInv, MappingInv, NEW p \in Proc,
         \/ QueryCall(p) \/ CheckContext(p) \/ SaveCall(p) \/ Serialize(p)
         \/ WriteSucceeds(p) \/ SaveFails(p)
  PROVE  UNCHANGED Abstract!absVars
<1>1. CallStep(p) /\ UNCHANGED <<eventStream, view>>
  BY DEF CallStep, QueryCall, CheckContext, SaveCall, Serialize, WriteSucceeds,
     SaveFails, streamVars
<1>2. AbsView'[p] = AbsView[p] /\ AbsRequest'[p] = AbsRequest[p]
      /\ AbsStatus'[p] = AbsStatus[p]
  <2>1. CASE CheckContext(p)
    <3>1. /\ pc[p] = "locking" /\ pc'[p] = "comparing" /\ args' = args
      BY <2>1, TypesOfCalls DEF CheckContext, Goto, At
    <3>2. QED
      BY <1>1, <3>1 DEF AbsView, AbsRequest, AbsStatus, Status, Asked
  <2>2. CASE ~CheckContext(p)
    <3>1. ~Asked(p) /\ ~Asked(p)'
      BY <2>2, TypesOfCalls DEF QueryCall, SaveCall, Serialize, WriteSucceeds, SaveFails,
         Publish, StartCall, Goto, At, Asked
    <3>2. result'[p] = result[p] \/ (result[p] = "accepted" /\ result'[p] = "failed")
      <4>1. CASE SaveFails(p)
        BY <4>1, TypesOfCalls DEF SaveFails, At, MappingInv, VerdictStands
      <4>2. CASE ~SaveFails(p)
        BY <2>2, <4>2 DEF QueryCall, SaveCall, Serialize, WriteSucceeds
      <4>3. QED
        BY <4>1, <4>2
    <3>3. QED
      BY <1>1, <3>1, <3>2 DEF AbsView, AbsRequest, AbsStatus, Status
  <2>3. QED
    BY <2>1, <2>2
<1>3. \A r \in Proc : /\ AbsView'[r] = AbsView[r] /\ AbsRequest'[r] = AbsRequest[r]
                      /\ AbsStatus'[r] = AbsStatus[r]
  BY <1>1, <1>2, OthersAreMapped
<1>4. QED
  BY <1>1, <1>3, NothingMoves

(* An append() that resolves has been accepted before.                     *)
LEMMA NotifyEndStutters ==
  ASSUME StoreInv, MappingInv, NotifyEnd
  PROVE  UNCHANGED Abstract!absVars
<1>1. PICK q : q = Head(notificationQueue).proc
  OBVIOUS
<1>2. q \in Proc /\ pc[q] = "notifying"
  <2>1. notificationQueue \in Seq([proc : Proc, events : Seq(EventRecord)])
        /\ notificationQueue # <<>>
    BY DEF NotifyEnd, StoreInv, BaseInv, TypeInv, StoreTypeOK, RunHasJob
  <2>2. Head(notificationQueue) \in [proc : Proc, events : Seq(EventRecord)]
    BY <2>1, HeadTailProperties
  <2>3. Len(notificationQueue) \in Nat \ {0}
    BY <2>1, EmptySeq
  <2>4. Head(notificationQueue) = notificationQueue[1]
    BY <2>1
  <2>5. QED
    BY <1>1, <2>2, <2>3, <2>4 DEF StoreInv, CallInv, ChainFollowsCalls, At
<1>3. /\ UNCHANGED <<eventStream, args, view>>
      /\ pc' = [pc EXCEPT ![q] = "idle"]
      /\ result' = [result EXCEPT ![q] = "resolved"]
  BY <1>1 DEF NotifyEnd, Goto, streamVars
<1>4. result[q] = "accepted"
  BY <1>2 DEF MappingInv, VerdictStands
<1>5. \A r \in Proc : /\ AbsView'[r] = AbsView[r] /\ AbsRequest'[r] = AbsRequest[r]
                      /\ AbsStatus'[r] = AbsStatus[r]
  BY <1>2, <1>3, <1>4, TypesOfCalls DEF AbsView, AbsRequest, AbsStatus, Status, Asked
<1>6. QED
  BY <1>3, <1>5, NothingMoves

(* The file holds a beginning of the stream: the log of the next process.  *)
LEMMA RestartIsRestart ==
  ASSUME StoreInv, MappingInv, CrashAndRestart
  PROVE  Abstract!Restart
<1>1. PICK n : n = Len(file.text.records)
  OBVIOUS
<1>2. PICK kept : kept = file.text.records
  OBVIOUS
<1>3. /\ kept \in Seq(EventRecord) /\ eventStream \in Seq(EventRecord)
      /\ n = Len(kept) /\ n \in Nat /\ Len(eventStream) \in Nat
  BY <1>1, <1>2, LenProperties DEF StoreInv, BaseInv, TypeInv, StoreTypeOK, Text
<1>4. n <= Len(eventStream) /\ \A i \in 1..n : kept[i] = eventStream[i]
  BY <1>1, <1>2 DEF MappingInv, TextsBegin, Begins
<1>5. kept = SubSeq(eventStream, 1, n)
  <2>1. /\ Len(SubSeq(eventStream, 1, n)) = n
        /\ SubSeq(eventStream, 1, n) \in Seq(EventRecord)
        /\ \A i \in 1..n : SubSeq(eventStream, 1, n)[i] = eventStream[i]
    BY <1>3, <1>4, SubSeqProperties
  <2>2. QED
    BY <1>3, <1>4, <2>1, SeqEqual
<1>6. eventStream' = kept
  BY <1>2 DEF CrashAndRestart, CreateFromFile
<1>7. \A p \in Proc : /\ pc'[p] = "idle" /\ view'[p] = NothingRead
                      /\ result'[p] = "none"
  BY DEF CrashAndRestart, ByProc
<1>8. /\ AbsView' = [p \in Proc |-> [query |-> [types |-> {}, min |-> 0], events |-> {}]]
      /\ AbsRequest' = [p \in Proc |-> [batch |-> <<>>, conditional |-> FALSE]]
      /\ AbsStatus' = [p \in Proc |-> "idle"]
  <2>1. AbsView' = [p \in Proc |-> [query |-> [types |-> {}, min |-> 0], events |-> {}]]
    BY <1>7 DEF AbsView, NothingRead, AllEvents
  <2>2. AbsRequest' = [p \in Proc |-> [batch |-> <<>>, conditional |-> FALSE]]
    BY <1>7 DEF AbsRequest, Asked
  <2>3. \A p \in Proc : Status(p)' = "idle"
    BY <1>7 DEF Status, Asked
  <2>4. AbsStatus' = [p \in Proc |-> "idle"]
    BY <2>3 DEF AbsStatus
  <2>5. QED
    BY <2>1, <2>2, <2>4
<1>9. Abstract!FreshCallers'
  BY <1>8 DEF Abstract!FreshCallers, Abstract!NothingSeen, Abstract!NoRequest,
     AbsView, AbsRequest, AbsStatus, Status
<1>10. QED
  BY <1>3, <1>4, <1>5, <1>6, <1>9 DEF Abstract!Restart

LEMMA StoreStartsAsLog == Init => Abstract!AbsInit
<1> SUFFICES ASSUME Init PROVE Abstract!AbsInit
  OBVIOUS
<1>1. /\ eventStream = <<>>
      /\ \A p \in Proc : pc[p] = "idle" /\ view[p] = NothingRead /\ result[p] = "none"
  BY DEF Init, ByProc
<1>2. \A p \in Proc : Status(p) = "idle"
  BY <1>1 DEF Status, Asked
<1>3. /\ AbsView = [p \in Proc |-> [query |-> [types |-> {}, min |-> 0], events |-> {}]]
      /\ AbsRequest = [p \in Proc |-> [batch |-> <<>>, conditional |-> FALSE]]
      /\ AbsStatus = [p \in Proc |-> "idle"]
  <2>1. AbsView = [p \in Proc |-> [query |-> [types |-> {}, min |-> 0], events |-> {}]]
    <3>1. \A p \in Proc : view[p] = [query |-> [types |-> {}, min |-> 0],
                                    events |-> {}, max |-> 0]
      BY <1>1, Zenon DEF NothingRead, AllEvents
    <3>2. QED
      BY <3>1 DEF AbsView
  <2>2. AbsRequest = [p \in Proc |-> [batch |-> <<>>, conditional |-> FALSE]]
    BY <1>1 DEF AbsRequest, Asked
  <2>3. AbsStatus = [p \in Proc |-> "idle"]
    BY <1>2 DEF AbsStatus
  <2>4. QED
    BY <2>1, <2>2, <2>3
<1>4. QED
  BY <1>1, <1>3 DEF Abstract!AbsInit, Abstract!FreshCallers, Abstract!NothingSeen,
     Abstract!NoRequest, AbsView, AbsRequest, AbsStatus, Status

(* Every step of the store is a step of the log or a stutter.              *)
LEMMA StoreStepsAreLogSteps ==
  ASSUME StoreInv, MappingInv, [Next]_vars
  PROVE  [Abstract!AbsNext]_(Abstract!absVars)
<1>1. ASSUME NEW p \in Proc, CallStep(p)
      PROVE  [Abstract!AbsNext]_(Abstract!absVars)
  <2>1. CASE QueryRead(p) \/ QueryAll(p)
    BY <2>1, QueriesAreReads DEF Abstract!AbsNext
  <2>2. CASE AppendCall(p)
    BY <2>2, AppendAsks DEF Abstract!AbsNext
  <2>3. CASE ContextChanged(p)
    BY <2>3, ContextChangedRefuses DEF Abstract!AbsNext
  <2>4. CASE AppendToStream(p)
    BY <2>4, AppendAccepts DEF Abstract!AbsNext
  <2>5. CASE \/ QueryCall(p) \/ CheckContext(p) \/ SaveCall(p) \/ Serialize(p)
             \/ WriteSucceeds(p) \/ SaveFails(p)
    BY <2>5, OtherCallsStutter
  <2>6. QED
    BY <1>1, <2>1, <2>2, <2>3, <2>4, <2>5 DEF CallStep
<1>2. ASSUME UNCHANGED <<eventStream, pc, args, view, result>>
      PROVE  UNCHANGED Abstract!absVars
  BY <1>2, NothingMoves DEF AbsView, AbsRequest, AbsStatus, Status, Asked
<1>3. ASSUME NEW s \in Subscription, SubscriptionStep(s)
      PROVE  UNCHANGED Abstract!absVars
  BY <1>2, <1>3 DEF SubscriptionStep, Subscribe, Unsubscribe, HandlerSettles,
     streamVars, callVars
<1>4. CASE NotifyStart \/ Close \/ UNCHANGED vars
  BY <1>2, <1>4 DEF NotifyStart, Close, vars, streamVars, callVars
<1>5. CASE NotifyEnd
  BY <1>5, NotifyEndStutters
<1>6. CASE CrashAndRestart
  BY <1>6, RestartIsRestart DEF Abstract!AbsNext
<1>7. QED
  BY <1>1, <1>3, <1>4, <1>5, <1>6 DEF Next

(* The in-memory store implements the log with atomic conditional appends: *)
(* an append() takes effect, or is refused, at one instant, by what its    *)
(* query would give at that instant, and a crash leaves a beginning of the *)
(* log (eventstore/types.ts, interface EventStore).                        *)
THEOREM StoreImplementsLog == Spec => ImplementsLog
<1>1. Init => Abstract!AbsInit
  BY StoreStartsAsLog
<1>2. Init => MappingInv
  BY MappingInvInit
<1>3. StoreInv /\ MappingInv /\ [Next]_vars => MappingInv'
  BY StoreKeepsMapping
<1>4. StoreInv /\ MappingInv /\ [Next]_vars => [Abstract!AbsNext]_(Abstract!absVars)
  BY StoreStepsAreLogSteps
<1>5. QED
  BY <1>1, <1>2, <1>3, <1>4, StoreSafety, PTL DEF Spec, ImplementsLog, Abstract!AbsSpec
=============================================================================
