------------------------- MODULE MemoryDeliveryProofs -------------------------
(***************************************************************************)
(* What the subscribers and the file of the in-memory store see, for every *)
(* value of the constants: the notification chain is in the order of the   *)
(* stream, a subscription receives nothing twice or out of order, and, if  *)
(* nobody but append() writes the file, a complete file holds what was     *)
(* acknowledged or shown.                                                  *)
(***************************************************************************)
EXTENDS MemoryEventStoreProofs

-----------------------------------------------------------------------------
(* Order.  A number is finished when no append() that is writing through   *)
(* has it among its own records.  What waits in the chain or was delivered *)
(* is finished, so the next job comes after it.                            *)

InProgress(p) == p \notin Saver /\ pc[p] \in {"importing", "writing"}

Finished(n) ==
  /\ n \in Nat /\ n <= Len(eventStream)
  /\ \A p \in Proc : InProgress(p) => n <= Len(eventStream) - Len(args[p].batch)

Ascending(records) ==
  \A k, l \in 1..Len(records) :
    k < l => records[k].sequenceNumber < records[l].sequenceNumber

Precedes(first, second) ==
  \A e \in Elements(first), f \in Elements(second) :
    e.sequenceNumber < f.sequenceNumber

Job(i) == notificationQueue[i].events
Jobs == 1..Len(notificationQueue)

JobsAreFinished ==
  \A i \in Jobs :
    /\ Ascending(Job(i)) /\ Elements(Job(i)) \subseteq Elements(eventStream)
    /\ \A e \in Elements(Job(i)) : Finished(e.sequenceNumber)

JobsAreOrdered == \A i, j \in Jobs : i < j => Precedes(Job(i), Job(j))

DeliveriesAreAscending ==
  \A s \in Subscription :
    Ascending(delivered[s]) /\ (s \notin created => delivered[s] = <<>>)

(* A subscription that is still registered has the events before those     *)
(* that wait, the head of the chain excepted while it is handed out.       *)
DeliveriesComeFirst ==
  /\ subscriptions \subseteq created
  /\ \A s \in subscriptions :
       /\ \A e \in Elements(delivered[s]) : Finished(e.sequenceNumber)
       /\ \A i \in Jobs : (notifying => i > 1) => Precedes(delivered[s], Job(i))

OrderInv ==
  JobsAreFinished /\ JobsAreOrdered /\ DeliveriesAreAscending /\ DeliveriesComeFirst

LEMMA OrderInvInit == Init => OrderInv
  BY EmptySeq DEF Init, OrderInv, JobsAreFinished, JobsAreOrdered, Jobs,
     DeliveriesAreAscending, DeliveriesComeFirst, Ascending

(* The types used below.                                                   *)
LEMMA OrderTypes ==
  ASSUME StoreInv
  PROVE  /\ StreamFacts
         /\ Len(notificationQueue) \in Nat
         /\ \A i \in Jobs : /\ notificationQueue[i].proc \in Proc
                            /\ Job(i) \in Seq(EventRecord)
         /\ delivered \in [Subscription -> Seq(EventRecord)]
         /\ subscriptions \subseteq Subscription /\ created \subseteq Subscription
         /\ pc \in [Proc -> Label]
         /\ \A p \in Proc : Len(args[p].batch) \in Nat /\ args[p].batch \in Seq(EventType)
<1> DEFINE JobType == [proc : Proc, events : Seq(EventRecord)]
<1>1. BaseInv /\ NumberInv /\ StoreTypeOK
  BY DEF StoreInv, BaseInv, TypeInv
<1>2. notificationQueue \in Seq(JobType)
  BY <1>1 DEF StoreTypeOK
<1>3. Len(notificationQueue) \in Nat /\ \A i \in Jobs : notificationQueue[i] \in JobType
  BY <1>2, LenProperties, ElementOfSeq DEF Jobs
<1>4. \A p \in Proc : Len(args[p].batch) \in Nat /\ args[p].batch \in Seq(EventType)
  BY <1>1, LenProperties DEF StoreTypeOK
<1>5. QED
  BY <1>1, <1>3, <1>4, StreamIsWellFormed DEF StoreTypeOK, Job

(* The writer is alone.                                                    *)
LEMMA OneInProgress ==
  ASSUME StoreInv, NEW p \in Proc, grant[p] = "write", NEW r \in Proc, InProgress(r)
  PROVE  r = p
<1>1. grant[r] = "write"
  BY DEF InProgress, StoreInv, CallInv, LockFollowsCalls
<1>2. QED
  BY <1>1 DEF StoreInv, BaseInv, LockInv, MutualExclusion

(* Whatever is in progress holds the write lock.                           *)
LEMMA AppendersAreAlone ==
  ASSUME StoreInv, NEW p \in Proc, AppendToStream(p)
  PROVE  /\ p \notin Saver
         /\ \A r \in Proc : ~InProgress(r)
         /\ \A r \in Proc : InProgress(r)' => r = p
         /\ WriteThru \/ \A r \in Proc : ~InProgress(r)'
<1>1. p \notin Saver /\ grant[p] = "write" /\ pc[p] \in {"locking", "comparing"}
  BY DEF AppendToStream, StoreInv, CallInv, LockFollowsCalls, Idle, At
<1>2. \A r \in Proc : ~InProgress(r)
  BY <1>1, OneInProgress DEF InProgress
<1>3. \A r \in Proc \ {p} : pc'[r] = pc[r]
  BY OrderTypes DEF AppendToStream, Publish, Goto
<1>4. ~WriteThru => pc'[p] = "notifying"
  BY OrderTypes DEF AppendToStream, Publish, Goto
<1>5. QED
  BY <1>1, <1>2, <1>3, <1>4 DEF InProgress

(* The records of a batch and the stream they are added to.                *)
LEMMA AppendedRecords ==
  ASSUME StoreInv, NEW p \in Proc, AppendToStream(p)
  PROVE  LET records == Numbered(args[p].batch, lastSequenceNumber)
         IN  /\ records \in Seq(EventRecord)
             /\ Len(records) = Len(args[p].batch)
             /\ \A k \in 1..Len(records) : records[k].sequenceNumber = Len(eventStream) + k
             /\ Len(eventStream') = Len(eventStream) + Len(args[p].batch)
             /\ \A k \in 1..Len(eventStream) : eventStream'[k] = eventStream[k]
             /\ Elements(eventStream) \subseteq Elements(eventStream')
             /\ Elements(records) \subseteq Elements(eventStream')
<1> DEFINE records == Numbered(args[p].batch, lastSequenceNumber)
<1>1. /\ eventStream \in Seq(EventRecord) /\ Len(eventStream) \in Nat
      /\ lastSequenceNumber = Len(eventStream) /\ Len(args[p].batch) \in Nat
  BY OrderTypes DEF StreamFacts
<1>2. records \in Seq(EventRecord) /\ Len(records) = Len(args[p].batch)
  BY RecordTypes DEF StoreInv, BaseInv
<1>3. \A k \in 1..Len(records) : records[k].sequenceNumber = Len(eventStream) + k
  BY <1>1 DEF Numbered
<1>4. eventStream' = eventStream \o records
  BY DEF AppendToStream
<1> HIDE DEF records
<1>5. /\ Len(eventStream') = Len(eventStream) + Len(records)
      /\ \A k \in 1..Len(eventStream) : eventStream'[k] = eventStream[k]
      /\ \A k \in Len(eventStream)+1..Len(eventStream)+Len(records) :
           eventStream'[k] = records[k - Len(eventStream)]
  <2> DEFINE longer == eventStream \o records
  <2>1. /\ Len(longer) = Len(eventStream) + Len(records)
        /\ \A k \in 1..Len(eventStream)+Len(records) :
             longer[k] = IF k <= Len(eventStream) THEN eventStream[k]
                         ELSE records[k - Len(eventStream)]
    BY <1>1, <1>2, ConcatProperties
  <2>2. eventStream' = longer /\ Len(records) \in Nat
    BY <1>1, <1>2, <1>4
  <2> HIDE DEF longer
  <2>3. QED
    BY <1>1, <2>1, <2>2
<1>6. Elements(eventStream) \subseteq Elements(eventStream')
  <2> SUFFICES ASSUME NEW k \in 1..Len(eventStream)
               PROVE  k \in 1..Len(eventStream') /\ eventStream'[k] = eventStream[k]
    BY DEF Elements
  <2>1. QED
    BY <1>1, <1>2, <1>5
<1>7. Elements(records) \subseteq Elements(eventStream')
  <2> SUFFICES ASSUME NEW k \in 1..Len(records)
               PROVE  /\ Len(eventStream) + k \in 1..Len(eventStream')
                      /\ eventStream'[Len(eventStream) + k] = records[k]
    BY DEF Elements
  <2>1. /\ Len(eventStream) + k \in Len(eventStream)+1..Len(eventStream)+Len(records)
        /\ Len(eventStream) + k - Len(eventStream) = k
        /\ Len(eventStream) + k \in 1..Len(eventStream')
    BY <1>1, <1>2, <1>5
  <2>2. QED
    BY <1>5, <2>1
<1>8. QED
  BY <1>1, <1>2, <1>3, <1>5, <1>6, <1>7 DEF records

(* The records that append() publishes after its write-through are the     *)
(* last of the stream.                                                     *)
LEMMA OwnRecordsAreLast ==
  ASSUME StoreInv, NEW p \in Proc, InProgress(p)
  PROVE  /\ OwnRecords(p) \in Seq(EventRecord)
         /\ Len(OwnRecords(p)) = Len(args[p].batch)
         /\ Len(args[p].batch) <= Len(eventStream)
         /\ \A k \in 1..Len(OwnRecords(p)) :
              /\ OwnRecords(p)[k].sequenceNumber
                   = Len(eventStream) - Len(args[p].batch) + k
              /\ OwnRecords(p)[k] = eventStream[Len(eventStream) - Len(args[p].batch) + k]
         /\ Elements(OwnRecords(p)) \subseteq Elements(eventStream)
<1> DEFINE n == Len(eventStream)
           m == Len(args[p].batch)
<1>1. /\ eventStream \in Seq(EventRecord) /\ n \in Nat /\ m \in Nat
      /\ \A i \in 1..n : eventStream[i].sequenceNumber = i
      /\ \A i \in 1..n : eventStream[i] \in EventRecord
  BY OrderTypes, ElementOfSeq DEF StreamFacts, IsDense
<1>2. m <= n
  BY DEF InProgress, StoreInv, BaseInv, TypeInv, BatchIsInStream
<1>3. OwnRecords(p) = SubSeq(eventStream, n - m + 1, n)
  BY DEF OwnRecords
<1> HIDE DEF n, m
<1>4. /\ SubSeq(eventStream, n - m + 1, n) \in Seq(EventRecord)
      /\ Len(SubSeq(eventStream, n - m + 1, n)) = m
      /\ \A k \in 1..m : SubSeq(eventStream, n - m + 1, n)[k] = eventStream[n - m + k]
  <2>1. /\ n - m + 1 \in Int /\ n \in Int
        /\ \A i \in n - m + 1..n : eventStream[i] \in EventRecord
    BY <1>1, <1>2
  <2>2. (IF n - m + 1 <= n THEN n - (n - m + 1) + 1 ELSE 0) = m
    BY <1>1, <1>2
  <2>3. \A k \in 1..m : n - m + 1 + k - 1 = n - m + k
    BY <1>1
  <2>4. QED
    BY <2>1, <2>2, <2>3, SubSeqProperties
<1>5. \A k \in 1..m : n - m + k \in 1..n
  BY <1>1, <1>2
<1>6. Elements(OwnRecords(p)) \subseteq Elements(eventStream)
  BY <1>3, <1>4, <1>5 DEF Elements, n
<1>7. QED
  BY <1>1, <1>2, <1>3, <1>4, <1>5, <1>6 DEF n, m

(* What is finished stays finished until a restart.                        *)
LEMMA ReleasedStays ==
  ASSUME StoreInv, [Next]_vars, ~CrashAndRestart
  PROVE  /\ \A n : Finished(n) => Finished(n)'
         /\ Elements(eventStream) \subseteq Elements(eventStream')
<1> USE OrderTypes DEF StreamFacts
<1>1. ASSUME UNCHANGED eventStream,
             \A r \in Proc : InProgress(r)' => InProgress(r) /\ args'[r] = args[r]
      PROVE  /\ \A n : Finished(n) => Finished(n)'
             /\ Elements(eventStream) \subseteq Elements(eventStream')
  BY <1>1 DEF Finished
<1>2. ASSUME NEW p \in Proc, CallStep(p), ~AppendToStream(p)
      PROVE  /\ UNCHANGED eventStream
             /\ \A r \in Proc : InProgress(r)' => InProgress(r) /\ args'[r] = args[r]
  <2>1. UNCHANGED eventStream
    BY <1>2 DEF CallStep, QueryCall, QueryRead, QueryAll, AppendCall, CheckContext,
           ContextChanged, SaveCall, Serialize, WriteSucceeds, SaveFails, streamVars
  <2>2. ASSUME NEW r \in Proc \ {p}
        PROVE  InProgress(r)' => InProgress(r) /\ args'[r] = args[r]
    BY <1>2, OthersStay DEF InProgress, StoreInv
  <2>3. InProgress(p)' => InProgress(p) /\ args'[p] = args[p]
    BY <1>2 DEF CallStep, QueryCall, QueryRead, QueryAll, AppendCall, CheckContext,
           ContextChanged, SaveCall, Serialize, WriteSucceeds, SaveFails, StartCall,
           Publish, Goto, At, InProgress
  <2>4. QED
    BY <2>1, <2>2, <2>3
<1>3. ASSUME NEW p \in Proc, AppendToStream(p)
      PROVE  /\ \A n : Finished(n) => Finished(n)'
             /\ Elements(eventStream) \subseteq Elements(eventStream')
  <2>1. /\ Len(eventStream') = Len(eventStream) + Len(args[p].batch)
        /\ Elements(eventStream) \subseteq Elements(eventStream')
        /\ Len(args[p].batch) \in Nat /\ UNCHANGED args
    BY <1>3, AppendedRecords DEF AppendToStream
  <2>2. \A r \in Proc : InProgress(r)' => r = p
    BY <1>3, AppendersAreAlone
  <2>3. ASSUME NEW n, Finished(n) PROVE Finished(n)'
    <3>1. n \in Nat /\ n <= Len(eventStream) /\ Len(eventStream) \in Nat
      BY <2>3 DEF Finished
    <3>2. /\ n <= Len(eventStream')
          /\ n <= Len(eventStream') - Len(args[p].batch)
      BY <2>1, <3>1
    <3>3. QED
      BY <2>1, <2>2, <3>1, <3>2 DEF Finished
  <2>4. QED
    BY <2>1, <2>3
<1>4. ASSUME NEW s \in Subscription, SubscriptionStep(s)
      PROVE  UNCHANGED <<eventStream, pc, args>>
  BY <1>4 DEF SubscriptionStep, Subscribe, Unsubscribe, HandlerSettles, streamVars,
              callVars
<1>5. CASE NotifyStart \/ Close \/ UNCHANGED vars
  <2>1. UNCHANGED <<eventStream, pc, args>>
    BY <1>5 DEF NotifyStart, Close, vars, streamVars, callVars
  <2>2. QED
    BY <1>1, <2>1 DEF InProgress
<1>6. CASE NotifyEnd
  <2>1. UNCHANGED <<eventStream, args>> /\ \A r \in Proc : pc'[r] \in {pc[r], "idle"}
    BY <1>6 DEF NotifyEnd, Goto, streamVars
  <2>2. QED
    BY <1>1, <2>1 DEF InProgress
<1>7. QED
  BY <1>1, <1>2, <1>3, <1>4, <1>5, <1>6 DEF Next, InProgress

(* A step that leaves the chain and the deliveries alone.                  *)
LEMMA QuietStepsKeepOrder ==
  ASSUME StoreInv, OrderInv, [Next]_vars, ~CrashAndRestart,
         UNCHANGED <<notificationQueue, notifying, subVars>>
  PROVE  OrderInv'
<1>1. /\ \A n : Finished(n) => Finished(n)'
      /\ Elements(eventStream) \subseteq Elements(eventStream')
  BY ReleasedStays
<1>2. QED
  BY <1>1 DEF OrderInv, JobsAreFinished, JobsAreOrdered, DeliveriesAreAscending,
     DeliveriesComeFirst, Job, Jobs, subVars

(* publish adds a job to the end of the chain.                             *)
LEMMA PublishAddsJob ==
  ASSUME StoreInv, NEW p \in Proc, NEW records \in Seq(EventRecord), Publish(p, records)
  PROVE  /\ UNCHANGED notifying
         /\ \E last \in Nat :
              /\ Jobs' = Jobs \cup {last} /\ last \notin Jobs
              /\ \A i \in Jobs : i < last
              /\ \A i \in Jobs : Job(i)' = Job(i)
              /\ Job(last)' = records
              /\ notifying => last > 1
<1> DEFINE job == [proc |-> p, events |-> records]
<1> PICK last : last = Len(notificationQueue) + 1
  OBVIOUS
<1>1. notificationQueue \in Seq([proc : Proc, events : Seq(EventRecord)])
  BY DEF StoreInv, BaseInv, TypeInv, StoreTypeOK
<1>2. /\ Len(notificationQueue) \in Nat
      /\ Len(notificationQueue') = last
      /\ \A i \in Jobs : notificationQueue'[i] = notificationQueue[i]
      /\ notificationQueue'[last] = job /\ UNCHANGED notifying
  <2>1. job \in [proc : Proc, events : Seq(EventRecord)]
    OBVIOUS
  <2>2. QED
    BY <1>1, <2>1, LenProperties, AppendProperties DEF Publish, Jobs
<1>3. job.events = records
  OBVIOUS
<1>4. Jobs' = 1..last /\ last = Len(notificationQueue) + 1
  BY <1>2 DEF Jobs
<1> HIDE DEF job
<1>5. /\ Jobs' = Jobs \cup {last} /\ last \notin Jobs
      /\ \A i \in Jobs : i < last
  BY <1>2, <1>4 DEF Jobs
<1>6. notifying => last > 1
  BY <1>1, <1>2, EmptySeq DEF StoreInv, BaseInv, RunHasJob
<1>7. QED
  BY <1>2, <1>3, <1>5, <1>6 DEF Job

(* What a call publishes was appended before, and after all that had been  *)
(* finished until then.                                                    *)
IsNewJob(p, records) ==
  /\ Publish(p, records) /\ UNCHANGED subVars
  /\ Ascending(records) /\ Elements(records) \subseteq Elements(eventStream')
  /\ \A e \in Elements(records) :
       /\ Finished(e.sequenceNumber)'
       /\ \A n : Finished(n) => n < e.sequenceNumber

LEMMA AppendPublishes ==
  ASSUME StoreInv, NEW p \in Proc, AppendToStream(p)
  PROVE  \/ UNCHANGED <<notificationQueue, notifying>>
         \/ \E records \in Seq(EventRecord) : IsNewJob(p, records)
<1>1. CASE WriteThru
  BY <1>1 DEF AppendToStream, notifyVars
<1>2. CASE ~WriteThru
  <2>1. PICK records : records = Numbered(args[p].batch, lastSequenceNumber)
    OBVIOUS
  <2>2. Publish(p, records) /\ UNCHANGED subVars
    BY <1>2, <2>1 DEF AppendToStream
  <2>3. /\ records \in Seq(EventRecord)
        /\ \A k \in 1..Len(records) : records[k].sequenceNumber = Len(eventStream) + k
        /\ Len(eventStream') = Len(eventStream) + Len(records)
        /\ Elements(records) \subseteq Elements(eventStream')
        /\ Len(eventStream) \in Nat /\ Len(records) \in Nat
    BY <2>1, AppendedRecords, OrderTypes DEF StreamFacts
  <2>4. Ascending(records)
    BY <2>3 DEF Ascending
  <2>5. ASSUME NEW e \in Elements(records)
        PROVE  /\ Finished(e.sequenceNumber)'
               /\ \A n : Finished(n) => n < e.sequenceNumber
    <3>1. PICK k \in 1..Len(records) : e = records[k]
      BY DEF Elements
    <3>2. \A r \in Proc : ~InProgress(r)'
      BY <1>2, AppendersAreAlone
    <3>3. PICK n : n = e.sequenceNumber
      OBVIOUS
    <3>4. n \in Nat /\ n = Len(eventStream) + k /\ n <= Len(eventStream')
      BY <2>3, <3>1, <3>3
    <3>5. Finished(n)'
      BY <3>2, <3>4 DEF Finished
    <3>6. \A m : Finished(m) => m < n
      BY <2>3, <3>4 DEF Finished
    <3>7. QED
      BY <3>3, <3>5, <3>6
  <2>6. QED
    BY <2>2, <2>3, <2>4, <2>5 DEF IsNewJob
<1>3. QED
  BY <1>1, <1>2

LEMMA WritePublishes ==
  ASSUME StoreInv, NEW p \in Proc, WriteSucceeds(p)
  PROVE  \/ UNCHANGED <<notificationQueue, notifying>>
         \/ \E records \in Seq(EventRecord) : IsNewJob(p, records)
<1>1. CASE p \in Saver
  BY <1>1 DEF WriteSucceeds, notifyVars
<1>2. CASE p \notin Saver
  <2>1. PICK records : records = OwnRecords(p)
    OBVIOUS
  <2>2. PICK first : first = Len(eventStream) - Len(args[p].batch)
    OBVIOUS
  <2>3. /\ Publish(p, records) /\ UNCHANGED subVars
        /\ UNCHANGED <<eventStream, args>>
        /\ InProgress(p)
    BY <1>2, <2>1 DEF WriteSucceeds, streamVars, InProgress, At
  <2>4. /\ records \in Seq(EventRecord) /\ Len(records) \in Nat
        /\ first \in Nat /\ Len(eventStream) = first + Len(records)
        /\ \A k \in 1..Len(records) : records[k].sequenceNumber = first + k
        /\ Elements(records) \subseteq Elements(eventStream)
    <3>1. /\ records \in Seq(EventRecord) /\ Len(records) = Len(args[p].batch)
          /\ Len(args[p].batch) <= Len(eventStream)
          /\ \A k \in 1..Len(records) : records[k].sequenceNumber
                                           = Len(eventStream) - Len(args[p].batch) + k
          /\ Elements(records) \subseteq Elements(eventStream)
      BY <2>1, <2>3, OwnRecordsAreLast
    <3>2. Len(eventStream) \in Nat /\ Len(args[p].batch) \in Nat
      BY OrderTypes DEF StreamFacts
    <3>3. first \in Nat /\ Len(eventStream) = first + Len(records)
      BY <2>2, <3>1, <3>2
    <3>4. QED
      BY <2>2, <3>1, <3>2, <3>3
  <2>5. Ascending(records)
    BY <2>4 DEF Ascending
  <2>6. \A r \in Proc : ~InProgress(r)'
    <3>1. grant[p] = "write"
      BY <2>3 DEF InProgress, StoreInv, CallInv, LockFollowsCalls
    <3>2. \A r \in Proc \ {p} : ~InProgress(r) /\ pc'[r] = pc[r]
      BY <2>3, <3>1, OneInProgress, OrderTypes DEF Publish, Goto
    <3>3. pc'[p] = "notifying"
      BY <2>3, OrderTypes DEF Publish, Goto
    <3>4. QED
      BY <3>2, <3>3 DEF InProgress
  <2>7. ASSUME NEW e \in Elements(records)
        PROVE  /\ Finished(e.sequenceNumber)'
               /\ \A n : Finished(n) => n < e.sequenceNumber
    <3>1. PICK k \in 1..Len(records) : e = records[k]
      BY DEF Elements
    <3>2. PICK n : n = e.sequenceNumber
      OBVIOUS
    <3>3. n \in Nat /\ n = first + k /\ n <= Len(eventStream)
      BY <2>4, <3>1, <3>2
    <3>4. Finished(n)'
      BY <2>3, <2>6, <3>3 DEF Finished
    <3>5. ASSUME NEW m, Finished(m) PROVE m < n
      <4>1. m \in Nat /\ m <= first
        BY <2>2, <2>3, <3>5 DEF Finished
      <4>2. QED
        BY <2>4, <3>3, <4>1
    <3>6. QED
      BY <3>2, <3>4, <3>5
  <2>8. QED
    BY <2>3, <2>4, <2>5, <2>7 DEF IsNewJob
<1>3. QED
  BY <1>1, <1>2

LEMMA CallsPublish ==
  ASSUME StoreInv, NEW p \in Proc, CallStep(p)
  PROVE  \/ UNCHANGED <<notificationQueue, notifying, subVars>>
         \/ \E records \in Seq(EventRecord) : IsNewJob(p, records)
<1>1. UNCHANGED subVars
  BY DEF CallStep, QueryCall, QueryRead, QueryAll, AppendCall, CheckContext,
     ContextChanged, AppendToStream, SaveCall, Serialize, WriteSucceeds, SaveFails
<1>2. CASE ~AppendToStream(p) /\ ~WriteSucceeds(p)
  BY <1>1, <1>2 DEF CallStep, QueryCall, QueryRead, QueryAll, AppendCall, CheckContext,
     ContextChanged, SaveCall, Serialize, SaveFails, notifyVars
<1>3. QED
  BY <1>1, <1>2, AppendPublishes, WritePublishes

(* The new records come after everything that was finished.                *)
LEMMA PublishKeepsOrder ==
  ASSUME StoreInv, OrderInv, [Next]_vars, ~CrashAndRestart,
         NEW p \in Proc, NEW records \in Seq(EventRecord), IsNewJob(p, records)
  PROVE  OrderInv'
<1> USE DEF IsNewJob
<1>1. /\ \A n : Finished(n) => Finished(n)'
      /\ Elements(eventStream) \subseteq Elements(eventStream')
  BY ReleasedStays
<1>2. UNCHANGED notifying
  BY PublishAddsJob
<1>3. PICK last \in Nat :
        /\ Jobs' = Jobs \cup {last} /\ last \notin Jobs
        /\ \A i \in Jobs : i < last
        /\ \A i \in Jobs : Job(i)' = Job(i)
        /\ Job(last)' = records
  BY PublishAddsJob
<1>4. JobsAreFinished'
  <2> SUFFICES ASSUME NEW i \in Jobs'
               PROVE  /\ Ascending(Job(i)')
                      /\ Elements(Job(i)') \subseteq Elements(eventStream')
                      /\ \A e \in Elements(Job(i)') : Finished(e.sequenceNumber)'
    BY DEF JobsAreFinished, Ascending, Elements, Finished, InProgress
  <2>1. CASE i \in Jobs
    BY <1>1, <1>3, <2>1 DEF OrderInv, JobsAreFinished
  <2>2. CASE i = last
    BY <1>3, <2>2
  <2>3. QED
    BY <1>3, <2>1, <2>2
<1>5. JobsAreOrdered'
  <2> SUFFICES ASSUME NEW i \in Jobs', NEW j \in Jobs', i < j
               PROVE  Precedes(Job(i), Job(j))'
    BY DEF JobsAreOrdered
  <2>1. i \in Jobs
    <3>1. Jobs \subseteq Nat
      BY OrderTypes DEF Jobs
    <3>2. QED
      BY <1>3, <3>1
  <2>2. CASE j \in Jobs
    BY <1>3, <2>1, <2>2 DEF OrderInv, JobsAreOrdered, Precedes
  <2>3. CASE j = last
    BY <1>3, <2>1, <2>3 DEF OrderInv, JobsAreFinished, Precedes
  <2>4. QED
    BY <1>3, <2>2, <2>3
<1>6. DeliveriesAreAscending'
  BY DEF OrderInv, DeliveriesAreAscending, subVars
<1>7. DeliveriesComeFirst'
  <2>1. UNCHANGED <<subscriptions, created, delivered>>
    BY DEF subVars
  <2>2. ASSUME NEW s \in subscriptions, NEW i \in Jobs', notifying => i > 1
        PROVE  Precedes(delivered[s], Job(i)')
    <3>1. CASE i \in Jobs
      BY <1>3, <2>2, <3>1 DEF OrderInv, DeliveriesComeFirst
    <3>2. CASE i = last
      BY <1>3, <2>2, <3>2 DEF OrderInv, DeliveriesComeFirst, Precedes
    <3>3. QED
      BY <1>3, <3>1, <3>2
  <2>3. QED
    BY <1>1, <1>2, <2>1, <2>2 DEF OrderInv, DeliveriesComeFirst, Precedes
<1>8. QED
  BY <1>4, <1>5, <1>6, <1>7 DEF OrderInv

(* What is handed out comes after what was delivered before it.            *)
LEMMA DeliveriesStayAscending ==
  ASSUME NEW first \in Seq(EventRecord), NEW second \in Seq(EventRecord),
         Ascending(first), Ascending(second), Precedes(first, second)
  PROVE  /\ Ascending(first \o second)
         /\ Elements(first \o second) = Elements(first) \cup Elements(second)
<1> DEFINE both == first \o second
<1>1. /\ Len(first) \in Nat /\ Len(second) \in Nat
      /\ Len(both) = Len(first) + Len(second)
      /\ \A k \in 1..Len(both) :
           both[k] = IF k <= Len(first) THEN first[k] ELSE second[k - Len(first)]
  BY LenProperties, ConcatProperties
<1> HIDE DEF both
<1>2. ASSUME NEW k \in 1..Len(both), NEW l \in 1..Len(both), k < l
      PROVE  both[k].sequenceNumber < both[l].sequenceNumber
  <2>1. CASE l <= Len(first)
    BY <1>1, <1>2, <2>1 DEF Ascending
  <2>2. CASE k <= Len(first) /\ ~(l <= Len(first))
    <3>1. k \in 1..Len(first) /\ l - Len(first) \in 1..Len(second)
      BY <1>1, <2>2
    <3>2. QED
      BY <1>1, <2>2, <3>1 DEF Precedes, Elements
  <2>3. CASE ~(k <= Len(first))
    <3>1. /\ k - Len(first) \in 1..Len(second) /\ l - Len(first) \in 1..Len(second)
          /\ k - Len(first) < l - Len(first) /\ ~(l <= Len(first))
      BY <1>1, <1>2, <2>3
    <3>2. QED
      BY <1>1, <2>3, <3>1 DEF Ascending
  <2>4. QED
    BY <1>1, <1>2, <2>1, <2>2, <2>3
<1>3. Elements(both) = Elements(first) \cup Elements(second)
  <2>1. ASSUME NEW k \in 1..Len(both) PROVE both[k] \in Elements(first) \cup Elements(second)
    <3>1. CASE k <= Len(first)
      BY <1>1, <3>1 DEF Elements
    <3>2. CASE ~(k <= Len(first))
      <4>1. k - Len(first) \in 1..Len(second)
        BY <1>1, <3>2
      <4>2. QED
        BY <1>1, <3>2, <4>1 DEF Elements
    <3>3. QED
      BY <3>1, <3>2
  <2>2. ASSUME NEW k \in 1..Len(first) PROVE first[k] \in Elements(both)
    BY <1>1 DEF Elements
  <2>3. ASSUME NEW k \in 1..Len(second) PROVE second[k] \in Elements(both)
    <3>1. /\ Len(first) + k \in 1..Len(both) /\ ~(Len(first) + k <= Len(first))
          /\ Len(first) + k - Len(first) = k
      BY <1>1
    <3>2. QED
      BY <1>1, <3>1 DEF Elements
  <2>4. QED
    BY <2>1, <2>2, <2>3 DEF Elements
<1>4. QED
  BY <1>2, <1>3 DEF Ascending, both

LEMMA NotifyStartKeepsOrder ==
  ASSUME StoreInv, OrderInv, [Next]_vars, ~CrashAndRestart, NotifyStart
  PROVE  OrderInv'
<1> DEFINE targets == IF Job(1) = <<>> THEN {} ELSE subscriptions
<1>1. /\ 1 \in Jobs /\ Job(1) = Head(notificationQueue).events
      /\ Job(1) \in Seq(EventRecord)
      /\ ~notifying /\ notifying' = TRUE
      /\ UNCHANGED <<notificationQueue, subscriptions, created, eventStream>>
  BY OrderTypes, EmptySeq DEF NotifyStart, Jobs, Job, streamVars
<1>2. delivered' = [s \in Subscription |->
        IF s \in targets THEN delivered[s] \o Job(1) ELSE delivered[s]]
  BY <1>1 DEF NotifyStart
<1> HIDE DEF targets
<1>3. targets \subseteq subscriptions
  BY DEF targets
<1>4. /\ \A n : Finished(n) => Finished(n)'
      /\ \A i \in Jobs : Job(i)' = Job(i)
      /\ Jobs' = Jobs
  BY <1>1, ReleasedStays DEF Jobs, Job
<1>5. JobsAreFinished' /\ JobsAreOrdered'
  BY <1>1, <1>4 DEF OrderInv, JobsAreFinished, JobsAreOrdered
<1>6. ASSUME NEW s \in targets
      PROVE  /\ delivered'[s] = delivered[s] \o Job(1)
             /\ Ascending(delivered'[s])
             /\ Elements(delivered'[s]) = Elements(delivered[s]) \cup Elements(Job(1))
  <2>1. /\ delivered[s] \in Seq(EventRecord) /\ Ascending(delivered[s])
        /\ Ascending(Job(1)) /\ Precedes(delivered[s], Job(1))
    BY <1>1, <1>3, OrderTypes
       DEF OrderInv, DeliveriesAreAscending, DeliveriesComeFirst, JobsAreFinished
  <2>2. delivered'[s] = delivered[s] \o Job(1)
    BY <1>2, <1>3, OrderTypes
  <2>3. QED
    BY <1>1, <2>1, <2>2, DeliveriesStayAscending
<1>7. \A s \in Subscription \ targets : delivered'[s] = delivered[s]
  BY <1>2
<1>8. DeliveriesAreAscending'
  BY <1>1, <1>3, <1>6, <1>7 DEF OrderInv, DeliveriesAreAscending, DeliveriesComeFirst
<1>9. DeliveriesComeFirst'
  <2> SUFFICES ASSUME NEW s \in subscriptions
               PROVE  /\ \A e \in Elements(delivered'[s]) : Finished(e.sequenceNumber)'
                      /\ \A i \in Jobs : i > 1 => Precedes(delivered'[s], Job(i)')
    BY <1>1, <1>4 DEF OrderInv, DeliveriesComeFirst
  <2>1. /\ \A e \in Elements(delivered[s]) : Finished(e.sequenceNumber)
        /\ \A i \in Jobs : Precedes(delivered[s], Job(i))
    BY <1>1 DEF OrderInv, DeliveriesComeFirst
  <2>2. /\ \A e \in Elements(Job(1)) : Finished(e.sequenceNumber)
        /\ \A i \in Jobs : i > 1 => Precedes(Job(1), Job(i))
    BY <1>1 DEF OrderInv, JobsAreFinished, JobsAreOrdered
  <2>3. Elements(delivered'[s]) \subseteq Elements(delivered[s]) \cup Elements(Job(1))
    BY <1>6, <1>7, OrderTypes
  <2>4. QED
    BY <1>4, <2>1, <2>2, <2>3 DEF Precedes
<1>10. QED
  BY <1>5, <1>8, <1>9 DEF OrderInv

(* notify() is done: the chain moves up by one job.                        *)
LEMMA ChainMovesUp ==
  ASSUME StoreInv, NotifyEnd
  PROVE  /\ notifying /\ ~notifying'
         /\ \A i \in Jobs' : i \in Nat /\ i + 1 \in Jobs /\ i + 1 > 1 /\ Job(i)' = Job(i+1)
         /\ \A i \in Jobs : i > 1 => i - 1 \in Jobs' /\ Job(i-1)' = Job(i)
         /\ 1 \in Jobs /\ Job(1) = Head(notificationQueue).events
<1>1. /\ notificationQueue # <<>> /\ notificationQueue' = Tail(notificationQueue)
      /\ notifying /\ ~notifying'
      /\ notificationQueue \in Seq([proc : Proc, events : Seq(EventRecord)])
  BY DEF NotifyEnd, StoreInv, BaseInv, RunHasJob, TypeInv, StoreTypeOK
<1>2. /\ Len(notificationQueue') = Len(notificationQueue) - 1
      /\ \A i \in 1..Len(notificationQueue') : notificationQueue'[i] = notificationQueue[i+1]
      /\ Len(notificationQueue) \in Nat \ {0}
      /\ notificationQueue[1] = Head(notificationQueue)
  BY <1>1, HeadTailProperties, LenProperties, EmptySeq
<1>3. \A i \in Jobs : i > 1 => i - 1 \in Jobs' /\ (i - 1) + 1 = i
  BY <1>2 DEF Jobs
<1>4. \A i \in Jobs' : i \in Nat /\ i + 1 \in Jobs /\ i + 1 > 1
  BY <1>2 DEF Jobs
<1>5. QED
  BY <1>1, <1>2, <1>3, <1>4 DEF Jobs, Job

LEMMA NotifyEndKeepsOrder ==
  ASSUME StoreInv, OrderInv, [Next]_vars, ~CrashAndRestart, NotifyEnd
  PROVE  OrderInv'
<1>1. /\ notifying /\ ~notifying' /\ notificationQueue # <<>>
      /\ notificationQueue' = Tail(notificationQueue)
      /\ UNCHANGED <<subVars, eventStream>>
  BY DEF NotifyEnd, StoreInv, BaseInv, RunHasJob, streamVars
<1>2. \A i \in Jobs' : i \in Nat /\ i + 1 \in Jobs /\ i + 1 > 1 /\ Job(i)' = Job(i+1)
  BY ChainMovesUp
<1>3. \A n : Finished(n) => Finished(n)'
  BY ReleasedStays
<1>4. JobsAreFinished'
  BY <1>1, <1>2, <1>3 DEF OrderInv, JobsAreFinished
<1>5. JobsAreOrdered'
  <2> SUFFICES ASSUME NEW i \in Jobs', NEW j \in Jobs', i < j
               PROVE  Precedes(Job(i)', Job(j)')
    BY DEF JobsAreOrdered, Precedes, Elements
  <2>1. i + 1 < j + 1
    BY <1>2
  <2>2. QED
    BY <1>2, <2>1 DEF OrderInv, JobsAreOrdered
<1>6. DeliveriesAreAscending' /\ DeliveriesComeFirst'
  <2>1. DeliveriesAreAscending'
    BY <1>1 DEF OrderInv, DeliveriesAreAscending, subVars
  <2>2. \A s \in subscriptions : \A i \in Jobs' : Precedes(delivered[s], Job(i)')
    BY <1>1, <1>2 DEF OrderInv, DeliveriesComeFirst
  <2>3. DeliveriesComeFirst'
    BY <1>1, <1>3, <2>2 DEF OrderInv, DeliveriesComeFirst, subVars, Precedes
  <2>4. QED
    BY <2>1, <2>3
<1>7. QED
  BY <1>4, <1>5, <1>6 DEF OrderInv

(* Subscriptions come without deliveries and go; a restart empties chain   *)
(* and subscriptions.                                                      *)
LEMMA SubscribersKeepOrder ==
  ASSUME StoreInv, OrderInv, [Next]_vars, ~CrashAndRestart,
         Close \/ \E s \in Subscription : SubscriptionStep(s)
  PROVE  OrderInv'
<1>1. ASSUME NEW s \in Subscription, HandlerSettles(s) PROVE OrderInv'
  BY <1>1, QuietStepsKeepOrder DEF HandlerSettles
<1>2. ASSUME UNCHANGED <<notificationQueue, notifying, delivered>>,
             created \subseteq created', subscriptions' \subseteq created',
             \A s \in subscriptions' : s \in subscriptions \/ delivered[s] = <<>>
      PROVE  OrderInv'
  <2>1. /\ \A n : Finished(n) => Finished(n)'
        /\ Elements(eventStream) \subseteq Elements(eventStream')
    BY ReleasedStays
  <2>2. Elements(<<>>) = {}
    BY DEF Elements
  <2>3. QED
    BY <1>2, <2>1, <2>2 DEF OrderInv, JobsAreFinished, JobsAreOrdered,
       DeliveriesAreAscending, DeliveriesComeFirst, Job, Jobs, Precedes
<1>3. ASSUME NEW s \in Subscription, Subscribe(s) PROVE OrderInv'
  <2>1. delivered[s] = <<>>
    BY <1>3 DEF Subscribe, OrderInv, DeliveriesAreAscending
  <2>2. QED
    BY <1>2, <1>3, <2>1 DEF Subscribe, notifyVars, OrderInv, DeliveriesComeFirst
<1>4. ASSUME Close \/ \E s \in Subscription : Unsubscribe(s) PROVE OrderInv'
  BY <1>2, <1>4 DEF Close, Unsubscribe, notifyVars, OrderInv, DeliveriesComeFirst
<1>5. QED
  BY <1>1, <1>3, <1>4 DEF SubscriptionStep

LEMMA RestartKeepsOrder ==
  ASSUME OrderInv, CrashAndRestart
  PROVE  OrderInv'
<1>1. /\ notificationQueue' = <<>> /\ subscriptions' = {}
      /\ UNCHANGED <<created, delivered>>
  BY DEF CrashAndRestart, CreateFromFile
<1>2. Jobs' = {}
  BY <1>1 DEF Jobs
<1>3. QED
  BY <1>1, <1>2 DEF OrderInv, JobsAreFinished, JobsAreOrdered,
     DeliveriesAreAscending, DeliveriesComeFirst

LEMMA StoreKeepsOrder ==
  ASSUME StoreInv, OrderInv, [Next]_vars
  PROVE  OrderInv'
<1>1. CASE CrashAndRestart
  BY <1>1, RestartKeepsOrder
<1>2. CASE ~CrashAndRestart
  <2>1. ASSUME NEW p \in Proc, CallStep(p) PROVE OrderInv'
    BY <1>2, <2>1, CallsPublish, PublishKeepsOrder, QuietStepsKeepOrder
  <2>2. CASE UNCHANGED vars
    BY <1>2, <2>2, QuietStepsKeepOrder DEF vars, notifyVars
  <2>3. QED
    BY <1>2, <2>1, <2>2, NotifyStartKeepsOrder, NotifyEndKeepsOrder,
       SubscribersKeepOrder DEF Next
<1>3. QED
  BY <1>1, <1>2

LEMMA StoreIsInOrder == Spec => []OrderInv
BY OrderInvInit, StoreKeepsOrder, StoreSafety, PTL DEF Spec

(* What waits in the notification chain was appended and is in the order   *)
(* of the stream, for any number of appends that write through.            *)
THEOREM ChainIsInOrder == Spec => []ChainFollowsStream
<1>1. OrderInv => ChainFollowsStream
  BY DEF OrderInv, JobsAreFinished, JobsAreOrdered, ChainFollowsStream, Job, Jobs,
         Precedes
<1>2. QED
  BY <1>1, StoreIsInOrder, PTL

(* A subscription never receives an event twice or out of order, whatever  *)
(* writes fail and whenever the process is restarted.                      *)
THEOREM DeliveriesAreInOrder == Spec => []DeliveredInOrder
<1>1. OrderInv => DeliveredInOrder
  BY DEF OrderInv, DeliveriesAreAscending, DeliveredInOrder, Ascending
<1>2. QED
  BY <1>1, StoreIsInOrder, PTL

-----------------------------------------------------------------------------
(* Gaps.  While files do not fail, every number that is finished after an  *)
(* event a subscription has received was delivered to it or waits for it.  *)

Numbers(records) == {e.sequenceNumber : e \in Elements(records)}

IsWaiting(n) == \E i \in Jobs : (notifying => i > 1) /\ n \in Numbers(Job(i))

NothingIsSkipped ==
  \A s \in subscriptions : \A e \in Elements(delivered[s]) : \A n :
    Finished(n) /\ e.sequenceNumber < n => n \in Numbers(delivered[s]) \/ IsWaiting(n)

(* The jobs of the chain leave nothing out either.                         *)
JobsSkipNothing ==
  \A i \in Jobs : \A e \in Elements(Job(i)) : \A n :
    Finished(n) /\ e.sequenceNumber < n => \E j \in Jobs : n \in Numbers(Job(j))

GapInv ==
  FileErrors = FALSE => JobsSkipNothing /\ NothingIsSkipped /\ DeliveredWithoutGaps

(* Numbers are finished by publishing them.                                *)
LEMMA ReleaseMeansWaiting ==
  ASSUME StoreInv, FileErrors = FALSE, [Next]_vars, ~CrashAndRestart, NEW n, Finished(n)'
  PROVE  Finished(n) \/ IsWaiting(n)'
<1> USE OrderTypes DEF StreamFacts
<1>1. ASSUME UNCHANGED eventStream,
             \A r \in Proc : InProgress(r) => InProgress(r)' /\ args'[r] = args[r]
      PROVE  Finished(n)
  BY <1>1 DEF Finished
<1>2. ASSUME NEW p \in Proc, NEW records \in Seq(EventRecord), Publish(p, records),
             n \in Numbers(records)
      PROVE  IsWaiting(n)'
  BY <1>2, PublishAddsJob DEF IsWaiting
<1>3. ASSUME NEW p \in Proc, AppendToStream(p) PROVE Finished(n) \/ IsWaiting(n)'
  <2>1. PICK records : records = Numbered(args[p].batch, lastSequenceNumber)
    OBVIOUS
  <2>2. /\ records \in Seq(EventRecord) /\ Len(records) = Len(args[p].batch)
        /\ \A k \in 1..Len(records) : records[k].sequenceNumber = Len(eventStream) + k
        /\ Len(eventStream') = Len(eventStream) + Len(records)
        /\ UNCHANGED args /\ Len(records) \in Nat
    BY <1>3, <2>1, AppendedRecords DEF AppendToStream
  <2>3. n \in Nat /\ n <= Len(eventStream')
    BY DEF Finished
  <2>4. CASE n <= Len(eventStream)
    BY <1>3, <2>3, <2>4, AppendersAreAlone DEF Finished
  <2>5. CASE ~(n <= Len(eventStream)) /\ WriteThru
    <3>1. InProgress(p)'
      BY <1>3, <2>5, AppendersAreAlone DEF AppendToStream, Goto, InProgress
    <3>2. n <= Len(eventStream') - Len(args[p].batch)
      BY <2>2, <3>1 DEF Finished
    <3>3. QED
      BY <2>2, <2>3, <2>5, <3>2
  <2>6. CASE ~(n <= Len(eventStream)) /\ ~WriteThru
    <3>1. Publish(p, records)
      BY <1>3, <2>1, <2>6 DEF AppendToStream
    <3>2. PICK k \in 1..Len(records) : n = Len(eventStream) + k
      <4>1. n - Len(eventStream) \in 1..Len(records)
            /\ n = Len(eventStream) + (n - Len(eventStream))
        BY <2>2, <2>3, <2>6
      <4>2. QED
        BY <4>1
    <3>3. n \in Numbers(records)
      BY <2>2, <3>2 DEF Numbers, Elements
    <3>4. QED
      BY <1>2, <2>2, <3>1, <3>3
  <2>7. QED
    BY <2>4, <2>5, <2>6
<1>4. ASSUME NEW p \in Proc, WriteSucceeds(p), p \notin Saver
      PROVE  Finished(n) \/ IsWaiting(n)'
  <2>1. PICK records : records = OwnRecords(p)
    OBVIOUS
  <2>2. PICK first : first = Len(eventStream) - Len(args[p].batch)
    OBVIOUS
  <2>3. /\ InProgress(p) /\ Publish(p, records) /\ UNCHANGED <<eventStream, args>>
    BY <1>4, <2>1 DEF InProgress, WriteSucceeds, At, streamVars
  <2>4. /\ records \in Seq(EventRecord) /\ Len(records) = Len(args[p].batch)
        /\ Len(args[p].batch) <= Len(eventStream)
        /\ \A k \in 1..Len(records) : records[k].sequenceNumber = first + k
    BY <2>1, <2>2, <2>3, OwnRecordsAreLast
  <2>5. first \in Nat /\ Len(records) \in Nat /\ Len(eventStream) = first + Len(records)
    BY <2>2, <2>4
  <2>6. n \in Nat /\ n <= Len(eventStream)
    BY <2>3 DEF Finished
  <2>7. CASE n <= first
    <3>1. \A r \in Proc : InProgress(r) => r = p
      BY <2>3, OneInProgress DEF InProgress, StoreInv, CallInv, LockFollowsCalls
    <3>2. QED
      BY <2>2, <2>6, <2>7, <3>1 DEF Finished
  <2>8. CASE ~(n <= first)
    <3>1. n - first \in 1..Len(records) /\ n = first + (n - first)
      BY <2>5, <2>6, <2>8
    <3>2. PICK k \in 1..Len(records) : n = first + k
      BY <3>1
    <3>3. n \in Numbers(records)
      BY <2>4, <3>2 DEF Numbers, Elements
    <3>4. QED
      BY <1>2, <2>3, <2>4, <3>3
  <2>9. QED
    BY <2>7, <2>8
<1>5. ASSUME NEW p \in Proc, CallStep(p), ~AppendToStream(p),
             ~(WriteSucceeds(p) /\ p \notin Saver)
      PROVE  Finished(n)
  <2>1. UNCHANGED eventStream
    BY <1>5 DEF CallStep, QueryCall, QueryRead, QueryAll, AppendCall, CheckContext,
           ContextChanged, SaveCall, Serialize, WriteSucceeds, SaveFails, streamVars
  <2>2. ASSUME NEW r \in Proc \ {p}, InProgress(r)
        PROVE  InProgress(r)' /\ args'[r] = args[r]
    BY <1>5, <2>2, OthersStay DEF InProgress, StoreInv
  <2>3. ASSUME InProgress(p) PROVE InProgress(p)' /\ args'[p] = args[p]
    BY <1>5, <2>3 DEF CallStep, QueryCall, QueryRead, QueryAll, AppendCall,
       CheckContext, ContextChanged, SaveCall, Serialize, WriteSucceeds, SaveFails,
       StartCall, Goto, At, InProgress
  <2>4. QED
    BY <1>1, <2>1, <2>2, <2>3
<1>6. CASE NotifyEnd
  <2>1. 1 \in Jobs /\ notificationQueue[1] = Head(notificationQueue)
    BY <1>6, EmptySeq DEF NotifyEnd, StoreInv, BaseInv, RunHasJob, Jobs
  <2>2. At(Head(notificationQueue).proc, "notifying")
    BY <2>1 DEF StoreInv, CallInv, ChainFollowsCalls, Jobs
  <2>3. UNCHANGED <<eventStream, args>>
        /\ \A r \in Proc : pc'[r] = pc[r] \/ pc[r] = "notifying"
    BY <1>6, <2>2 DEF NotifyEnd, Goto, At, streamVars
  <2>4. QED
    BY <1>1, <2>3 DEF InProgress
<1>7. ASSUME ~NotifyEnd, ~\E p \in Proc : CallStep(p) PROVE Finished(n)
  <2>1. UNCHANGED <<eventStream, pc, args>>
    BY <1>7 DEF Next, NotifyStart, Close, SubscriptionStep, Subscribe, Unsubscribe,
       HandlerSettles, vars, streamVars, callVars
  <2>2. QED
    BY <1>1, <2>1 DEF InProgress
<1>8. QED
  BY <1>3, <1>4, <1>5, <1>6, <1>7

(* What waits goes on waiting until it is handed out.                      *)
LEMMA WaitingStays ==
  ASSUME StoreInv, [Next]_vars, ~CrashAndRestart, ~NotifyStart, NEW n, IsWaiting(n)
  PROVE  IsWaiting(n)'
<1>1. CASE UNCHANGED <<notificationQueue, notifying>>
  BY <1>1 DEF IsWaiting, Jobs, Job
<1>2. ASSUME NEW p \in Proc, NEW records \in Seq(EventRecord), Publish(p, records)
      PROVE  IsWaiting(n)'
  BY <1>2, PublishAddsJob DEF IsWaiting
<1>3. ASSUME NEW p \in Proc, CallStep(p) PROVE IsWaiting(n)'
  BY <1>1, <1>2, <1>3, CallsPublish DEF IsNewJob
<1>4. CASE NotifyEnd
  <2>1. /\ ~notifying' /\ notifying
        /\ \A i \in Jobs : i > 1 => i - 1 \in Jobs' /\ Job(i-1)' = Job(i)
    BY <1>4, ChainMovesUp
  <2>2. QED
    BY <2>1 DEF IsWaiting
<1>5. CASE ~NotifyEnd /\ ~\E p \in Proc : CallStep(p)
  <2>1. UNCHANGED <<notificationQueue, notifying>>
    BY <1>5 DEF Next, Close, SubscriptionStep, Subscribe, Unsubscribe,
       HandlerSettles, vars, notifyVars
  <2>2. QED
    BY <1>1, <2>1
<1>6. QED
  BY <1>3, <1>4, <1>5

(* A job that comes before n in the chain does not hold n.                 *)
LEMMA LaterJobsHoldLaterNumbers ==
  ASSUME StoreInv, OrderInv, NEW i \in Jobs, NEW j \in Jobs, NEW e \in Elements(Job(i)),
         NEW n \in Numbers(Job(j)), e.sequenceNumber < n
  PROVE  i <= j
<1>1. PICK f \in Elements(Job(j)) : n = f.sequenceNumber
  BY DEF Numbers
<1>2. e.sequenceNumber \in Nat /\ n \in Nat /\ i \in Nat /\ j \in Nat
  BY <1>1, OrderTypes DEF OrderInv, JobsAreFinished, Finished, Jobs
<1>3. j < i => n < e.sequenceNumber
  BY <1>1 DEF OrderInv, JobsAreOrdered, Precedes
<1>4. QED
  BY <1>2, <1>3

LEMMA JobsGoOn ==
  ASSUME StoreInv, OrderInv, JobsSkipNothing, FileErrors = FALSE, [Next]_vars,
         ~CrashAndRestart
  PROVE  JobsSkipNothing'
<1>1. ASSUME NEW n, Finished(n)' PROVE Finished(n) \/ \E j \in Jobs' : n \in Numbers(Job(j)')
  BY <1>1, ReleaseMeansWaiting DEF IsWaiting, Numbers, Elements, Job, Jobs
<1>2. CASE UNCHANGED notificationQueue
  BY <1>1, <1>2 DEF JobsSkipNothing, Jobs, Job, Numbers
<1>3. ASSUME NEW p \in Proc, NEW records \in Seq(EventRecord), IsNewJob(p, records)
      PROVE  JobsSkipNothing'
  <2>1. PICK last \in Nat :
          /\ Jobs' = Jobs \cup {last}
          /\ \A i \in Jobs : Job(i)' = Job(i)
          /\ Job(last)' = records
    BY <1>3, PublishAddsJob DEF IsNewJob
  <2>2. SUFFICES ASSUME NEW i \in Jobs', NEW e \in Elements(Job(i)'), NEW n,
                        Finished(n)', e.sequenceNumber < n
                 PROVE  \E j \in Jobs' : n \in Numbers(Job(j)')
    BY DEF JobsSkipNothing, Numbers, Elements, Job
  <2>3. CASE Finished(n) /\ i \in Jobs
    BY <2>1, <2>2, <2>3 DEF JobsSkipNothing
  <2>4. CASE Finished(n) /\ i = last
    <3>1. n < e.sequenceNumber /\ Finished(e.sequenceNumber)'
      BY <1>3, <2>1, <2>4 DEF IsNewJob
    <3>2. n \in Nat /\ e.sequenceNumber \in Nat
      BY <2>4, <3>1 DEF Finished
    <3>3. QED
      BY <2>2, <3>1, <3>2
  <2>5. QED
    BY <1>1, <2>1, <2>2, <2>3, <2>4
<1>4. CASE NotifyEnd
  <2>1. \A i \in Jobs' : i \in Nat /\ i + 1 \in Jobs /\ i + 1 > 1 /\ Job(i)' = Job(i+1)
    BY <1>4, ChainMovesUp
  <2>2. \A i \in Jobs : i > 1 => i - 1 \in Jobs' /\ Job(i-1)' = Job(i)
    BY <1>4, ChainMovesUp
  <2>3. SUFFICES ASSUME NEW i \in Jobs', NEW e \in Elements(Job(i)'), NEW n,
                        Finished(n)', e.sequenceNumber < n
                 PROVE  \E j \in Jobs' : n \in Numbers(Job(j)')
    BY DEF JobsSkipNothing, Numbers, Elements, Job
  <2>4. CASE Finished(n)
    <3>1. e \in Elements(Job(i+1)) /\ i + 1 \in Jobs /\ i \in Nat /\ i + 1 > 1
      BY <2>1, <2>3
    <3>2. PICK j \in Jobs : n \in Numbers(Job(j))
      BY <2>3, <2>4, <3>1 DEF JobsSkipNothing
    <3>3. i + 1 <= j /\ j \in Nat
      BY <2>3, <3>1, <3>2, LaterJobsHoldLaterNumbers, OrderTypes DEF Jobs
    <3>4. j > 1
      BY <3>1, <3>3
    <3>5. QED
      BY <2>2, <3>2, <3>4
  <2>5. QED
    BY <1>1, <2>3, <2>4
<1>5. ASSUME NEW p \in Proc, CallStep(p) PROVE JobsSkipNothing'
  BY <1>2, <1>3, <1>5, CallsPublish
<1>6. CASE ~NotifyEnd /\ ~\E p \in Proc : CallStep(p)
  <2>1. UNCHANGED notificationQueue
    BY <1>6 DEF Next, NotifyStart, Close, SubscriptionStep, Subscribe, Unsubscribe,
       HandlerSettles, vars, notifyVars
  <2>2. QED
    BY <1>2, <2>1
<1>7. QED
  BY <1>4, <1>5, <1>6

(* Handing out the head of the chain.                                      *)
LEMMA NotifyStartSkipsNothing ==
  ASSUME StoreInv, OrderInv, JobsSkipNothing, NothingIsSkipped, FileErrors = FALSE,
         [Next]_vars, ~CrashAndRestart, NotifyStart
  PROVE  NothingIsSkipped'
<1>1. /\ 1 \in Jobs /\ Job(1) = Head(notificationQueue).events
      /\ Job(1) \in Seq(EventRecord)
      /\ ~notifying /\ notifying' = TRUE
      /\ UNCHANGED <<notificationQueue, subscriptions>>
  BY OrderTypes, EmptySeq DEF NotifyStart, Jobs, Job
<1>2. \A i \in Jobs : i > 1 => \A n \in Numbers(Job(i)) : IsWaiting(n)'
  BY <1>1 DEF IsWaiting, Jobs, Job, Numbers
<1>3. ASSUME NEW n, Finished(n)' PROVE Finished(n) \/ IsWaiting(n)'
  BY <1>3, ReleaseMeansWaiting
<1>4. SUFFICES ASSUME NEW s \in subscriptions, NEW e \in Elements(delivered'[s]), NEW n,
                      Finished(n), e.sequenceNumber < n
               PROVE  n \in Numbers(delivered'[s]) \/ IsWaiting(n)'
  BY <1>1, <1>3 DEF NothingIsSkipped
<1>5. s \in Subscription /\ \A i \in Jobs : i \in Nat /\ (~(i > 1) => i = 1)
  BY OrderTypes DEF Jobs
<1>6. CASE Job(1) = <<>>
  <2>1. delivered'[s] = delivered[s] /\ Numbers(Job(1)) = {}
    BY <1>1, <1>5, <1>6 DEF NotifyStart, Numbers, Elements
  <2>2. n \in Numbers(delivered[s]) \/ \E i \in Jobs : n \in Numbers(Job(i))
    BY <1>4, <2>1 DEF NothingIsSkipped, IsWaiting
  <2>3. QED
    BY <1>2, <1>5, <2>1, <2>2
<1>7. CASE Job(1) # <<>>
  <2>1. delivered'[s] = delivered[s] \o Job(1)
    BY <1>1, <1>4, <1>5, <1>7 DEF NotifyStart
  <2>2. /\ delivered[s] \in Seq(EventRecord) /\ Ascending(delivered[s])
        /\ Ascending(Job(1)) /\ Precedes(delivered[s], Job(1))
    BY <1>1, <1>5, OrderTypes
       DEF OrderInv, DeliveriesAreAscending, DeliveriesComeFirst, JobsAreFinished
  <2>3. Elements(delivered'[s]) = Elements(delivered[s]) \cup Elements(Job(1))
    BY <1>1, <2>1, <2>2, DeliveriesStayAscending
  <2>4. n \in Numbers(delivered[s]) \/ \E i \in Jobs : n \in Numbers(Job(i))
    <3>1. CASE e \in Elements(delivered[s])
      BY <1>4, <3>1 DEF NothingIsSkipped, IsWaiting
    <3>2. CASE e \in Elements(Job(1))
      BY <1>1, <1>4, <3>2 DEF JobsSkipNothing
    <3>3. QED
      BY <2>3, <3>1, <3>2
  <2>5. QED
    BY <1>2, <1>5, <2>3, <2>4 DEF Numbers
<1>8. QED
  BY <1>6, <1>7

LEMMA SkippingNothingStays ==
  ASSUME StoreInv, OrderInv, NothingIsSkipped, FileErrors = FALSE, [Next]_vars,
         ~CrashAndRestart, ~NotifyStart
  PROVE  NothingIsSkipped' /\ UNCHANGED delivered
<1>1. ASSUME NEW p \in Proc, CallStep(p) PROVE UNCHANGED <<subscriptions, delivered>>
  BY <1>1, CallsPublish DEF IsNewJob, subVars
<1>2. UNCHANGED delivered
  BY <1>1 DEF Next, NotifyEnd, Close, SubscriptionStep, Subscribe, Unsubscribe,
     HandlerSettles, vars, subVars
<1>3. \A s \in subscriptions' : s \in subscriptions \/ delivered[s] = <<>>
  <2>1. ASSUME NEW s \in Subscription, Subscribe(s)
        PROVE  delivered[s] = <<>> /\ subscriptions' = subscriptions \cup {s}
    BY <2>1 DEF Subscribe, OrderInv, DeliveriesAreAscending
  <2>2. CASE ~\E s \in Subscription : Subscribe(s)
    BY <1>1, <2>2 DEF Next, NotifyEnd, Close, SubscriptionStep, Unsubscribe,
       HandlerSettles, vars, subVars
  <2>3. QED
    BY <2>1, <2>2
<1>4. \A n : Finished(n)' => Finished(n) \/ IsWaiting(n)'
  BY ReleaseMeansWaiting
<1>5. \A n : IsWaiting(n) => IsWaiting(n)'
  BY WaitingStays
<1>6. Elements(<<>>) = {}
  BY DEF Elements
<1>7. QED
  BY <1>2, <1>3, <1>4, <1>5, <1>6 DEF NothingIsSkipped

(* A gap would be a number that was skipped.                               *)
LEMMA HandingOutLeavesNoGap ==
  ASSUME StoreInv, OrderInv', NothingIsSkipped', DeliveredWithoutGaps, NotifyStart,
         StoreInv'
  PROVE  DeliveredWithoutGaps'
<1>1. UNCHANGED subscriptions
  BY DEF NotifyStart
<1> SUFFICES ASSUME NEW s \in Subscription, NEW i \in 1..Len(delivered'[s]) - 1
             PROVE  delivered'[s][i+1].sequenceNumber = delivered'[s][i].sequenceNumber + 1
  BY DEF DeliveredWithoutGaps
<1>2. CASE delivered'[s] = delivered[s]
  BY <1>2 DEF DeliveredWithoutGaps
<1>3. CASE delivered'[s] # delivered[s]
  <2>1. s \in subscriptions'
    BY <1>1, <1>3 DEF NotifyStart
  <2>2. PICK d \in Seq(EventRecord) : d = delivered'[s]
    BY OrderTypes DEF StoreInv, BaseInv, TypeInv, StoreTypeOK
  <2>3. /\ Len(d) \in Nat /\ i \in Nat /\ i \in 1..Len(d) /\ i + 1 \in 1..Len(d)
        /\ \A k \in 1..Len(d) : d[k].sequenceNumber \in Nat
    <3>1. Len(d) \in Nat /\ \A k \in 1..Len(d) : d[k] \in EventRecord
      BY <2>2, LenProperties, ElementOfSeq
    <3>2. QED
      BY <2>2, <3>1 DEF EventRecord
  <2>4. /\ Ascending(d)
        /\ \A e \in Elements(d) : Finished(e.sequenceNumber)'
        /\ \A k \in Jobs' : k > 1 => Precedes(d, Job(k)')
    <3>1. Ascending(delivered'[s])
      BY DEF OrderInv, DeliveriesAreAscending
    <3>2. \A e \in Elements(delivered'[s]) : Finished(e.sequenceNumber)'
      BY <2>1 DEF OrderInv, DeliveriesComeFirst
    <3>3. notifying' = TRUE
      BY DEF NotifyStart
    <3>4. \A k \in Jobs' : k > 1 => Precedes(delivered'[s], Job(k)')
      BY <2>1, <3>3 DEF OrderInv, DeliveriesComeFirst
    <3>5. QED
      BY <2>2, <3>1, <3>2, <3>4
  <2> DEFINE a == d[i].sequenceNumber
             b == d[i+1].sequenceNumber
  <2>5. a \in Nat /\ b \in Nat /\ a < b /\ d[i] \in Elements(d) /\ d[i+1] \in Elements(d)
    BY <2>3, <2>4 DEF Ascending, Elements
  <2>6. ASSUME a + 1 < b PROVE FALSE
    <3>1. PICK n : n = a + 1
      OBVIOUS
    <3>2. n \in Nat /\ a < n /\ n < b
      BY <2>5, <2>6, <3>1
    <3>3. Finished(n)'
      <4>1. Finished(b)'
        BY <2>4, <2>5
      <4>2. /\ Len(eventStream') \in Nat
            /\ \A p \in Proc : Len(args'[p].batch) \in Nat
        BY LenProperties DEF StoreInv, BaseInv, TypeInv, StoreTypeOK
      <4>3. QED
        BY <2>5, <3>2, <4>1, <4>2 DEF Finished
    <3>4. n \in Numbers(d) \/ IsWaiting(n)'
      BY <2>1, <2>2, <2>5, <3>2, <3>3 DEF NothingIsSkipped
    <3>5. n \notin Numbers(d)
      <4>1. ASSUME NEW k \in 1..Len(d), n = d[k].sequenceNumber PROVE FALSE
        <5>1. CASE k <= i
          BY <2>3, <2>4, <3>2, <4>1, <5>1 DEF Ascending
        <5>2. CASE ~(k <= i)
          BY <2>3, <2>4, <3>2, <4>1, <5>2 DEF Ascending
        <5>3. QED
          BY <5>1, <5>2
      <4>2. QED
        BY <4>1 DEF Numbers, Elements
    <3>6. ~IsWaiting(n)'
      BY <2>4, <2>5, <3>2 DEF IsWaiting, NotifyStart, Precedes, Numbers
    <3>7. QED
      BY <3>4, <3>5, <3>6
  <2>7. QED
    BY <2>2, <2>5, <2>6
<1>4. QED
  BY <1>2, <1>3

LEMMA StoreKeepsGapsOut ==
  ASSUME StoreInv, StoreInv', OrderInv, OrderInv', GapInv, [Next]_vars
  PROVE  GapInv'
<1> SUFFICES ASSUME FileErrors = FALSE
             PROVE  (JobsSkipNothing /\ NothingIsSkipped /\ DeliveredWithoutGaps)'
  BY DEF GapInv
<1>1. JobsSkipNothing /\ NothingIsSkipped /\ DeliveredWithoutGaps
  BY DEF GapInv
<1>2. CASE CrashAndRestart
  <2>1. notificationQueue' = <<>> /\ subscriptions' = {} /\ UNCHANGED delivered
    BY <1>2 DEF CrashAndRestart, CreateFromFile
  <2>2. Jobs' = {}
    BY <2>1 DEF Jobs
  <2>3. QED
    BY <1>1, <2>1, <2>2 DEF JobsSkipNothing, NothingIsSkipped, DeliveredWithoutGaps
<1>3. CASE ~CrashAndRestart /\ NotifyStart
  BY <1>1, <1>3, JobsGoOn, NotifyStartSkipsNothing, HandingOutLeavesNoGap
<1>4. CASE ~CrashAndRestart /\ ~NotifyStart
  <2>1. NothingIsSkipped' /\ UNCHANGED delivered
    BY <1>1, <1>4, SkippingNothingStays
  <2>2. QED
    BY <1>1, <1>4, <2>1, JobsGoOn DEF DeliveredWithoutGaps
<1>5. QED
  BY <1>2, <1>3, <1>4

LEMMA GapInvInit == Init => GapInv
BY DEF Init, GapInv, JobsSkipNothing, NothingIsSkipped, DeliveredWithoutGaps, Jobs

(* While files do not fail, a subscription receives every event from its   *)
(* first one on, with write-through or without, across restarts.           *)
THEOREM DeliveriesAreComplete ==
  ASSUME FileErrors = FALSE
  PROVE  Spec => []DeliveredWithoutGaps
<1>1. Spec => []GapInv
  BY GapInvInit, StoreKeepsGapsOut, StoreSafety, StoreIsInOrder, PTL DEF Spec
<1>2. GapInv => DeliveredWithoutGaps
  BY DEF GapInv
<1>3. QED
  BY <1>1, <1>2, PTL

-----------------------------------------------------------------------------
(* The file.  When append() alone writes it, there is one write at a time, *)
(* its text is the stream as it stays until the write ends, and nothing is *)
(* published before.  A successor that could not be constructed is dead.   *)

FileFollowsStream ==
  /\ ~mixed
  /\ \A p \in Proc : At(p, "writing") =>
       saving[p].records = eventStream /\ file.state = "torn"
  /\ ~up => /\ file.state = "torn" /\ notificationQueue = <<>>
            /\ \A p \in Proc : At(p, "idle")
  /\ up => acknowledged \subseteq Elements(eventStream)
  /\ file.state # "torn" =>
       /\ acknowledged \subseteq Elements(file.text.records)
       /\ \A i \in Jobs : Elements(Job(i)) \subseteq Elements(file.text.records)

FileInv == Saver = {} /\ WriteThru => FileFollowsStream

LEMMA FileInvInit == Init => FileInv
BY DEF Init, FileInv, FileFollowsStream, ByProc, At, File, Jobs

(* A call that is under way belongs to a store that was constructed.       *)
LEMMA CallsAreUp ==
  ASSUME StoreInv, FileFollowsStream, NEW p \in Proc, CallStep(p)
  PROVE  up
BY DEF FileFollowsStream, CallStep, QueryCall, QueryRead, QueryAll, AppendCall,
       CheckContext, ContextChanged, AppendToStream, SaveCall, Serialize,
       WriteSucceeds, SaveFails, StartCall, At

(* There is one writer at most, and it holds the write lock.               *)
LEMMA WriterIsAlone ==
  ASSUME Saver = {}, StoreInv, NEW p \in Proc, pc[p] \in {"importing", "writing"}
  PROVE  /\ InProgress(p) /\ grant[p] = "write"
         /\ \A r \in Proc : pc[r] \in {"importing", "writing"} => r = p
<1>1. \A r \in Proc : pc[r] \in {"importing", "writing"} => InProgress(r)
  BY DEF InProgress
<1>2. grant[p] = "write"
  BY DEF StoreInv, CallInv, LockFollowsCalls
<1>3. QED
  BY <1>1, <1>2, OneInProgress

(* Steps of calls that neither append nor touch the file.                  *)
LEMMA OtherCallsKeepFile ==
  ASSUME Saver = {}, WriteThru, StoreInv, FileFollowsStream, NEW p \in Proc,
         CallStep(p), ~AppendToStream(p), ~Serialize(p), ~WriteSucceeds(p)
  PROVE  FileFollowsStream'
<1>1. up
  BY CallsAreUp
<1>2. UNCHANGED <<eventStream, notificationQueue, file, saving, acknowledged, up>>
  BY DEF CallStep, QueryCall, QueryRead, QueryAll, AppendCall, CheckContext,
         ContextChanged, SaveCall, SaveFails, streamVars, notifyVars, fileVars,
         history, process
<1>3. ~mixed'
  <2>1. UNCHANGED mixed \/ SaveFails(p)
    BY DEF CallStep, QueryCall, QueryRead, QueryAll, AppendCall, CheckContext,
           ContextChanged, SaveCall, fileVars
  <2>2. SaveFails(p) => (mixed' = (mixed /\ Writers # {p}))
    BY DEF SaveFails, EndOfWrite
  <2>3. QED
    BY <2>1, <2>2 DEF FileFollowsStream
<1>4. \A r \in Proc : At(r, "writing")' => At(r, "writing")
  <2>1. \A r \in Proc \ {p} : pc'[r] = pc[r]
    BY OthersStay DEF StoreInv
  <2>2. ~At(p, "writing")'
    BY OrderTypes DEF CallStep, QueryCall, QueryRead, QueryAll, AppendCall,
       CheckContext, ContextChanged, SaveCall, SaveFails, StartCall, Goto, At
  <2>3. QED
    BY <2>1, <2>2 DEF At
<1>5. QED
  BY <1>1, <1>2, <1>3, <1>4 DEF FileFollowsStream, Jobs, Job

LEMMA WritingKeepsFile ==
  ASSUME Saver = {}, WriteThru, StoreInv, OrderInv', FileFollowsStream, NEW p \in Proc,
         AppendToStream(p) \/ Serialize(p) \/ WriteSucceeds(p)
  PROVE  FileFollowsStream'
<1>1. up /\ pc \in [Proc -> Label]
  BY CallsAreUp, OrderTypes DEF CallStep
<1>2. CASE AppendToStream(p)
  <2>1. Elements(eventStream) \subseteq Elements(eventStream')
    BY <1>2, AppendedRecords
  <2>2. \A r \in Proc : ~At(r, "writing")
    BY <1>2, AppendersAreAlone DEF InProgress, At
  <2>3. \A r \in Proc : ~At(r, "writing")'
    BY <1>1, <1>2, <2>2 DEF AppendToStream, Goto, At
  <2>4. UNCHANGED <<notificationQueue, file, saving, mixed, acknowledged, up>>
    BY <1>2 DEF AppendToStream, notifyVars, fileVars, history, process
  <2>5. QED
    BY <1>1, <2>1, <2>3, <2>4 DEF FileFollowsStream, Jobs, Job
<1>3. CASE Serialize(p)
  <2>1. \A r \in Proc : ~At(r, "writing")
    BY <1>3, WriterIsAlone DEF Serialize, At
  <2>2. \A r \in Proc : At(r, "writing")' => r = p
    BY <1>1, <1>3, <2>1 DEF Serialize, Goto, At
  <2>3. /\ saving'[p].records = eventStream
        /\ file'.state = "torn" /\ ~mixed'
        /\ UNCHANGED <<eventStream, notificationQueue, acknowledged, up>>
    BY <1>3, <2>1 DEF Serialize, File, Writers, FileFollowsStream, StoreInv, BaseInv,
       TypeInv, StoreTypeOK, streamVars, notifyVars, history, process
  <2>4. QED
    BY <1>1, <2>2, <2>3 DEF FileFollowsStream
<1>4. CASE WriteSucceeds(p)
  <2>1. \A r \in Proc : ~At(r, "writing")'
    <3>1. \A r \in Proc \ {p} : ~At(r, "writing")
      BY <1>4, WriterIsAlone DEF WriteSucceeds, At
    <3>2. QED
      BY <1>1, <1>4, <3>1 DEF WriteSucceeds, Publish, Goto, At
  <2>2. /\ file'.text.records = eventStream /\ ~mixed'
        /\ UNCHANGED <<eventStream, acknowledged, up>>
    <3>1. saving[p].records = eventStream /\ ~mixed
      BY <1>4 DEF WriteSucceeds, FileFollowsStream
    <3>2. file' = File("intact", saving[p]) /\ ~mixed'
      BY <1>4, <3>1 DEF WriteSucceeds, EndOfWrite
    <3>3. UNCHANGED <<eventStream, acknowledged, up>>
      BY <1>4 DEF WriteSucceeds, streamVars, history, process
    <3>4. QED
      BY <3>1, <3>2, <3>3 DEF File
  <2>3. \A i \in Jobs' : Elements(Job(i)') \subseteq Elements(eventStream')
    BY DEF OrderInv, JobsAreFinished
  <2>4. QED
    BY <1>1, <2>1, <2>2, <2>3 DEF FileFollowsStream
<1>5. QED
  BY <1>2, <1>3, <1>4

LEMMA NotifyEndKeepsFile ==
  ASSUME Saver = {}, WriteThru, StoreInv, OrderInv, FileFollowsStream, NotifyEnd
  PROVE  FileFollowsStream'
<1>1. /\ notificationQueue # <<>> /\ 1 \in Jobs /\ Job(1) = Head(notificationQueue).events
  BY OrderTypes, EmptySeq DEF NotifyEnd, StoreInv, BaseInv, RunHasJob, Jobs, Job
<1>2. up
  BY <1>1 DEF FileFollowsStream
<1>3. /\ acknowledged' = acknowledged \cup Elements(Job(1))
      /\ notificationQueue' = Tail(notificationQueue)
      /\ UNCHANGED <<eventStream, file, saving, mixed, up>>
      /\ \A r \in Proc : pc'[r] \in {pc[r], "idle"}
  BY <1>1 DEF NotifyEnd, Goto, streamVars, fileVars, process
<1>4. \A i \in Jobs' : i + 1 \in Jobs /\ Job(i)' = Job(i+1)
  BY ChainMovesUp
<1>5. Elements(Job(1)) \subseteq Elements(eventStream)
  BY <1>1 DEF OrderInv, JobsAreFinished
<1>6. \A r \in Proc : At(r, "writing")' => At(r, "writing")
  BY <1>3 DEF At
<1>7. QED
  BY <1>1, <1>2, <1>3, <1>4, <1>5, <1>6 DEF FileFollowsStream

LEMMA RestartKeepsFile ==
  ASSUME Saver = {}, WriteThru, FileFollowsStream, CrashAndRestart
  PROVE  FileFollowsStream'
<1>1. /\ \A p \in Proc : At(p, "idle")'
      /\ notificationQueue' = <<>> /\ ~mixed'
      /\ up' = (file.state # "torn") /\ eventStream' = file.text.records
      /\ UNCHANGED <<file, acknowledged>>
  BY DEF CrashAndRestart, CreateFromFile, ByProc, At, history
<1>2. Jobs' = {}
  BY <1>1 DEF Jobs
<1>3. QED
  BY <1>1, <1>2 DEF FileFollowsStream, At

LEMMA StoreKeepsFile ==
  ASSUME StoreInv, OrderInv, OrderInv', FileInv, [Next]_vars
  PROVE  FileInv'
<1> SUFFICES ASSUME Saver = {}, WriteThru PROVE FileFollowsStream'
  BY DEF FileInv
<1>1. FileFollowsStream
  BY DEF FileInv
<1>2. ASSUME UNCHANGED <<eventStream, notificationQueue, pc, file, saving, mixed,
                         acknowledged, up>>
      PROVE  FileFollowsStream'
  BY <1>1, <1>2 DEF FileFollowsStream, Jobs, Job, At
<1>3. ASSUME NEW p \in Proc, CallStep(p) PROVE FileFollowsStream'
  BY <1>1, <1>3, OtherCallsKeepFile, WritingKeepsFile
<1>4. ASSUME NEW s \in Subscription, SubscriptionStep(s) PROVE FileFollowsStream'
  BY <1>2, <1>4 DEF SubscriptionStep, Subscribe, Unsubscribe, HandlerSettles,
     streamVars, callVars, notifyVars, fileVars, history, process
<1>5. CASE NotifyStart \/ Close \/ UNCHANGED vars
  BY <1>2, <1>5 DEF NotifyStart, Close, vars, streamVars, callVars, notifyVars,
     fileVars, history, process
<1>6. QED
  BY <1>1, <1>3, <1>4, <1>5, NotifyEndKeepsFile, RestartKeepsFile DEF Next

LEMMA FileIsFollowing == Spec => []FileInv
BY FileInvInit, StoreKeepsFile, StoreSafety, StoreIsInOrder, PTL DEF Spec

(* When append() alone writes the file, a complete file holds every event  *)
(* of an append() that has resolved, through failed writes and restarts.   *)
THEOREM AcknowledgedIsKept ==
  ASSUME Saver = {}
  PROVE  Spec => []AcknowledgedIsOnFile
<1>1. FileInv => AcknowledgedIsOnFile
  BY DEF FileInv, FileFollowsStream, AcknowledgedIsOnFile
<1>2. QED
  BY <1>1, FileIsFollowing, PTL

-----------------------------------------------------------------------------
(* What was shown.  Without file errors the file is torn only while a      *)
(* write is under way, and behind the stream only while the append() that  *)
(* will write it holds the lock, so that no query can read.                *)

Ahead(p) ==
  /\ At(p, "importing") /\ grant[p] = "write"
  /\ Elements(eventStream) \ Elements(file.text.records) \subseteq Elements(OwnRecords(p))

FileIsNext ==
  \/ Elements(eventStream) \subseteq Elements(file.text.records)
  \/ \E p \in Proc : Ahead(p)

ShownFollowsFile ==
  /\ up /\ file.state = "torn" => \E p \in Proc : At(p, "writing")
  /\ up => observed \subseteq Elements(eventStream)
  /\ file.state # "torn" => observed \subseteq Elements(file.text.records) /\ FileIsNext

ShownInv == Saver = {} /\ WriteThru /\ FileErrors = FALSE => ShownFollowsFile

LEMMA ShownInvInit == Init => ShownInv
BY DEF Init, ShownInv, ShownFollowsFile, FileIsNext, File, EmptyText, Elements

(* A call that moves leaves the writer, if it is another, where it is.     *)
LEMMA WriterStays ==
  ASSUME StoreInv, UNCHANGED <<eventStream, file>>,
         \/ \E p \in Proc : CallStep(p) /\ ~At(p, "importing") /\ ~At(p, "writing")
         \/ UNCHANGED <<lockVars, args>> /\ \A p \in Proc : pc'[p] = pc[p]
                                              \/ At(p, "notifying")
  PROVE  /\ \A r \in Proc : At(r, "writing") => At(r, "writing")'
         /\ FileIsNext => FileIsNext'
<1>1. ASSUME NEW r \in Proc, At(r, "writing") \/ At(r, "importing")
      PROVE  /\ pc'[r] = pc[r] /\ args'[r] = args[r]
             /\ grant[r] = "write" => grant'[r] = "write"
  <2>1. ASSUME NEW p \in Proc, CallStep(p), ~At(p, "importing"), ~At(p, "writing")
        PROVE  /\ pc'[r] = pc[r] /\ args'[r] = args[r]
               /\ grant[r] = "write" => grant'[r] = "write"
    <3>1. r \in Proc \ {p}
      BY <1>1, <2>1
    <3>2. /\ pc'[r] = pc[r] /\ args'[r] = args[r]
          /\ grant[r] # "none" => grant'[r] = grant[r]
      BY <2>1, <3>1, OthersStay DEF StoreInv
    <3>3. QED
      BY <3>2
  <2>2. CASE UNCHANGED <<lockVars, args>> /\ \A p \in Proc : pc'[p] = pc[p]
                                              \/ At(p, "notifying")
    BY <1>1, <2>2 DEF At, lockVars
  <2>3. QED
    BY <2>1, <2>2
<1>2. ASSUME NEW r \in Proc, Ahead(r) PROVE Ahead(r)'
  BY <1>1, <1>2 DEF Ahead, At, OwnRecords
<1>3. QED
  BY <1>1, <1>2 DEF FileIsNext, At

(* Where a query reads, the file holds the whole stream.                   *)
LEMMA ReadersSeeTheFile ==
  ASSUME Saver = {}, WriteThru, StoreInv, FileFollowsStream, ShownFollowsFile,
         NEW p \in Proc, QueryRead(p)
  PROVE  /\ file.state # "torn"
         /\ Elements(eventStream) \subseteq Elements(file.text.records)
         /\ \E query : observed' = observed \cup MatchingEvents(eventStream, query)
<1>1. up
  BY CallsAreUp DEF CallStep
<1>2. \A r \in Proc : grant[r] # "write"
  BY DEF QueryRead, ReleaseRead, StoreInv, BaseInv, LockInv, MutualExclusion
<1>3. \A r \in Proc : ~At(r, "writing") /\ ~At(r, "importing")
  BY <1>2, WriterIsAlone DEF At
<1>4. view'[p] = Answer(args[p].query)
  BY DEF QueryRead, StoreInv, BaseInv, TypeInv, StoreTypeOK
<1>5. view'[p].events = MatchingEvents(eventStream, args[p].query)
  BY <1>4 DEF Answer
<1>6. QED
  BY <1>1, <1>3, <1>5 DEF ShownFollowsFile, FileIsNext, Ahead, QueryRead

(* The records of an append() are what the file will be behind by.         *)
LEMMA AppendKeepsShown ==
  ASSUME Saver = {}, WriteThru, StoreInv, FileFollowsStream, ShownFollowsFile,
         NEW p \in Proc, AppendToStream(p)
  PROVE  ShownFollowsFile'
<1>1. /\ UNCHANGED <<file, up, observed, args, grant>>
      /\ grant[p] = "write" /\ pc' = [pc EXCEPT ![p] = "importing"]
      /\ pc \in [Proc -> Label]
  BY OrderTypes DEF AppendToStream, Goto, fileVars, process, history, lockVars
<1>2. \A r \in Proc : pc[r] \notin {"importing", "writing"}
  BY AppendersAreAlone DEF InProgress
<1>3. ~(up /\ file.state = "torn")
  BY <1>2 DEF ShownFollowsFile, At
<1>4. /\ Elements(eventStream) \subseteq Elements(eventStream')
      /\ Len(eventStream') = Len(eventStream) + Len(args[p].batch)
      /\ \A k \in 1..Len(eventStream) : eventStream'[k] = eventStream[k]
      /\ Len(eventStream) \in Nat /\ Len(args[p].batch) \in Nat
      /\ eventStream' = eventStream \o Numbered(args[p].batch, lastSequenceNumber)
      /\ Numbered(args[p].batch, lastSequenceNumber) \in Seq(EventRecord)
      /\ eventStream \in Seq(EventRecord)
  BY AppendedRecords, OrderTypes DEF StreamFacts, AppendToStream
<1>5. eventStream' \in Seq(EventRecord)
  BY <1>4, ConcatProperties
<1>6. Elements(eventStream') \ Elements(eventStream) \subseteq Elements(OwnRecords(p))'
  <2> DEFINE n == Len(eventStream)
             m == Len(eventStream')
             own == SubSeq(eventStream', n + 1, m)
  <2>1. OwnRecords(p)' = own
    <3>1. m - Len(args[p].batch) + 1 = n + 1
      BY <1>4
    <3>2. QED
      BY <1>1, <3>1 DEF OwnRecords
  <2>2. n \in Nat /\ m \in Nat /\ n <= m /\ \A k \in 1..m : eventStream'[k] \in EventRecord
    BY <1>4, <1>5, ElementOfSeq
  <2>3. Len(own) = m - n /\ \A k \in 1..m - n : own[k] = eventStream'[n + k]
    <3>1. \A k \in n + 1..m : eventStream'[k] \in EventRecord
      BY <2>2
    <3>2. (IF n + 1 <= m THEN m - (n + 1) + 1 ELSE 0) = m - n
      BY <2>2
    <3>3. \A k \in 1..m - n : n + 1 + k - 1 = n + k
      BY <2>2
    <3>4. n + 1 \in Int /\ m \in Int
      BY <2>2
    <3> HIDE DEF n, m
    <3>5. QED
      BY <3>1, <3>2, <3>3, <3>4, SubSeqProperties
  <2> HIDE DEF own
  <2>4. ASSUME NEW k \in 1..m PROVE eventStream'[k] \in Elements(eventStream) \cup Elements(own)
    <3>1. CASE k <= n
      BY <1>4, <3>1 DEF Elements
    <3>2. CASE ~(k <= n)
      <4>1. PICK l \in 1..m - n : k = n + l
        <5>1. k - n \in 1..m - n /\ k = n + (k - n)
          BY <2>2, <3>2
        <5>2. QED
          BY <5>1
      <4>2. eventStream'[k] = own[l]
        BY <2>3, <4>1
      <4>3. QED
        BY <2>3, <4>1, <4>2 DEF Elements
    <3>3. QED
      BY <3>1, <3>2
  <2>5. QED
    BY <2>1, <2>4 DEF Elements
<1>7. file.state # "torn" => Ahead(p)'
  <2>1. file.state # "torn" => Elements(eventStream) \subseteq Elements(file.text.records)
    BY <1>2 DEF ShownFollowsFile, FileIsNext, Ahead, At
  <2>2. QED
    BY <1>1, <1>6, <2>1 DEF Ahead, At
<1>8. QED
  BY <1>1, <1>3, <1>4, <1>7 DEF ShownFollowsFile, FileIsNext

LEMMA CallsKeepShown ==
  ASSUME Saver = {}, WriteThru, FileErrors = FALSE, StoreInv,
         FileFollowsStream, ShownFollowsFile, NEW p \in Proc, CallStep(p)
  PROVE  ShownFollowsFile'
<1>1. CASE AppendToStream(p)
  BY <1>1, AppendKeepsShown
<1>2. CASE Serialize(p)
  <2>1. /\ file'.state = "torn" /\ UNCHANGED <<eventStream, observed, up>>
        /\ At(p, "writing")'
    BY <1>2, OrderTypes DEF Serialize, File, Goto, At, streamVars, history, process
  <2>2. QED
    BY <2>1 DEF ShownFollowsFile
<1>3. CASE WriteSucceeds(p)
  <2>1. saving[p].records = eventStream /\ ~mixed /\ up
    BY <1>3, CallsAreUp DEF WriteSucceeds, FileFollowsStream, CallStep
  <2>2. file' = File("intact", saving[p])
    BY <1>3, <2>1 DEF WriteSucceeds
  <2>3. /\ UNCHANGED <<eventStream, observed, up>>
        /\ file'.state = "intact" /\ file'.text.records = eventStream
    BY <1>3, <2>1, <2>2 DEF WriteSucceeds, File, streamVars, history, process
  <2>4. QED
    BY <2>1, <2>3 DEF ShownFollowsFile, FileIsNext
<1>4. CASE QueryRead(p)
  <2>1. /\ UNCHANGED <<eventStream, file, up>>
        /\ ~At(p, "importing") /\ ~At(p, "writing")
    BY <1>4 DEF QueryRead, At, streamVars, fileVars, process
  <2>2. PICK query : observed' = observed \cup MatchingEvents(eventStream, query)
    BY <1>4, ReadersSeeTheFile
  <2>3. MatchingEvents(eventStream, query) \subseteq Elements(eventStream)
    BY DEF MatchingEvents, MatchingIndices, Elements
  <2>4. QED
    BY <1>4, <2>1, <2>2, <2>3, ReadersSeeTheFile DEF ShownFollowsFile, FileIsNext
<1>5. CASE QueryCall(p) \/ QueryAll(p) \/ AppendCall(p) \/ CheckContext(p) \/ ContextChanged(p)
  <2>1. UNCHANGED <<eventStream, file, up, observed>>
    BY <1>5 DEF QueryCall, QueryAll, AppendCall, CheckContext, ContextChanged,
       streamVars, fileVars, process, history
  <2>2. ~At(p, "importing") /\ ~At(p, "writing")
    BY <1>5 DEF QueryCall, QueryAll, AppendCall, CheckContext, ContextChanged,
       StartCall, At
  <2>3. /\ \A r \in Proc : At(r, "writing") => At(r, "writing")'
        /\ FileIsNext => FileIsNext'
    BY <2>1, <2>2, WriterStays
  <2>4. QED
    BY <2>1, <2>3 DEF ShownFollowsFile
<1>6. QED
  BY <1>1, <1>2, <1>3, <1>4, <1>5 DEF CallStep, SaveCall, SaveFails

LEMMA NotifierKeepsShown ==
  ASSUME Saver = {}, WriteThru, StoreInv, OrderInv, FileFollowsStream, ShownFollowsFile,
         \/ NotifyStart \/ NotifyEnd \/ Close \/ UNCHANGED vars
         \/ \E s \in Subscription : SubscriptionStep(s)
  PROVE  ShownFollowsFile'
<1>1. /\ UNCHANGED <<eventStream, file, up, lockVars, args>>
      /\ \A p \in Proc : pc'[p] = pc[p] \/ At(p, "notifying")
  <2>1. CASE NotifyEnd
    <3>1. 1 \in Jobs /\ notificationQueue[1] = Head(notificationQueue)
      BY <2>1, OrderTypes, EmptySeq DEF NotifyEnd, StoreInv, BaseInv, RunHasJob, Jobs
    <3>2. At(Head(notificationQueue).proc, "notifying")
      BY <3>1 DEF StoreInv, CallInv, ChainFollowsCalls, Jobs
    <3>3. QED
      BY <2>1, <3>2, OrderTypes DEF NotifyEnd, Goto, At, streamVars, fileVars, process
  <2>2. CASE ~NotifyEnd
    BY <2>2 DEF NotifyStart, Close, SubscriptionStep, Subscribe, Unsubscribe,
       HandlerSettles, vars, streamVars, callVars, fileVars, process
  <2>3. QED
    BY <2>1, <2>2
<1>2. /\ \A r \in Proc : At(r, "writing") => At(r, "writing")'
      /\ FileIsNext => FileIsNext'
  BY <1>1, WriterStays
<1>3. UNCHANGED observed \/ \E i \in Jobs : observed' \subseteq observed \cup Elements(Job(i))
  <2>1. CASE NotifyStart
    <3>1. 1 \in Jobs /\ Job(1) = Head(notificationQueue).events
      BY <2>1, OrderTypes, EmptySeq DEF NotifyStart, Jobs, Job
    <3>2. observed' \subseteq observed \cup Elements(Job(1))
      BY <2>1, <3>1 DEF NotifyStart
    <3>3. QED
      BY <3>1, <3>2
  <2>2. CASE ~NotifyStart
    BY <2>2 DEF NotifyEnd, Close, SubscriptionStep, Subscribe, Unsubscribe,
       HandlerSettles, vars, history
  <2>3. QED
    BY <2>1, <2>2
<1>4. \A i \in Jobs : Elements(Job(i)) \subseteq Elements(eventStream)
  BY DEF OrderInv, JobsAreFinished
<1>5. QED
  BY <1>1, <1>2, <1>3, <1>4 DEF ShownFollowsFile, FileFollowsStream

LEMMA StoreKeepsShown ==
  ASSUME StoreInv, OrderInv, FileInv, ShownInv, [Next]_vars
  PROVE  ShownInv'
<1> SUFFICES ASSUME Saver = {}, WriteThru, FileErrors = FALSE PROVE ShownFollowsFile'
  BY DEF ShownInv
<1>1. FileFollowsStream /\ ShownFollowsFile
  BY DEF FileInv, ShownInv
<1>2. CASE CrashAndRestart
  <2>1. /\ up' = (file.state # "torn") /\ eventStream' = file.text.records
        /\ UNCHANGED <<file, observed>>
    BY <1>2 DEF CrashAndRestart, CreateFromFile, history
  <2>2. QED
    BY <1>1, <2>1 DEF ShownFollowsFile, FileIsNext
<1>3. CASE ~CrashAndRestart
  BY <1>1, <1>3, CallsKeepShown, NotifierKeepsShown DEF Next
<1>4. QED
  BY <1>2, <1>3

LEMMA ShownIsFollowing == Spec => []ShownInv
BY ShownInvInit, StoreKeepsShown, StoreSafety, StoreIsInOrder, FileIsFollowing, PTL
   DEF Spec

(* Without write errors nothing is shown to a query or a handler that a    *)
(* crash could take back, except while a later write is under way.         *)
THEOREM ShownIsKept ==
  ASSUME Saver = {}, FileErrors = FALSE
  PROVE  Spec => []ObservedIsOnFile
<1>1. ShownInv => ObservedIsOnFile
  BY DEF ShownInv, ShownFollowsFile, ObservedIsOnFile
<1>2. QED
  BY <1>1, ShownIsFollowing, PTL

(* What queryAll() shows goes further than the file by the batch of the    *)
(* append() that holds the write lock, at most.                            *)
THEOREM AheadByOneBatch ==
  ASSUME Saver = {}, FileErrors = FALSE
  PROVE  Spec => []OnlyTheWriterIsAhead
<1>1. ShownInv => OnlyTheWriterIsAhead
  BY DEF ShownInv, ShownFollowsFile, FileIsNext, Ahead, OnlyTheWriterIsAhead
<1>2. QED
  BY <1>1, ShownIsFollowing, PTL
=============================================================================
