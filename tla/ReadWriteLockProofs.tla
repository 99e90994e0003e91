------------------------- MODULE ReadWriteLockProofs -------------------------
(***************************************************************************)
(* The safety of the FIFO readers/writer lock, for every finite set of     *)
(* calls.  The properties the runs check are, taken together, inductive:   *)
(* mutual exclusion alone is not, because a grant tests the counters, and  *)
(* they say something about the holders only while they count them.        *)
(***************************************************************************)
EXTENDS ReadWriteLock, TLAPS, FiniteSetTheorems, SequenceTheorems

LockInv ==
  /\ LockTypeOK
  /\ MutualExclusion
  /\ CountsMatchHolders
  /\ WaitersAreDistinct
  /\ NoLostWakeup

(* What a counter says about the holders of the lock.                      *)
LEMMA CountFacts ==
  ASSUME LockTypeOK, MutualExclusion, CountsMatchHolders
  PROVE  /\ \A m \in Mode : IsFiniteSet(Holders(m))
         /\ readCount = 0 <=> \A p \in Proc : grant[p] # "read"
         /\ writeCount = 0 <=> \A p \in Proc : grant[p] # "write"
         /\ writeCount = 1 => readCount = 0
<1>1. \A m \in Mode : IsFiniteSet(Holders(m))
  <2>1. \A m \in Mode : Holders(m) \in SUBSET Proc
    BY DEF Holders
  <2>2. QED
    BY <2>1, ProcAssumption, FS_Subset, Zenon
<1>2. readCount = 0 <=> Holders("read") = {}
  BY <1>1, FS_EmptySet DEF CountsMatchHolders, Mode
<1>3. writeCount = 0 <=> Holders("write") = {}
  BY <1>1, FS_EmptySet DEF CountsMatchHolders, Mode
<1>4. readCount = 0 <=> \A p \in Proc : grant[p] # "read"
  BY <1>2 DEF Holders
<1>5. writeCount = 0 <=> \A p \in Proc : grant[p] # "write"
  BY <1>3 DEF Holders
<1>6. writeCount = 1 => readCount = 0
  <2>1. SUFFICES ASSUME writeCount = 1 PROVE \A p \in Proc : grant[p] # "read"
    BY <1>4
  <2>2. PICK w \in Proc : grant[w] = "write"
    BY <2>1, <1>5
  <2>3. QED
    BY <2>2 DEF MutualExclusion
<1>7. QED
  BY <1>1, <1>4, <1>5, <1>6

(* After a step that keeps the books, no release by a holder throws.      *)
LEMMA HoldersMayRelease ==
  ASSUME LockTypeOK', MutualExclusion',
         readCount' = Cardinality(Holders("read"))',
         writeCount' = Cardinality(Holders("write"))'
  PROVE  \A p \in Proc : ~ReleaseThrows(p)'
<1> SUFFICES ASSUME NEW p \in Proc PROVE ~ReleaseThrows(p)'
  OBVIOUS
<1>1. IsFiniteSet(Holders("read"))' /\ IsFiniteSet(Holders("write"))'
  BY ProcAssumption, FS_Subset DEF Holders
<1>2. ASSUME grant'[p] = "read" PROVE readCount' > 0
  <2>1. Holders("read")' # {}
    BY <1>2 DEF Holders
  <2>2. QED
    BY <2>1, <1>1, FS_EmptySet DEF LockTypeOK
<1>3. ASSUME grant'[p] = "write" PROVE writeCount' = 1
  <2>1. Holders("write")' # {}
    BY <1>3 DEF Holders
  <2>2. QED
    BY <2>1, <1>1, FS_EmptySet DEF LockTypeOK
<1>4. QED
  BY <1>2, <1>3 DEF ReleaseThrows, LockTypeOK

(* Once nobody holds the lock, processQueue() hands it to the head of the  *)
(* queue and keeps the books: the counters are those of the new holders.   *)
LEMMA QueueIsServed ==
  ASSUME LockTypeOK, WaitersAreDistinct,
         NEW held \in [Proc -> Mode \cup {"none"}],
         \A p \in Proc : held[p] = "none",
         ProcessQueue(0, 0, held)
  PROVE  LockInv'
<1>1. PICK n \in 0..Len(queue) :
        /\ Serves(n, 0, 0)
        /\ queue' = SubSeq(queue, n + 1, Len(queue))
        /\ readCount' = IF n > 0 /\ queue[1].type = "read" THEN 0 + n ELSE 0
        /\ writeCount' = IF n > 0 /\ queue[1].type = "write" THEN 1 ELSE 0
        /\ grant' = [p \in Proc |-> IF \E i \in 1..n : queue[i].proc = p
                                   THEN queue[1].type ELSE held[p]]
  BY DEF ProcessQueue
<1> DEFINE served == {queue[i].proc : i \in 1..n}
<1>2. /\ Len(queue) \in Nat /\ n \in Nat
      /\ queue # <<>> <=> Len(queue) > 0
      /\ \A i \in 1..Len(queue) : queue[i] \in Waiter
  BY EmptySeq, ElementOfSeq DEF LockTypeOK
<1>3. /\ queue' \in Seq(Waiter)
      /\ Len(queue') = Len(queue) - n
      /\ \A i \in 1..Len(queue) - n : queue'[i] = queue[n + i]
  <2>1. \A i \in n+1..Len(queue) : queue[i] \in Waiter
    BY <1>2
  <2>2. /\ SubSeq(queue, n+1, Len(queue)) \in Seq(Waiter)
        /\ Len(SubSeq(queue, n+1, Len(queue)))
             = IF n+1 <= Len(queue) THEN Len(queue) - (n+1) + 1 ELSE 0
        /\ \A i \in 1..Len(queue) - (n+1) + 1 :
             SubSeq(queue, n+1, Len(queue))[i] = queue[(n+1) + i - 1]
    BY <2>1, <1>2, SubSeqProperties, n+1 \in Int
  <2>3. QED
    BY <2>2, <1>1, <1>2
<1>4. /\ served \subseteq Proc
      /\ \A p \in Proc : grant'[p] = IF p \in served THEN queue[1].type ELSE "none"
  BY <1>1, <1>2 DEF Waiter
<1>5. LockTypeOK'
  BY <1>1, <1>2, <1>3, <1>4 DEF LockTypeOK, Waiter
<1>6. WaitersAreDistinct'
  <2>1. ASSUME NEW i \in 1..Len(queue'), NEW j \in 1..Len(queue'),
               queue'[i].proc = queue'[j].proc
        PROVE  i = j
    <3>1. /\ n+i \in 1..Len(queue) /\ queue'[i] = queue[n+i]
          /\ n+j \in 1..Len(queue) /\ queue'[j] = queue[n+j]
      BY <1>2, <1>3
    <3>2. n+i = n+j
      BY <3>1, <2>1 DEF WaitersAreDistinct
    <3>3. QED
      BY <3>2, <1>2, i \in Int, j \in Int
  <2>2. ASSUME NEW i \in 1..Len(queue')
        PROVE  grant'[queue'[i].proc] = "none"
    <3>1. queue'[i] = queue[n+i] /\ n+i \in 1..Len(queue) /\ queue[n+i].proc \in Proc
      BY <1>2, <1>3 DEF Waiter
    <3>2. queue[n+i].proc \notin served
      BY <3>1, <1>2 DEF WaitersAreDistinct
    <3>3. QED
      BY <3>1, <3>2, <1>4
  <2>3. QED
    BY <2>1, <2>2 DEF WaitersAreDistinct
<1>7. IsFiniteSet(served) /\ Cardinality(served) = n
  <2> DEFINE f == [i \in 1..n |-> queue[i].proc]
  <2>1. f \in Bijection(1..n, served)
    BY <1>2 DEF Bijection, Injection, Surjection, IsInjective, WaitersAreDistinct
  <2>2. ExistsBijection(1..n, served)
    BY <2>1 DEF ExistsBijection
  <2>3. IsFiniteSet(1..n) /\ Cardinality(1..n) = n
    BY <1>2, FS_Interval
  <2>4. QED
    BY <2>2, <2>3, FS_Bijection
<1>8. CASE n = 0
  <2>1. queue = <<>> /\ queue' = queue
    BY <1>1, <1>2, <1>3, <1>8, n+1 = 1 DEF Serves, Waiter, Mode
  <2>2. \A p \in Proc : grant'[p] = "none"
    BY <1>1, <1>8
  <2>3. Holders("read")' = {} /\ Holders("write")' = {}
    BY <2>2 DEF Holders
  <2>4. readCount' = 0 /\ writeCount' = 0
    BY <1>1, <1>8
  <2>5. MutualExclusion'
    BY <2>2 DEF MutualExclusion
  <2>6. CountsMatchHolders'
    BY <2>2, <2>3, <2>4, FS_EmptySet DEF CountsMatchHolders, ReleaseThrows
  <2>7. QED
    BY <2>1, <2>5, <2>6, <1>5, <1>6 DEF LockInv, NoLostWakeup
<1>9. CASE n > 0 /\ queue[1].type = "write"
  <2>1. n = 1
    BY <1>1, <1>2, <1>9 DEF Serves
  <2>2. served = {queue[1].proc} /\ queue[1].proc \in Proc
    BY <2>1, <1>2 DEF Waiter
  <2>3. MutualExclusion'
    BY <2>2, <1>4 DEF MutualExclusion
  <2>4. Holders("read")' = {} /\ Holders("write")' = served
    BY <2>2, <1>4, <1>9 DEF Holders
  <2>5. readCount' = 0 /\ writeCount' = 1
    BY <1>1, <1>9
  <2>6. readCount' = Cardinality(Holders("read"))' /\ writeCount' = Cardinality(Holders("write"))'
    BY <2>1, <2>4, <2>5, <1>7, FS_EmptySet
  <2>7. \A p \in Proc : ~ReleaseThrows(p)'
    BY <2>5, <1>4, <1>9 DEF ReleaseThrows
  <2>8. QED
    BY <2>3, <2>5, <2>6, <2>7, <1>5, <1>6 DEF LockInv, CountsMatchHolders, NoLostWakeup
<1>10. CASE n > 0 /\ queue[1].type # "write"
  <2>1. queue[1].type = "read"
    BY <1>2, <1>10 DEF Waiter, Mode
  <2>2. n < Len(queue) => queue[n+1].type = "write"
    BY <1>1, <1>10, <1>2 DEF Serves
  <2>3. MutualExclusion'
    BY <2>1, <1>4 DEF MutualExclusion
  <2>4. Holders("write")' = {} /\ Holders("read")' = served
    BY <2>1, <1>4 DEF Holders
  <2>5. readCount' = n /\ writeCount' = 0
    BY <2>1, <1>1, <1>10
  <2>6. readCount' = Cardinality(Holders("read"))' /\ writeCount' = Cardinality(Holders("write"))'
    BY <2>4, <2>5, <1>7, FS_EmptySet
  <2>7. \A p \in Proc : ~ReleaseThrows(p)'
    BY <2>1, <2>5, <1>4, <1>10 DEF ReleaseThrows
  <2>8. NoLostWakeup'
    <3>1. SUFFICES ASSUME queue' # <<>> PROVE Head(queue').type = "write"
      BY <2>5, <1>10 DEF NoLostWakeup
    <3>2. Len(queue') > 0
      BY <3>1, <1>3, EmptySeq
    <3>3. Head(queue') = queue[n+1] /\ n < Len(queue)
      BY <3>2, <1>2, <1>3
    <3>4. QED
      BY <3>3, <2>2
  <2>9. QED
    BY <2>3, <2>6, <2>7, <2>8, <1>5, <1>6 DEF LockInv, CountsMatchHolders
<1>11. QED
  BY <1>2, <1>8, <1>9, <1>10

(* A call that cannot be served joins the queue behind everybody else.     *)
LEMMA CallIsQueued ==
  ASSUME LockInv, NEW p \in Proc, NEW m \in Mode, Idle(p), Enqueue(p, m),
         queue = <<>> => readCount > 0 \/ writeCount = 1,
         queue = <<>> /\ m = "read" => writeCount = 1
  PROVE  LockInv'
<1> USE DEF LockInv
<1> DEFINE w == [type |-> m, proc |-> p]
<1>1. /\ queue' = Append(queue, w) /\ w \in Waiter
      /\ UNCHANGED <<readCount, writeCount, grant>>
  BY DEF Enqueue, Waiter
<1>2. /\ queue' \in Seq(Waiter) /\ queue' # <<>>
      /\ Len(queue) \in Nat /\ Len(queue') = Len(queue) + 1
      /\ \A i \in 1..Len(queue) : queue'[i] = queue[i]
      /\ queue'[Len(queue) + 1] = w
  BY <1>1, AppendProperties DEF LockTypeOK
<1>3. LockTypeOK'
  BY <1>1, <1>2 DEF LockTypeOK
<1>4. MutualExclusion' /\ CountsMatchHolders'
  BY <1>1 DEF MutualExclusion, CountsMatchHolders, Holders, ReleaseThrows
<1>5. WaitersAreDistinct'
  <2>1. /\ grant[p] = "none"
        /\ \A i \in 1..Len(queue) : queue[i].proc # p
    BY DEF Idle, Waiting
  <2>2. ASSUME NEW i \in 1..Len(queue'), NEW j \in 1..Len(queue'),
               queue'[i].proc = queue'[j].proc
        PROVE  i = j
    <3>1. CASE i \in 1..Len(queue) /\ j \in 1..Len(queue)
      BY <3>1, <2>2, <1>2 DEF WaitersAreDistinct
    <3>2. CASE i = Len(queue) + 1 \/ j = Len(queue) + 1
      BY <3>2, <2>1, <2>2, <1>2
    <3>3. QED
      BY <3>1, <3>2, <1>2
  <2>3. ASSUME NEW i \in 1..Len(queue') PROVE grant'[queue'[i].proc] = "none"
    <3>1. CASE i \in 1..Len(queue)
      BY <3>1, <1>1, <1>2 DEF WaitersAreDistinct
    <3>2. CASE i = Len(queue) + 1
      BY <3>2, <1>1, <1>2, <2>1
    <3>3. QED
      BY <3>1, <3>2, <1>2
  <2>4. QED
    BY <2>2, <2>3 DEF WaitersAreDistinct
<1>6. NoLostWakeup'
  <2>1. CASE queue = <<>>
    <3>1. Head(queue') = w
      BY <2>1, <1>1, <1>2
    <3>2. QED
      BY <3>1, <2>1, <1>1 DEF NoLostWakeup
  <2>2. CASE queue # <<>>
    <3>1. Head(queue') = Head(queue)
      BY <2>2, <1>2, EmptySeq DEF LockTypeOK
    <3>2. QED
      BY <3>1, <2>2, <1>1 DEF NoLostWakeup
  <2>3. QED
    BY <2>1, <2>2
<1>7. QED
  BY <1>3, <1>4, <1>5, <1>6

LEMMA AcquireReadKeepsInv ==
  ASSUME LockInv, NEW p \in Proc, AcquireRead(p)
  PROVE  LockInv'
<1> USE DEF LockInv
<1>1. CASE writeCount = 0 /\ queue = <<>>
  <2>1. /\ grant[p] = "none" /\ readCount' = readCount + 1
        /\ grant' = [grant EXCEPT ![p] = "read"]
        /\ UNCHANGED <<writeCount, queue>>
    BY <1>1 DEF AcquireRead, Idle
  <2>2. LockTypeOK'
    BY <2>1 DEF LockTypeOK, Mode
  <2>3. \A r \in Proc : grant[r] # "write"
    BY <1>1, CountFacts
  <2>4. MutualExclusion'
    BY <2>1, <2>3 DEF MutualExclusion, LockTypeOK
  <2>5. /\ Holders("read")' = Holders("read") \cup {p} /\ p \notin Holders("read")
        /\ Holders("write")' = Holders("write")
    BY <2>1 DEF Holders, LockTypeOK
  <2>6. readCount' = Cardinality(Holders("read"))'
    BY <2>1, <2>5, CountFacts, FS_AddElement DEF CountsMatchHolders, Mode
  <2>7. writeCount' = Cardinality(Holders("write"))'
    BY <2>1, <2>5 DEF CountsMatchHolders
  <2>8. CountsMatchHolders'
    BY <2>2, <2>4, <2>6, <2>7, HoldersMayRelease DEF CountsMatchHolders
  <2>9. QED
    BY <1>1, <2>1, <2>2, <2>4, <2>8, EmptySeq DEF WaitersAreDistinct, NoLostWakeup
<1>2. CASE ~(writeCount = 0 /\ queue = <<>>)
  BY <1>2, CallIsQueued DEF AcquireRead, LockTypeOK, Mode
<1>3. QED
  BY <1>1, <1>2

LEMMA AcquireWriteKeepsInv ==
  ASSUME LockInv, NEW p \in Proc, AcquireWrite(p)
  PROVE  LockInv'
<1> USE DEF LockInv
<1>1. CASE readCount = 0 /\ writeCount = 0 /\ queue = <<>>
  <2>1. /\ writeCount' = 1 /\ grant' = [grant EXCEPT ![p] = "write"]
        /\ UNCHANGED <<readCount, queue>>
    BY <1>1 DEF AcquireWrite
  <2>2. \A r \in Proc : grant[r] = "none"
    BY <1>1, CountFacts DEF LockTypeOK, Mode
  <2>3. LockTypeOK'
    BY <2>1 DEF LockTypeOK, Mode
  <2>4. MutualExclusion'
    BY <2>1, <2>2 DEF MutualExclusion, LockTypeOK
  <2>5. Holders("read")' = {} /\ Holders("write")' = {p}
    BY <2>1, <2>2 DEF Holders, LockTypeOK
  <2>6. /\ readCount' = Cardinality(Holders("read"))'
        /\ writeCount' = Cardinality(Holders("write"))'
    BY <1>1, <2>1, <2>5, FS_EmptySet, FS_Singleton
  <2>7. CountsMatchHolders'
    BY <2>3, <2>4, <2>6, HoldersMayRelease DEF CountsMatchHolders
  <2>8. QED
    BY <1>1, <2>1, <2>3, <2>4, <2>7, EmptySeq DEF WaitersAreDistinct, NoLostWakeup
<1>2. CASE ~(readCount = 0 /\ writeCount = 0 /\ queue = <<>>)
  BY <1>2, CallIsQueued DEF AcquireWrite, LockTypeOK, Mode
<1>3. QED
  BY <1>1, <1>2

LEMMA ReleaseReadKeepsInv ==
  ASSUME LockInv, NEW p \in Proc, ReleaseRead(p)
  PROVE  LockInv'
<1> USE DEF LockInv
<1>1. grant[p] = "read" /\ readCount > 0 /\ p \in Holders("read")
  BY DEF ReleaseRead, Holders
<1>2. \A r \in Proc : grant[r] # "write"
  BY <1>1, CountFacts DEF MutualExclusion, LockTypeOK
<1>3. writeCount = 0
  BY <1>2, CountFacts
<1>4. /\ Released(p) \in [Proc -> Mode \cup {"none"}]
      /\ \A r \in Proc : Released(p)[r] = IF r = p THEN "none" ELSE grant[r]
  BY DEF Released, LockTypeOK
<1>5. IsFiniteSet(Holders("read")) /\ readCount = Cardinality(Holders("read"))
  BY CountFacts DEF CountsMatchHolders, Mode
<1>6. CASE readCount = 1
  <2>1. Holders("read") \ {p} = {}
    <3> DEFINE rest == Holders("read") \ {p}
    <3>1. IsFiniteSet(rest) /\ Cardinality(rest) = Cardinality(Holders("read")) - 1
      BY <1>1, <1>5, FS_RemoveElement
    <3>2. Cardinality(rest) = 0
      BY <3>1, <1>5, <1>6
    <3>3. QED
      BY <3>1, <3>2, FS_EmptySet
  <2>2. \A r \in Proc : Released(p)[r] = "none"
    BY <2>1, <1>2, <1>4 DEF Holders, LockTypeOK, Mode
  <2>3. ProcessQueue(0, 0, Released(p))
    BY <1>3, <1>6 DEF ReleaseRead
  <2>4. QED
    BY <2>2, <2>3, <1>4, QueueIsServed
<1>7. CASE readCount # 1
  <2>1. /\ readCount' = readCount - 1 /\ grant' = Released(p)
        /\ UNCHANGED <<writeCount, queue>>
    BY <1>7 DEF ReleaseRead
  <2>2. LockTypeOK'
    BY <2>1, <1>1, <1>4 DEF LockTypeOK
  <2>3. MutualExclusion'
    BY <2>1, <1>2, <1>4 DEF MutualExclusion
  <2>4. Holders("read")' = Holders("read") \ {p} /\ Holders("write")' = Holders("write")
    BY <2>1, <1>1, <1>4 DEF Holders
  <2>5. /\ readCount' = Cardinality(Holders("read"))'
        /\ writeCount' = Cardinality(Holders("write"))'
    BY <2>1, <2>4, <1>1, <1>5, FS_RemoveElement DEF CountsMatchHolders
  <2>6. CountsMatchHolders'
    BY <2>2, <2>3, <2>5, HoldersMayRelease DEF CountsMatchHolders
  <2>7. WaitersAreDistinct'
    <3>1. \A i \in 1..Len(queue) : queue[i] \in Waiter
      BY ElementOfSeq DEF LockTypeOK
    <3>2. QED
      BY <3>1, <2>1, <1>4 DEF WaitersAreDistinct, Waiter
  <2>8. NoLostWakeup'
    BY <2>1, <1>1, <1>7 DEF NoLostWakeup, LockTypeOK
  <2>9. QED
    BY <2>2, <2>3, <2>6, <2>7, <2>8
<1>8. QED
  BY <1>6, <1>7

LEMMA ReleaseWriteKeepsInv ==
  ASSUME LockInv, NEW p \in Proc, ReleaseWrite(p)
  PROVE  LockInv'
<1> USE DEF LockInv
<1>1. grant[p] = "write" /\ writeCount = 1 /\ readCount = 0
  BY CountFacts DEF ReleaseWrite
<1>2. /\ Released(p) \in [Proc -> Mode \cup {"none"}]
      /\ \A r \in Proc : Released(p)[r] = "none"
  BY <1>1 DEF Released, LockTypeOK, MutualExclusion
<1>3. ProcessQueue(0, 0, Released(p))
  BY <1>1 DEF ReleaseWrite
<1>4. QED
  BY <1>2, <1>3, QueueIsServed

(* The invariant holds of a new lock and every step of the lock keeps it.  *)
LEMMA LockInvInit == ASSUME LockInit PROVE LockInv
<1>1. LockTypeOK /\ WaitersAreDistinct /\ NoLostWakeup /\ MutualExclusion
  BY EmptySeq DEF LockInit, LockTypeOK, WaitersAreDistinct, NoLostWakeup,
                  MutualExclusion
<1>2. Holders("read") = {} /\ Holders("write") = {}
  BY DEF LockInit, Holders
<1>3. CountsMatchHolders
  BY <1>2, FS_EmptySet DEF LockInit, CountsMatchHolders, ReleaseThrows
<1>4. QED
  BY <1>1, <1>3 DEF LockInv

LEMMA LockInvStep ==
  ASSUME LockInv, [LockNext]_lockVars
  PROVE  LockInv'
<1>1. ASSUME NEW p \in Proc, LockStep(p) PROVE LockInv'
  BY <1>1, AcquireReadKeepsInv, AcquireWriteKeepsInv, ReleaseReadKeepsInv,
     ReleaseWriteKeepsInv DEF LockStep
<1>2. CASE UNCHANGED lockVars
  BY <1>2 DEF lockVars, LockInv, LockTypeOK, MutualExclusion, CountsMatchHolders,
              WaitersAreDistinct, NoLostWakeup, Holders, ReleaseThrows
<1>3. QED
  BY <1>1, <1>2 DEF LockNext

-----------------------------------------------------------------------------
(* What the methods of the lock do to the other calls, for the proofs of   *)
(* the store that uses the lock.                                           *)

(* processQueue() either grants a waiting call the lock or lets it wait,   *)
(* and touches no other call.                                              *)
LEMMA ServingOthers ==
  ASSUME LockTypeOK, NEW rc, NEW wc, NEW held \in [Proc -> Mode \cup {"none"}],
         ProcessQueue(rc, wc, held), NEW r \in Proc
  PROVE  /\ Waiting(r) => Waiting(r)' \/ grant'[r] # "none"
         /\ Waiting(r)' => Waiting(r)
         /\ ~Waiting(r) => grant'[r] = held[r]
<1>1. PICK n \in 0..Len(queue) :
        /\ queue' = SubSeq(queue, n + 1, Len(queue))
        /\ grant' = [p \in Proc |-> IF \E i \in 1..n : queue[i].proc = p
                                   THEN queue[1].type ELSE held[p]]
  BY DEF ProcessQueue
<1>2. /\ Len(queue) \in Nat /\ n \in Nat
      /\ \A i \in 1..Len(queue) : queue[i] \in Waiter
  BY EmptySeq, ElementOfSeq DEF LockTypeOK
<1>3. /\ Len(queue') = Len(queue) - n
      /\ \A i \in 1..Len(queue) - n : queue'[i] = queue[n + i]
  <2>1. \A i \in n+1..Len(queue) : queue[i] \in Waiter
    BY <1>2
  <2>2. /\ Len(SubSeq(queue, n+1, Len(queue)))
             = IF n+1 <= Len(queue) THEN Len(queue) - (n+1) + 1 ELSE 0
        /\ \A i \in 1..Len(queue) - (n+1) + 1 :
             SubSeq(queue, n+1, Len(queue))[i] = queue[(n+1) + i - 1]
    BY <2>1, <1>2, SubSeqProperties, n+1 \in Int
  <2>3. QED
    BY <2>2, <1>1, <1>2
<1>4. ASSUME NEW i \in 1..Len(queue), queue[i].proc = r
      PROVE  Waiting(r)' \/ grant'[r] # "none"
  <2>1. CASE i <= n
    <3>1. queue[1].type # "none"
      BY <2>1, <1>2 DEF Waiter, Mode
    <3>2. QED
      BY <3>1, <2>1, <1>1, <1>4
  <2>2. CASE ~(i <= n)
    <3>1. i - n \in 1..Len(queue') /\ queue'[i - n] = queue[i]
      BY <2>2, <1>2, <1>3
    <3>2. QED
      BY <3>1, <1>4 DEF Waiting
  <2>3. QED
    BY <2>1, <2>2
<1>5. ASSUME NEW i \in 1..Len(queue'), queue'[i].proc = r PROVE Waiting(r)
  <2>1. n + i \in 1..Len(queue) /\ queue[n + i].proc = r
    BY <1>2, <1>3, <1>5
  <2>2. QED
    BY <2>1 DEF Waiting
<1>6. ASSUME ~Waiting(r) PROVE grant'[r] = held[r]
  BY <1>1, <1>2, <1>6 DEF Waiting
<1>7. QED
  BY <1>4, <1>5, <1>6 DEF Waiting

LEMMA HoldersDoNotWait ==
  ASSUME LockInv, NEW r \in Proc, grant[r] # "none"
  PROVE  ~Waiting(r)
BY DEF LockInv, WaitersAreDistinct, Waiting

(* After a release the call has nothing to do with the lock any more.      *)
LEMMA ReleaseMakesIdle ==
  ASSUME LockInv, NEW p \in Proc, ReleaseRead(p) \/ ReleaseWrite(p)
  PROVE  Idle(p)'
<1>1. grant[p] # "none" /\ ~Waiting(p)
  BY HoldersDoNotWait DEF ReleaseRead, ReleaseWrite
<1>2. /\ LockTypeOK
      /\ Released(p) \in [Proc -> Mode \cup {"none"}]
      /\ Released(p)[p] = "none"
  BY DEF Released, LockInv, LockTypeOK
<1>3. CASE UNCHANGED queue /\ grant' = Released(p)
  BY <1>1, <1>2, <1>3 DEF Idle, Waiting
<1>4. CASE ProcessQueue(0, writeCount, Released(p))
  BY <1>1, <1>2, <1>4, ServingOthers DEF Idle
<1>5. CASE ProcessQueue(readCount, 0, Released(p))
  BY <1>1, <1>2, <1>5, ServingOthers DEF Idle
<1>6. QED
  BY <1>3, <1>4, <1>5 DEF ReleaseRead, ReleaseWrite

(* A call's use of the lock takes it from nobody and draws nobody in.      *)
LEMMA OthersKeepTheLock ==
  ASSUME LockInv, NEW p \in Proc, LockStep(p), NEW r \in Proc \ {p}
  PROVE  /\ Idle(r)' <=> Idle(r)
         /\ grant[r] # "none" => grant'[r] = grant[r]
<1>1. /\ LockTypeOK
      /\ Released(p) \in [Proc -> Mode \cup {"none"}]
      /\ Released(p)[r] = grant[r]
  BY DEF Released, LockInv, LockTypeOK
<1>2. CASE UNCHANGED queue /\ \E m \in Mode \cup {"none"} : grant' = [grant EXCEPT ![p] = m]
  BY <1>1, <1>2 DEF LockTypeOK, Idle, Waiting
<1>3. ASSUME NEW m \in Mode, Enqueue(p, m)
      PROVE  /\ Idle(r)' <=> Idle(r)
             /\ grant[r] # "none" => grant'[r] = grant[r]
  <2>1. /\ queue' = Append(queue, [type |-> m, proc |-> p])
        /\ [type |-> m, proc |-> p] \in Waiter /\ UNCHANGED grant
    BY <1>3 DEF Enqueue, Waiter
  <2>2. /\ Len(queue) \in Nat /\ Len(queue') = Len(queue) + 1
        /\ \A i \in 1..Len(queue) : queue'[i] = queue[i]
        /\ queue'[Len(queue) + 1].proc = p
    BY <2>1, <1>1, AppendProperties DEF LockTypeOK
  <2>3. Waiting(r)' <=> Waiting(r)
    <3>1. ASSUME NEW i \in 1..Len(queue'), queue'[i].proc = r
          PROVE  i \in 1..Len(queue) /\ queue[i].proc = r
      BY <3>1, <2>2
    <3>2. ASSUME NEW i \in 1..Len(queue), queue[i].proc = r
          PROVE  i \in 1..Len(queue') /\ queue'[i].proc = r
      BY <3>2, <2>2
    <3>3. QED
      BY <3>1, <3>2 DEF Waiting
  <2>4. QED
    BY <2>1, <2>3 DEF Idle
<1>4. ASSUME NEW rc, NEW wc, ProcessQueue(rc, wc, Released(p))
      PROVE  /\ Idle(r)' <=> Idle(r)
             /\ grant[r] # "none" => grant'[r] = grant[r]
  <2>1. /\ Waiting(r) => Waiting(r)' \/ grant'[r] # "none"
        /\ Waiting(r)' => Waiting(r)
        /\ ~Waiting(r) => grant'[r] = grant[r]
    BY <1>1, <1>4, ServingOthers
  <2>2. grant[r] # "none" => ~Waiting(r)
    BY HoldersDoNotWait
  <2>3. QED
    BY <2>1, <2>2 DEF Idle
<1>5. CASE AcquireRead(p)
  BY <1>2, <1>3, <1>5 DEF AcquireRead, Mode
<1>6. CASE AcquireWrite(p)
  BY <1>2, <1>3, <1>6 DEF AcquireWrite, Mode
<1>7. CASE ReleaseRead(p)
  BY <1>2, <1>4, <1>7 DEF ReleaseRead, Released
<1>8. CASE ReleaseWrite(p)
  BY <1>4, <1>8 DEF ReleaseWrite
<1>9. QED
  BY <1>5, <1>6, <1>7, <1>8 DEF LockStep

-----------------------------------------------------------------------------
(* The counters, the queue and the promises of the lock agree in every     *)
(* reachable state.                                                        *)
THEOREM LockSafety == LockSpec => []LockInv
<1>1. QED
  BY LockInvInit, LockInvStep, PTL DEF LockSpec

(* The variables of the lock have their types; there is at most one writer *)
(* (the counters of class ReadWriteLockFIFO).                              *)
THEOREM LockTypeCorrect == LockSpec => []LockTypeOK
<1>1. LockInv => LockTypeOK
  BY DEF LockInv
<1>2. QED
  BY <1>1, LockSafety, PTL

(* A call that has been granted the write lock holds the lock alone.       *)
THEOREM WritersExclude == LockSpec => []MutualExclusion
<1>1. LockInv => MutualExclusion
  BY DEF LockInv
<1>2. QED
  BY <1>1, LockSafety, PTL

(* The counters are those of the calls that hold the lock, and the release *)
(* of one of them never throws (releaseRead(), releaseWrite()).            *)
THEOREM ReleasesNeverThrow == LockSpec => []CountsMatchHolders
<1>1. LockInv => CountsMatchHolders
  BY DEF LockInv
<1>2. QED
  BY <1>1, LockSafety, PTL

(* Nobody waits twice or with the lock in hand.  Otherwise processQueue()  *)
(* would count one holder more than there is, and the lock would never be  *)
(* free again.                                                             *)
THEOREM NobodyWaitsTwice == LockSpec => []WaitersAreDistinct
<1>1. LockInv => WaitersAreDistinct
  BY DEF LockInv
<1>2. QED
  BY <1>1, LockSafety, PTL

(* While a call waits, the lock is held by somebody who will serve it.     *)
THEOREM WakeupsAreNotLost == LockSpec => []NoLostWakeup
<1>1. LockInv => NoLostWakeup
  BY DEF LockInv
<1>2. QED
  BY <1>1, LockSafety, PTL

-----------------------------------------------------------------------------
(* processQueue() grants the lock to a prefix of the queue: of two waiting *)
(* calls the later one is granted it only together with the earlier one.   *)
LEMMA PrefixIsServed ==
  ASSUME LockTypeOK, NEW rc, NEW wc, NEW held,
         \A p \in Proc : grant[p] = "none" => held[p] = "none",
         ProcessQueue(rc, wc, held),
         NEW p \in Proc, grant[p] = "none", grant'[p] # "none",
         NEW i \in 1..Len(queue)
  PROVE  \/ grant'[queue[i].proc] # "none"
         \/ \E j \in 1..i-1 : queue[j].proc = p
<1>1. PICK n \in 0..Len(queue) :
        grant' = [r \in Proc |-> IF \E k \in 1..n : queue[k].proc = r
                                 THEN queue[1].type ELSE held[r]]
  BY DEF ProcessQueue
<1>2. PICK k \in 1..n : queue[k].proc = p
  BY <1>1
<1>3. /\ \A j \in 1..Len(queue) : queue[j] \in Waiter
      /\ Len(queue) \in Nat /\ 1 \in 1..Len(queue)
  BY ElementOfSeq DEF LockTypeOK
<1>4. queue[i].proc \in Proc /\ queue[1].type # "none"
  BY <1>3 DEF Waiter, Mode
<1>5. CASE i <= n
  BY <1>1, <1>4, <1>5
<1>6. CASE ~(i <= n)
  <2>1. k \in 1..i-1
    BY <1>3, <1>6
  <2>2. QED
    BY <2>1, <1>2
<1>7. QED
  BY <1>5, <1>6

(* FIFO: no call is granted the lock while one that asked before it waits. *)
THEOREM LockIsFair == LockSpec => NoOvertaking
<1> DEFINE Fair ==
      \A p \in Proc :
        grant[p] = "none" /\ grant'[p] # "none" =>
          \A i \in 1..Len(queue) :
            \/ grant'[queue[i].proc] # "none"
            \/ \E j \in 1..i-1 : queue[j].proc = p
<1>1. ASSUME LockInv, LockNext PROVE Fair
  <2> SUFFICES ASSUME NEW p \in Proc, grant[p] = "none", grant'[p] # "none",
                      NEW i \in 1..Len(queue)
               PROVE  \/ grant'[queue[i].proc] # "none"
                      \/ \E j \in 1..i-1 : queue[j].proc = p
    OBVIOUS
  <2>1. PICK q \in Proc : LockStep(q)
    BY <1>1 DEF LockNext
  <2>2. LockTypeOK /\ queue # <<>>
    BY <1>1, EmptySeq DEF LockInv, LockTypeOK
  <2>3. \A r \in Proc : grant[r] = "none" => Released(q)[r] = "none"
    BY <2>2 DEF Released, LockTypeOK
  <2>4. ~AcquireRead(q) /\ ~AcquireWrite(q)
    BY <2>2 DEF AcquireRead, AcquireWrite, Enqueue
  <2>5. CASE ReleaseRead(q)
    <3>1. CASE readCount = 1
      BY <3>1, <2>2, <2>3, <2>5, PrefixIsServed DEF ReleaseRead
    <3>2. CASE readCount # 1
      BY <3>2, <2>3, <2>5 DEF ReleaseRead
    <3>3. QED
      BY <3>1, <3>2
  <2>6. CASE ReleaseWrite(q)
    BY <2>2, <2>3, <2>6, PrefixIsServed DEF ReleaseWrite
  <2>7. QED
    BY <2>1, <2>4, <2>5, <2>6 DEF LockStep
<1>2. LockInv /\ [LockNext]_lockVars => [Fair]_lockVars
  BY <1>1
<1>3. QED
  BY <1>2, LockSafety, PTL DEF LockSpec, NoOvertaking
=============================================================================
