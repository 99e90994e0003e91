---------------------------- MODULE ReadWriteLock ----------------------------
(***************************************************************************)
(* The FIFO readers/writer lock that guards the event stream of the        *)
(* in-memory store (packages/core/src/eventstore/stores/memory/            *)
(* readwritelock.ts).                                                      *)
(*                                                                         *)
(* A process is one outstanding call: it asks for the lock, awaits the     *)
(* promise, and releases what it was granted.  JavaScript runs each method *)
(* of the class to its end without interruption, so every method is one    *)
(* action.  A promise is resolved, and the counts change, when the lock is *)
(* GRANTED; the code after the caller's await runs in a later step.        *)
(***************************************************************************)
EXTENDS Integers, Sequences, FiniteSets

CONSTANT Proc   \* the calls that may be using the lock at the same time

ASSUME ProcAssumption == IsFiniteSet(Proc)

VARIABLES
  readCount,    \* number of readers the lock has been granted to
  writeCount,   \* 1 while the lock is granted to a writer
  queue,        \* the waiting calls, in order of arrival
  grant         \* what the promise of each call has been resolved with

lockVars == <<readCount, writeCount, queue, grant>>

Mode   == {"read", "write"}
Waiter == [type : Mode, proc : Proc]

Waiting(p) == \E i \in 1..Len(queue) : queue[i].proc = p

Idle(p) == grant[p] = "none" /\ ~Waiting(p)

Holders(m) == {p \in Proc : grant[p] = m}

LockInit ==
  /\ readCount = 0
  /\ writeCount = 0
  /\ queue = <<>>
  /\ grant = [p \in Proc |-> "none"]

(* A new lock takes the place of the old one (not a step of the lock).     *)
NewLock ==
  /\ readCount' = 0
  /\ writeCount' = 0
  /\ queue' = <<>>
  /\ grant' = [p \in Proc |-> "none"]

-----------------------------------------------------------------------------
(* processQueue() serves the first n entries of the queue when rc readers  *)
(* and wc writers hold the lock: a writer at the head alone, if the lock   *)
(* is free; otherwise the readers before the first writer.                 *)
Serves(n, rc, wc) ==
  IF queue # <<>> /\ queue[1].type = "write"
  THEN n = IF rc = 0 /\ wc = 0 THEN 1 ELSE 0
  ELSE IF wc = 0
       THEN /\ \A i \in 1..n : queue[i].type = "read"
            /\ n < Len(queue) => queue[n+1].type = "write"
       ELSE n = 0

(* Mutant: the last served entry is not shifted off the queue.             *)
ProcessQueueShort(rc, wc, held) ==
  \E n \in 0..Len(queue) :
    /\ Serves(n, rc, wc)
    /\ queue' = SubSeq(queue, IF n = 0 THEN 1 ELSE n, Len(queue))
    /\ readCount' = IF n > 0 /\ queue[1].type = "read" THEN rc + n ELSE rc
    /\ writeCount' = IF n > 0 /\ queue[1].type = "write" THEN 1 ELSE wc
    /\ grant' = [p \in Proc |-> IF \E i \in 1..n : queue[i].proc = p
                               THEN queue[1].type ELSE held[p]]

(* processQueue(): shift the served entries off the queue and resolve      *)
(* their promises.  rc, wc and held are the lock's state after the release *)
(* that called it.                                                         *)
ProcessQueue(rc, wc, held) ==
  \E n \in 0..Len(queue) :
    /\ Serves(n, rc, wc)
    /\ queue' = SubSeq(queue, n + 1, Len(queue))
    /\ readCount' = IF n > 0 /\ queue[1].type = "read" THEN rc + n ELSE rc
    /\ writeCount' = IF n > 0 /\ queue[1].type = "write" THEN 1 ELSE wc
    /\ grant' = [p \in Proc |-> IF \E i \in 1..n : queue[i].proc = p
                               THEN queue[1].type ELSE held[p]]

Enqueue(p, m) ==
  /\ queue' = Append(queue, [type |-> m, proc |-> p])
  /\ UNCHANGED <<readCount, writeCount, grant>>

(* Mutant: a reader only looks at the writer count, not at the queue.      *)
AcquireReadOvertaking(p) ==
  /\ Idle(p)
  /\ IF writeCount = 0
     THEN /\ readCount' = readCount + 1
          /\ grant' = [grant EXCEPT ![p] = "read"]
          /\ UNCHANGED <<writeCount, queue>>
     ELSE Enqueue(p, "read")

AcquireRead(p) ==
  /\ Idle(p)
  /\ IF writeCount = 0 /\ queue = <<>>
     THEN /\ readCount' = readCount + 1
          /\ grant' = [grant EXCEPT ![p] = "read"]
          /\ UNCHANGED <<writeCount, queue>>
     ELSE Enqueue(p, "read")

(* Mutants: a writer ignores the readers; a writer ignores other writers   *)
(* and the count is incremented.                                           *)
AcquireWriteAmongReaders(p) ==
  /\ Idle(p)
  /\ IF writeCount = 0 /\ queue = <<>>
     THEN /\ writeCount' = 1
          /\ grant' = [grant EXCEPT ![p] = "write"]
          /\ UNCHANGED <<readCount, queue>>
     ELSE Enqueue(p, "write")

AcquireWriteCounting(p) ==
  /\ Idle(p)
  /\ IF readCount = 0 /\ queue = <<>>
     THEN /\ writeCount' = writeCount + 1
          /\ grant' = [grant EXCEPT ![p] = "write"]
          /\ UNCHANGED <<readCount, queue>>
     ELSE Enqueue(p, "write")

AcquireWrite(p) ==
  /\ Idle(p)
  /\ IF readCount = 0 /\ writeCount = 0 /\ queue = <<>>
     THEN /\ writeCount' = 1
          /\ grant' = [grant EXCEPT ![p] = "write"]
          /\ UNCHANGED <<readCount, queue>>
     ELSE Enqueue(p, "write")

Released(p) == [grant EXCEPT ![p] = "none"]

(* Mutants: the queue is served before the count is decremented; the queue *)
(* is not served at all.                                                   *)
ReleaseReadUncounted(p) ==
  /\ grant[p] = "read"
  /\ readCount > 0
  /\ IF readCount = 1
     THEN ProcessQueue(readCount, writeCount, Released(p))
     ELSE /\ readCount' = readCount - 1
          /\ grant' = Released(p)
          /\ UNCHANGED <<writeCount, queue>>

ReleaseReadSilently(p) ==
  /\ grant[p] = "read"
  /\ readCount > 0
  /\ readCount' = readCount - 1
  /\ grant' = Released(p)
  /\ UNCHANGED <<writeCount, queue>>

ReleaseRead(p) ==
  /\ grant[p] = "read"
  /\ readCount > 0
  /\ IF readCount = 1
     THEN ProcessQueue(0, writeCount, Released(p))
     ELSE /\ readCount' = readCount - 1
          /\ grant' = Released(p)
          /\ UNCHANGED <<writeCount, queue>>

(* Mutant: releaseWrite() does not call processQueue().                    *)
ReleaseWriteSilently(p) ==
  /\ grant[p] = "write"
  /\ writeCount = 1
  /\ writeCount' = 0
  /\ grant' = Released(p)
  /\ UNCHANGED <<readCount, queue>>

ReleaseWrite(p) ==
  /\ grant[p] = "write"
  /\ writeCount = 1
  /\ ProcessQueue(readCount, 0, Released(p))

(* The method throws and changes nothing: "No read locks to release", "No  *)
(* write lock to release".                                                 *)
ReleaseThrows(p) ==
  \/ grant[p] = "read" /\ readCount <= 0
  \/ grant[p] = "write" /\ writeCount # 1

LockStep(p) ==
  \/ AcquireRead(p)
  \/ AcquireWrite(p)
  \/ ReleaseRead(p)
  \/ ReleaseWrite(p)

LockNext == \E p \in Proc : LockStep(p)

(* Every caller in the repository releases what it was granted: in the     *)
(* finally block of query() and of append().                               *)
LockFairness == \A p \in Proc : WF_lockVars(ReleaseRead(p) \/ ReleaseWrite(p))

LockSpec == LockInit /\ [][LockNext]_lockVars /\ LockFairness

-----------------------------------------------------------------------------
LockTypeOK ==
  /\ readCount \in Nat
  /\ writeCount \in {0, 1}
  /\ queue \in Seq(Waiter)
  /\ grant \in [Proc -> Mode \cup {"none"}]

(* A writer excludes every other reader and writer (the purpose of the     *)
(* class: append() may not interleave with query() or another append()).   *)
MutualExclusion ==
  \A p, r \in Proc :
    grant[p] = "write" /\ p # r => grant[r] = "none"

(* The two counters agree with the calls that really hold the lock, so     *)
(* that a release by a holder never throws (lines 24 and 53).              *)
CountsMatchHolders ==
  /\ readCount = Cardinality(Holders("read"))
  /\ writeCount = Cardinality(Holders("write"))
  /\ \A p \in Proc : ~ReleaseThrows(p)

(* A call waits at most once, and never while it holds the lock.           *)
WaitersAreDistinct ==
  /\ \A i, j \in 1..Len(queue) : queue[i].proc = queue[j].proc => i = j
  /\ \A i \in 1..Len(queue) : grant[queue[i].proc] = "none"

(* No lost wake-up: while calls wait, somebody holds the lock whose        *)
(* release will serve the queue, and a reader waits at the head only for a *)
(* writer.                                                                 *)
NoLostWakeup ==
  queue # <<>> =>
    /\ readCount > 0 \/ writeCount = 1
    /\ Head(queue).type = "read" => writeCount = 1

(* FIFO (line 1, ReadWriteLockFIFO, and readwritelock.test.ts:11): no call *)
(* is granted the lock while one that asked before it goes on waiting.     *)
NoOvertaking ==
  [][\A p \in Proc :
       grant[p] = "none" /\ grant'[p] # "none" =>
         \A i \in 1..Len(queue) :
           \/ grant'[queue[i].proc] # "none"
           \/ \E j \in 1..i-1 : queue[j].proc = p]_lockVars

(* Every call that waits is granted the lock in the end: with FIFO service *)
(* neither readers nor writers starve.                                     *)
WaitersAreServed ==
  \A p \in Proc : Waiting(p) ~> grant[p] # "none"
=============================================================================
