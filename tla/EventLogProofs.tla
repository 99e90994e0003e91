---------------------------- MODULE EventLogProofs ----------------------------
(***************************************************************************)
(* Lemmas about logs and queries: what the maximum of a query says about   *)
(* the events that match it, and what an append leaves alone.              *)
(***************************************************************************)
EXTENDS EventLog, TLAPS, SequenceTheorems, NaturalsInduction, WellFoundedInduction

(* A non-empty set of positions has a last one.                            *)
LEMMA LastPosition ==
  ASSUME NEW n \in Nat, NEW hits \in SUBSET (1..n), hits # {}
  PROVE  \E i \in hits : \A j \in hits : j <= i
<1> DEFINE less == OpToRel(<, Nat)
           mirror == {n - i : i \in hits}
<1>1. \A x, y \in Nat : <<y, x>> \in less <=> y < x
  BY DEF OpToRel
<1>2. \A i \in hits : n - i \in Nat
  OBVIOUS
<1>3. mirror \subseteq Nat /\ mirror # {}
  BY <1>2
<1>4. IsWellFoundedOn(less, Nat)
  BY NatLessThanWellFounded
<1> HIDE DEF less, mirror
<1>5. \E x \in mirror : \A y \in mirror : ~ (<<y, x>> \in less)
  BY <1>3, <1>4, WFMin
<1>6. PICK x \in mirror : \A y \in mirror : ~ (y < x)
  BY <1>1, <1>3, <1>5
<1>7. PICK i \in hits : x = n - i
  BY DEF mirror
<1>8. ASSUME NEW j \in hits PROVE j <= i
  <2>1. n - j \in mirror
    BY DEF mirror
  <2>2. ~ (n - j < n - i)
    BY <2>1, <1>6, <1>7
  <2>3. QED
    BY <2>2
<1>9. QED
  BY <1>8

(* The maximum of a query is the number of the last matching record.       *)
LEMMA MaximumIsLastMatch ==
  ASSUME NEW log \in Seq(EventRecord), NEW query
  PROVE  \/ /\ MatchingEvents(log, query) = {}
            /\ MaxSequenceNumber(log, query) = 0
         \/ \E i \in MatchingIndices(log, query) :
              /\ \A j \in MatchingIndices(log, query) : j <= i
              /\ MaxSequenceNumber(log, query) = log[i].sequenceNumber
<1> DEFINE hits == MatchingIndices(log, query)
<1>1. Len(log) \in Nat /\ hits \subseteq 1..Len(log)
  BY LenProperties DEF MatchingIndices
<1>2. CASE hits = {}
  BY <1>2 DEF MatchingEvents, MaxSequenceNumber
<1>3. CASE hits # {}
  <2>1. \E i \in hits : \A j \in hits : j <= i
    BY <1>1, <1>3, LastPosition
  <2> DEFINE last == CHOOSE i \in hits : \A j \in hits : j <= i
  <2>2. last \in hits /\ \A j \in hits : j <= last
    BY <2>1
  <2>3. MaxSequenceNumber(log, query) = log[last].sequenceNumber
    BY <1>3 DEF MaxSequenceNumber
  <2> HIDE DEF last
  <2>4. QED
    BY <2>2, <2>3
<1>4. QED
  BY <1>2, <1>3

LEMMA MaximumIsNatural ==
  ASSUME NEW log \in Seq(EventRecord), NEW query
  PROVE  MaxSequenceNumber(log, query) \in Nat
<1>1. \A i \in MatchingIndices(log, query) : log[i] \in EventRecord
  BY ElementOfSeq DEF MatchingIndices
<1>2. \A i \in MatchingIndices(log, query) : log[i].sequenceNumber \in Nat
  BY <1>1 DEF EventRecord
<1>3. QED
  BY <1>2, MaximumIsLastMatch

(* In a log numbered 1, 2, 3, ... the maximum bounds every match, is the   *)
(* number of one of them if there are any, and is a position of the log.   *)
THEOREM MaximumBoundsMatches ==
  ASSUME NEW log \in Seq(EventRecord), IsDense(log), NEW query
  PROVE  /\ MaxSequenceNumber(log, query) \in 0..Len(log)
         /\ \A e \in MatchingEvents(log, query) :
              /\ e.sequenceNumber \in 1..Len(log)
              /\ e.sequenceNumber <= MaxSequenceNumber(log, query)
<1>1. Len(log) \in Nat /\ \A i \in MatchingIndices(log, query) :
        i \in 1..Len(log) /\ log[i].sequenceNumber = i
  BY LenProperties DEF MatchingIndices, IsDense
<1>2. \A e \in MatchingEvents(log, query) :
        \E i \in MatchingIndices(log, query) : e.sequenceNumber = i
  BY <1>1 DEF MatchingEvents
<1>3. CASE MatchingEvents(log, query) = {} /\ MaxSequenceNumber(log, query) = 0
  BY <1>1, <1>3
<1>4. CASE \E i \in MatchingIndices(log, query) :
             /\ \A j \in MatchingIndices(log, query) : j <= i
             /\ MaxSequenceNumber(log, query) = log[i].sequenceNumber
  BY <1>1, <1>2, <1>4
<1>5. QED
  BY <1>3, <1>4, MaximumIsLastMatch

(* An append continues the numbering and changes nothing a query has seen: *)
(* the records up to the old end that match are the ones that matched.     *)
LEMMA AppendKeepsMatches ==
  ASSUME NEW log \in Seq(EventRecord), IsDense(log), NEW query,
         NEW batch \in Seq(EventType)
  PROVE  LET longer == log \o Numbered(batch, Len(log))
         IN  /\ longer \in Seq(EventRecord)
             /\ IsDense(longer)
             /\ Len(longer) = Len(log) + Len(batch)
             /\ MatchingEvents(log, query) \subseteq MatchingEvents(longer, query)
             /\ \A e \in MatchingEvents(longer, query) :
                  e.sequenceNumber <= Len(log) => e \in MatchingEvents(log, query)
<1> DEFINE new == Numbered(batch, Len(log))
           longer == log \o new
<1>1. Len(log) \in Nat /\ Len(batch) \in Nat
      /\ \A i \in 1..Len(batch) : batch[i] \in EventType
  BY LenProperties, ElementOfSeq
<1>2. /\ new \in Seq(EventRecord) /\ Len(new) = Len(batch)
      /\ \A i \in 1..Len(batch) : new[i].sequenceNumber = Len(log) + i
  <2>1. \A i \in 1..Len(batch) :
          [sequenceNumber |-> Len(log) + i, eventType |-> batch[i]] \in EventRecord
    BY <1>1 DEF EventRecord
  <2>2. QED
    BY <1>1, <2>1 DEF Numbered
<1> HIDE DEF new
<1>3. /\ longer \in Seq(EventRecord) /\ Len(longer) = Len(log) + Len(batch)
      /\ \A i \in 1..Len(log) : longer[i] = log[i]
      /\ \A i \in Len(log)+1..Len(log)+Len(batch) : longer[i] = new[i - Len(log)]
  BY <1>1, <1>2, ConcatProperties
<1> HIDE DEF longer
<1>4. IsDense(longer)
  <2> SUFFICES ASSUME NEW i \in 1..Len(longer) PROVE longer[i].sequenceNumber = i
    BY DEF IsDense
  <2>1. CASE i <= Len(log)
    BY <1>1, <1>3, <2>1 DEF IsDense
  <2>2. CASE ~(i <= Len(log))
    <3>1. i - Len(log) \in 1..Len(batch) /\ longer[i] = new[i - Len(log)]
      BY <1>1, <1>3, <2>2
    <3>2. QED
      BY <1>1, <1>2, <3>1
  <2>3. QED
    BY <2>1, <2>2
<1>5. MatchingEvents(log, query) \subseteq MatchingEvents(longer, query)
  <2> SUFFICES ASSUME NEW i \in 1..Len(log), Matches(query, log[i])
               PROVE  i \in 1..Len(longer) /\ Matches(query, longer[i]) /\ longer[i] = log[i]
    BY DEF MatchingEvents, MatchingIndices
  <2>1. QED
    BY <1>1, <1>3
<1>6. ASSUME NEW e \in MatchingEvents(longer, query), e.sequenceNumber <= Len(log)
      PROVE  e \in MatchingEvents(log, query)
  <2>1. PICK i \in 1..Len(longer) : Matches(query, longer[i]) /\ e = longer[i]
    BY DEF MatchingEvents, MatchingIndices
  <2>2. i <= Len(log)
    BY <1>4, <1>6, <2>1 DEF IsDense
  <2>3. i \in 1..Len(log) /\ e = log[i]
    BY <1>1, <1>3, <2>1, <2>2
  <2>4. QED
    BY <2>1, <2>3 DEF MatchingEvents, MatchingIndices
<1>7. QED
  BY <1>3, <1>4, <1>5, <1>6 DEF longer, new
=============================================================================
