------------------------------- MODULE EventLog -------------------------------
(***************************************************************************)
(* The data every store of the repository works on: a log of event         *)
(* records, numbered in the order in which they were appended, and queries *)
(* that select records from it                                             *)
(* (packages/core/src/eventstore/types.ts, filter/index.ts,                *)
(* stores/memory/queryprocessor.ts).                                       *)
(*                                                                         *)
(* The type and the payload of an event matter only for which filters      *)
(* match them.  They are abstracted to a member of EventType; a query's    *)
(* list of filters, combined with OR, is the set of event types that at    *)
(* least one filter matches.                                               *)
(***************************************************************************)
EXTENDS Integers, Sequences, FiniteSets

CONSTANT EventType

EventRecord == [sequenceNumber : Nat, eventType : EventType]

(* createQuery(): "types" stands for the filters (none: everything         *)
(* matches), "min" for options.minSequenceNumber (0: not given).           *)
EventQuery == [types : SUBSET EventType, min : Nat]

(* processQuery() keeps an event iff it lies after minSequenceNumber and   *)
(* the filters, if there are any, match it.                                *)
Matches(query, event) ==
  /\ event.sequenceNumber > query.min
  /\ query.types # {} => event.eventType \in query.types

MatchingIndices(log, query) == {i \in 1..Len(log) : Matches(query, log[i])}

MatchingEvents(log, query) == {log[i] : i \in MatchingIndices(log, query)}

(* Mutant: no fallback to 0 when nothing matches.                          *)
MaxWithoutFallback(log, query) ==
  LET hits == MatchingIndices(log, query)
  IN  IF hits = {} THEN -1
      ELSE log[CHOOSE i \in hits : \A j \in hits : j <= i].sequenceNumber

(* maxSequenceNumber of a query's result: the number of the LAST matching  *)
(* record, 0 if there is none.                                             *)
MaxSequenceNumber(log, query) ==
  LET hits == MatchingIndices(log, query)
  IN  IF hits = {} THEN 0
      ELSE log[CHOOSE i \in hits : \A j \in hits : j <= i].sequenceNumber

(* EventStream.append(): number the events of a batch, counting on from    *)
(* the last number given out.                                              *)
Numbered(batch, last) ==
  [i \in 1..Len(batch) |-> [sequenceNumber |-> last + i, eventType |-> batch[i]]]

(* The numbers of a log are 1, 2, 3, ... in the order of the records.      *)
IsDense(log) == \A i \in 1..Len(log) : log[i].sequenceNumber = i
=============================================================================
