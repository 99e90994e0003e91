-------------------------- MODULE SqlEventStoreProofs --------------------------
(***************************************************************************)
(* What the stores over an SQL table guarantee for any callers, tenants,   *)
(* queries, batches, pools and failing statements.  The invariant is made  *)
(* of layers: the types with the numbers drawn so far; the connection      *)
(* pools; what a call has in hand; and what its caller knows of the table. *)
(* From these follow the properties, one by one, and the refinement.       *)
(***************************************************************************)
EXTENDS SqlEventStore, EventLogProofs, FiniteSetTheorems

-----------------------------------------------------------------------------
(* Layer 1: types and numbers.                                             *)

(* Every number in use has been drawn, and a statement reads rows that are *)
(* committed.                                                              *)
NumbersAreDrawn ==
  /\ \A r \in rows : r.sequenceNumber \in 1..lastNumber
  /\ \A p \in Proc : snapshot[p] \subseteq rows
  /\ \A p \in Proc : \A i \in DOMAIN inserted[p] :
       inserted[p][i].sequenceNumber \in 1..lastNumber

(* A call that waits for a client of its pool is in the queue.             *)
WaitersAreQueued ==
  \A p \in Proc : At(p, "connecting") =>
    \E i \in DOMAIN connecting[scopeOf[p]] : connecting[scopeOf[p]][i] = p

TypeInv == SqlTypeOK /\ NumbersAreDrawn /\ WaitersAreQueued

ArgsType == [query : SqlQuery, batch : Seq(EventType), conditional : BOOLEAN,
             expected : Nat, basis : View]

(* The largest number of a set of numbered rows.                           *)
LEMMA LargestBounds ==
  ASSUME NEW n \in Nat, NEW records,
         \A r \in records : r.sequenceNumber \in 1..n
  PROVE  /\ Largest(records) \in 0..n
         /\ \A r \in records : r.sequenceNumber <= Largest(records)
         /\ records # {} => \E r \in records : Largest(records) = r.sequenceNumber
<1> DEFINE numbers == {r.sequenceNumber : r \in records}
<1>1. numbers \in SUBSET (1..n)
  OBVIOUS
<1>2. CASE records = {}
  BY <1>2 DEF Largest
<1>3. CASE records # {}
  <2>1. numbers # {}
    BY <1>3
  <2>2. \E i \in numbers : \A j \in numbers : j <= i
    BY <1>1, <2>1, LastPosition
  <2>3. \E i \in numbers : \A j \in numbers : i >= j
    BY <1>1, <2>2
  <2>4. Max(numbers) \in numbers /\ \A j \in numbers : Max(numbers) >= j
    BY <2>3 DEF Max
  <2>5. Largest(records) = Max(numbers)
    BY <1>3 DEF Largest
  <2> HIDE DEF numbers
  <2>6. Largest(records) \in numbers /\ \A j \in numbers : j <= Largest(records)
    BY <2>4, <2>5, <1>1
  <2>7. QED
    BY <2>6, <1>1, <1>3 DEF numbers
<1>4. QED
  BY <1>2, <1>3

(* The constants of a call that has not begun have their types.            *)
LEMMA TypesOfNothing ==
  NoQuery \in SqlQuery /\ NoView \in View /\ NoArgs \in ArgsType
<1>1. NoQuery \in SqlQuery
  BY EmptySeq DEF NoQuery, SqlQuery
<1>2. NoView \in View
  BY <1>1 DEF NoView, View
<1>3. QED
  BY <1>1, <1>2, EmptySeq DEF NoArgs, ArgsType

(* Nothing has happened: everything is empty.                              *)
LEMMA InitTypes == Init => TypeInv
<1> SUFFICES ASSUME Init PROVE TypeInv
  OBVIOUS
<1>1. SqlTypeOK
  BY TypesOfNothing, SqlAssumption, EmptySeq DEF Init, SqlTypeOK, ArgsType, Label
<1>2. NumbersAreDrawn
  BY EmptySeq DEF Init, NumbersAreDrawn
<1>3. WaitersAreQueued
  BY DEF Init, WaitersAreQueued, At
<1>4. QED
  BY <1>1, <1>2, <1>3 DEF TypeInv

(* Only a call that starts begins to wait in a pool's queue.               *)
LEMMA WaitersStayQueued ==
  ASSUME TypeInv, NEW p \in Proc, NEW label, label # "connecting",
         pc' = [pc EXCEPT ![p] = label], UNCHANGED <<scopeOf, connecting>>
  PROVE  WaitersAreQueued'
BY DEF TypeInv, SqlTypeOK, WaitersAreQueued, At

(* The start of a call keeps the types.                                    *)
LEMMA StartTypes ==
  ASSUME TypeInv, NEW p \in Proc, NEW label \in Label, label # "connecting",
         NEW arguments \in ArgsType, StartCall(p, label, arguments)
  PROVE  /\ pc' \in [Proc -> Label] /\ calls' \in [Proc -> Nat]
         /\ args' \in [Proc -> ArgsType]
         /\ result' \in [Proc -> {"none", "resolved", "refused", "failed"}]
         /\ connecting' \in [Scope -> Seq(Proc)] /\ checkedOut' \subseteq Proc
         /\ scopeOf' = scopeOf => WaitersAreQueued'
<1> USE DEF TypeInv, StartCall
<1>1. pc' \in [Proc -> Label] /\ calls' \in [Proc -> Nat]
  <2>1. calls' \in [Proc -> Nat]
    BY DEF SqlTypeOK
  <2>2. pc' = [pc EXCEPT ![p] = "connecting"] \/ pc' = [pc EXCEPT ![p] = label]
    BY DEF Goto
  <2>3. "connecting" \in Label /\ pc \in [Proc -> Label]
    BY DEF SqlTypeOK, Label
  <2>4. QED
    BY <2>1, <2>2, <2>3
<1>2. args' \in [Proc -> ArgsType]
  BY DEF SqlTypeOK, ArgsType
<1>3. result' \in [Proc -> {"none", "resolved", "refused", "failed"}]
  BY DEF SqlTypeOK, Outcome
<1>4. scopeOf[p] \in Scope
  BY DEF SqlTypeOK
<1>5. connecting' \in [Scope -> Seq(Proc)] /\ checkedOut' \subseteq Proc
  <2>1. connecting \in [Scope -> Seq(Proc)] /\ checkedOut \subseteq Proc
    BY DEF SqlTypeOK
  <2>2. connecting[scopeOf[p]] \in Seq(Proc)
    BY <2>1, <1>4
  <2>3. Append(connecting[scopeOf[p]], p) \in Seq(Proc)
    BY <2>2, AppendProperties
  <2>4. \/ connecting' = connecting
        \/ connecting' = [connecting EXCEPT
                            ![scopeOf[p]] = Append(connecting[scopeOf[p]], p)]
    OBVIOUS
  <2>5. QED
    BY <2>1, <2>3, <2>4
<1>6. ASSUME scopeOf' = scopeOf PROVE WaitersAreQueued'
  <2> DEFINE c == scopeOf[p]
  <2>1. connecting \in [Scope -> Seq(Proc)] /\ c \in Scope
    BY <1>4 DEF SqlTypeOK
  <2>2. CASE Pooled
    <3>1. connecting' = [connecting EXCEPT ![c] = Append(connecting[c], p)]
      BY <2>2
    <3>2. connecting[c] \in Seq(Proc)
      BY <2>1
    <3>3. /\ Len(connecting'[c]) = Len(connecting[c]) + 1
          /\ \A i \in 1..Len(connecting[c]) : connecting'[c][i] = connecting[c][i]
          /\ connecting'[c][Len(connecting[c]) + 1] = p
          /\ connecting'[c] \in Seq(Proc)
          /\ Len(connecting[c]) \in Nat
      BY <2>1, <3>1, <3>2, AppendProperties
    <3>4. \A i \in DOMAIN connecting[c] : i \in DOMAIN connecting'[c]
                                           /\ connecting'[c][i] = connecting[c][i]
      BY <3>2, <3>3, LenProperties
    <3>5. \E i \in DOMAIN connecting'[c] : connecting'[c][i] = p
      BY <3>3, LenProperties
    <3>6. \A q \in Proc : q # p => pc'[q] = pc[q]
      BY DEF Goto, SqlTypeOK
    <3>7. \A d \in Scope : d # c => connecting'[d] = connecting[d]
      BY <2>1, <3>1
    <3>8. \A q \in Proc : scopeOf[q] \in Scope
      BY DEF SqlTypeOK
    <3> HIDE DEF c
    <3>9. QED
      BY <1>6, <3>4, <3>5, <3>6, <3>7, <3>8 DEF WaitersAreQueued, At, c
  <2>3. CASE ~Pooled
    <3>1. pc' = [pc EXCEPT ![p] = label] /\ connecting' = connecting
      BY <2>3 DEF Goto
    <3>2. QED
      BY <1>6, <3>1, WaitersStayQueued
  <2>4. QED
    BY <2>2, <2>3
<1>7. QED
  BY <1>1, <1>2, <1>3, <1>5, <1>6

(* The end of a call keeps the types.                                      *)
LEMMA SettleTypes ==
  ASSUME TypeInv, NEW p \in Proc, NEW outcome \in {"resolved", "refused", "failed"},
         Settle(p, outcome)
  PROVE  /\ pc' \in [Proc -> Label] /\ args' \in [Proc -> ArgsType]
         /\ result' \in [Proc -> {"none", "resolved", "refused", "failed"}]
         /\ connecting' \in [Scope -> Seq(Proc)] /\ checkedOut' \subseteq Proc
         /\ snapshot' \in [Proc -> SUBSET Row] /\ inserted' \in [Proc -> Seq(Row)]
         /\ UNCHANGED tableVars => NumbersAreDrawn'
         /\ scopeOf' = scopeOf => WaitersAreQueued'
<1> USE DEF TypeInv, Settle
<1>1. pc' \in [Proc -> Label]
  BY DEF SqlTypeOK, Goto, Label
<1>2. args' \in [Proc -> ArgsType]
  BY TypesOfNothing DEF SqlTypeOK, ArgsType
<1>3. result' \in [Proc -> {"none", "resolved", "refused", "failed"}]
  BY DEF SqlTypeOK, Outcome
<1>4. connecting' \in [Scope -> Seq(Proc)] /\ checkedOut' \subseteq Proc
  BY DEF SqlTypeOK, Release
<1>5. snapshot' \in [Proc -> SUBSET Row] /\ inserted' \in [Proc -> Seq(Row)]
  BY EmptySeq DEF SqlTypeOK
<1>6. ASSUME UNCHANGED tableVars PROVE NumbersAreDrawn'
  <2>1. rows' = rows /\ lastNumber' = lastNumber
    BY <1>6 DEF tableVars
  <2>2. \A q \in Proc : snapshot'[q] \subseteq rows
    BY DEF SqlTypeOK, NumbersAreDrawn
  <2>3. ASSUME NEW q \in Proc, NEW i \in DOMAIN inserted'[q]
        PROVE  inserted'[q][i].sequenceNumber \in 1..lastNumber
    BY <2>3, EmptySeq DEF SqlTypeOK, NumbersAreDrawn
  <2>4. QED
    BY <2>1, <2>2, <2>3 DEF NumbersAreDrawn
<1>7. ASSUME scopeOf' = scopeOf PROVE WaitersAreQueued'
  BY <1>7, WaitersStayQueued DEF Goto, Release
<1>8. QED
  BY <1>1, <1>2, <1>3, <1>4, <1>5, <1>6, <1>7

(* The queries a caller can ask.                                           *)
LEMMA QueriesAskedFor ==
  ASSUME TypeInv, NEW p \in Proc,
         NEW q \in {[filters |-> f, min |-> 0] : f \in Filters}
                   \cup {[view[p].query EXCEPT !.min = view[p].max]}
  PROVE  q \in SqlQuery
<1>1. view[p] \in View
  BY DEF TypeInv, SqlTypeOK
<1>2. view[p].query \in SqlQuery /\ view[p].max \in Nat
  BY <1>1 DEF View
<1>3. [view[p].query EXCEPT !.min = view[p].max] \in SqlQuery
  BY <1>2 DEF SqlQuery
<1>4. \A f \in Filters : [filters |-> f, min |-> 0] \in SqlQuery
  BY SqlAssumption DEF SqlQuery
<1>5. QED
  BY <1>3, <1>4

(* Calls that start keep the types.                                        *)
LEMMA CallsStart ==
  ASSUME TypeInv, NEW p \in Proc,
         QueryCall(p) \/ AppendCall(p) \/ AppendReturnsEarly(p) \/ Connect(p)
  PROVE  TypeInv'
<1> USE DEF TypeInv
<1>1. ASSUME NEW label \in Label, label # "connecting",
             NEW arguments \in ArgsType, StartCall(p, label, arguments),
             UNCHANGED <<rigid, tableVars, view, collected, stmtVars, handling, subVars,
                         channelVars, delivered>>
      PROVE  TypeInv'
  <2> USE DEF rigid, tableVars, stmtVars, subVars, channelVars
  <2>1. SqlTypeOK'
    BY <1>1, StartTypes DEF SqlTypeOK, ArgsType
  <2>2. NumbersAreDrawn'
    BY <1>1 DEF NumbersAreDrawn
  <2>3. WaitersAreQueued'
    BY <1>1, StartTypes
  <2>4. QED
    BY <2>1, <2>2, <2>3
<1>2. CASE QueryCall(p)
  <2>1. PICK q \in {[filters |-> f, min |-> 0] : f \in Filters}
                   \cup {[view[p].query EXCEPT !.min = view[p].max]} :
          StartCall(p, "querying", [NoArgs EXCEPT !.query = q])
    BY <1>2 DEF QueryCall
  <2>2. [NoArgs EXCEPT !.query = q] \in ArgsType
    BY QueriesAskedFor, TypesOfNothing DEF ArgsType
  <2>3. QED
    BY <1>1, <1>2, <2>1, <2>2 DEF QueryCall, Label
<1>3. CASE AppendCall(p)
  <2>1. PICK b \in Batch \ {<<>>}, conditional \in BOOLEAN :
          StartCall(p, "executing", AppendArgs(p, b, conditional))
    BY <1>3 DEF AppendCall
  <2>2. view[p] \in View /\ b \in Seq(EventType)
    BY SqlAssumption DEF SqlTypeOK
  <2>3. AppendArgs(p, b, conditional) \in ArgsType
    BY <2>2 DEF AppendArgs, ArgsType, View
  <2>4. QED
    BY <1>1, <1>3, <2>1, <2>3 DEF AppendCall, Label
<1>4. CASE AppendReturnsEarly(p)
  <2> USE <1>4 DEF AppendReturnsEarly, rigid, tableVars, poolVars, stmtVars, subVars,
                   channelVars
  <2>1. calls' \in [Proc -> Nat]
    BY DEF SqlTypeOK
  <2>2. result' \in [Proc -> {"none", "resolved", "refused", "failed"}]
    BY DEF SqlTypeOK, Outcome
  <2>3. SqlTypeOK'
    BY <2>1, <2>2 DEF SqlTypeOK
  <2>4. NumbersAreDrawn' /\ WaitersAreQueued'
    BY DEF NumbersAreDrawn, WaitersAreQueued, At
  <2>5. QED
    BY <2>3, <2>4
<1>5. CASE Connect(p)
  <2> DEFINE c == scopeOf[p]
             queue == connecting[c]
  <2> USE <1>5 DEF Connect, Goto, rigid, tableVars, stmtVars, subVars, channelVars
  <2>1. /\ connecting \in [Scope -> Seq(Proc)] /\ checkedOut \subseteq Proc
        /\ pc \in [Proc -> Label] /\ scopeOf' = scopeOf
        /\ \A q \in Proc : scopeOf[q] \in Scope
    BY DEF SqlTypeOK
  <2>2. queue \in Seq(Proc) /\ queue # <<>>
    <3>1. queue \in Seq(Proc)
      BY <2>1
    <3>2. \E i \in DOMAIN queue : queue[i] = p
      BY DEF WaitersAreQueued
    <3>3. QED
      BY <3>1, <3>2, EmptySeq
  <2>3. /\ Tail(queue) \in Seq(Proc) /\ Len(Tail(queue)) = Len(queue) - 1
        /\ \A i \in 1..Len(Tail(queue)) : Tail(queue)[i] = queue[i + 1]
        /\ queue[1] = p /\ Len(queue) \in Nat
    BY <2>2, HeadTailProperties, LenProperties
  <2>4. connecting' = [connecting EXCEPT ![c] = Tail(queue)]
    OBVIOUS
  <2>5. connecting' \in [Scope -> Seq(Proc)] /\ checkedOut' \subseteq Proc
    BY <2>1, <2>3, <2>4
  <2>6. pc' \in [Proc -> Label] /\ ~At(p, "connecting")'
    BY <2>1 DEF Label, At
  <2>7. SqlTypeOK'
    BY <2>5, <2>6 DEF SqlTypeOK
  <2>8. NumbersAreDrawn'
    BY DEF NumbersAreDrawn
  <2>9. ASSUME NEW q \in Proc, At(q, "connecting")'
        PROVE  \E i \in DOMAIN connecting'[scopeOf[q]] : connecting'[scopeOf[q]][i] = q
    <3>1. q # p /\ At(q, "connecting")
      BY <2>1, <2>6, <2>9 DEF At
    <3>2. PICK i \in DOMAIN connecting[scopeOf[q]] : connecting[scopeOf[q]][i] = q
      BY <3>1 DEF WaitersAreQueued
    <3>3. CASE scopeOf[q] = c
      <4>1. i \in 1..Len(queue) /\ queue[i] = q
        BY <2>2, <3>2, <3>3, LenProperties
      <4>2. i - 1 \in 1..Len(Tail(queue)) /\ Tail(queue)[i - 1] = q
        BY <2>3, <3>1, <4>1
      <4>3. connecting'[c] = Tail(queue)
        BY <2>1, <2>4
      <4>4. i - 1 \in DOMAIN Tail(queue)
        BY <2>3, <4>2, LenProperties
      <4>5. QED
        BY <3>3, <4>2, <4>3, <4>4
    <3>4. CASE scopeOf[q] # c
      BY <2>1, <2>4, <3>2, <3>4
    <3>5. QED
      BY <3>3, <3>4
  <2>10. QED
    BY <2>1, <2>7, <2>8, <2>9 DEF WaitersAreQueued
<1>6. QED
  BY <1>2, <1>3, <1>4, <1>5

(* Calls that end keep the types.                                          *)
LEMMA CallsEnd ==
  ASSUME TypeInv, NEW p \in Proc,
         QueryRead(p) \/ QueryFails(p) \/ Refused(p) \/ StatementFails(p) \/ NotifyEnd(p)
  PROVE  TypeInv'
<1> USE DEF TypeInv
<1>1. CASE QueryRead(p)
  <2> DEFINE q == args[p].query
             events == Selected(scopeOf[p], q)
             entry == [query |-> q, events |-> events, max |-> Largest(events),
                       drawn |-> lastNumber]
  <2>1. /\ events \subseteq rows /\ rows \subseteq Row /\ lastNumber \in Nat
        /\ \A r \in events : r.sequenceNumber \in 1..lastNumber
    BY DEF Selected, SqlTypeOK, NumbersAreDrawn
  <2>2. Largest(events) \in Nat
    <3> HIDE DEF events
    <3>1. QED
      BY <2>1, LargestBounds
  <2>3. args[p] \in ArgsType
    BY DEF SqlTypeOK, ArgsType
  <2>4. entry \in View
    BY <2>1, <2>2, <2>3 DEF ArgsType, View
  <2>5. view' = [view EXCEPT ![p] = entry]
    BY <1>1 DEF QueryRead
  <2>6. collected' = [collected EXCEPT ![p] = IF q.filters = view[p].query.filters
                                              THEN @ \cup events ELSE events]
    BY <1>1 DEF QueryRead
  <2> HIDE DEF entry, events, q
  <2>7. view' \in [Proc -> View] /\ collected' \in [Proc -> SUBSET Row]
    BY <2>1, <2>4, <2>5, <2>6 DEF SqlTypeOK
  <2>8. QED
    BY <1>1, <2>7, SettleTypes
       DEF QueryRead, SqlTypeOK, ArgsType, rigid, tableVars, subVars, channelVars
<1>2. ASSUME NEW outcome \in {"resolved", "refused", "failed"}, Settle(p, outcome),
             UNCHANGED <<rigid, tableVars, calls, view, collected, handling, subVars,
                         channelVars, delivered>>
      PROVE  TypeInv'
  BY <1>2, SettleTypes DEF SqlTypeOK, ArgsType, rigid, tableVars, subVars, channelVars
<1>3. QED
  BY <1>1, <1>2 DEF QueryFails, Refused, StatementFails, NotifyEnd

(* The rows that an append() inserts, all at once or one by one.           *)
LEMMA RowTypes ==
  ASSUME TypeInv, NEW p \in Proc
  PROVE  /\ \A i \in 1..Len(args[p].batch), n \in Nat :
              [sequenceNumber |-> n, scope |-> scopeOf[p],
               eventType |-> args[p].batch[i]] \in Row
         /\ args[p].batch \in Seq(EventType) /\ Len(args[p].batch) \in Nat
         /\ inserted[p] \in Seq(Row) /\ Len(inserted[p]) \in Nat
         /\ lastNumber \in Nat
<1>1. args[p].batch \in Seq(EventType) /\ inserted[p] \in Seq(Row) /\ lastNumber \in Nat
  BY DEF TypeInv, SqlTypeOK
<1>2. Len(args[p].batch) \in Nat /\ Len(inserted[p]) \in Nat
  BY <1>1, LenProperties
<1>3. \A i \in 1..Len(args[p].batch) : args[p].batch[i] \in EventType
  BY <1>1, ElementOfSeq
<1>4. scopeOf[p] \in Scope
  BY DEF TypeInv, SqlTypeOK
<1>5. QED
  BY <1>1, <1>2, <1>3, <1>4 DEF Row

(* The single statement of D1.                                             *)
LEMMA ExecuteTypes ==
  ASSUME TypeInv, NEW p \in Proc, ExecuteAtOnce(p)
  PROVE  TypeInv'
<1> DEFINE n == Len(args[p].batch)
           records == [i \in DOMAIN args[p].batch |->
                         [sequenceNumber |-> lastNumber + i, scope |-> scopeOf[p],
                          eventType |-> args[p].batch[i]]]
<1> USE DEF TypeInv
<1>1. /\ n \in Nat /\ lastNumber \in Nat /\ DOMAIN args[p].batch = 1..n
      /\ records \in Seq(Row) /\ Len(records) = n /\ DOMAIN records = 1..n
      /\ \A i \in 1..n : /\ records[i] \in Row
                         /\ records[i].sequenceNumber = lastNumber + i
  <2>1. n \in Nat /\ lastNumber \in Nat /\ DOMAIN args[p].batch = 1..n
    BY RowTypes, LenProperties
  <2>2. \A i \in 1..n : records[i] \in Row /\ records[i].sequenceNumber = lastNumber + i
    <3>1. \A i \in 1..n : lastNumber + i \in Nat
      BY <2>1
    <3>2. QED
      BY <2>1, <3>1, RowTypes
  <2>3. records \in [1..n -> Row]
    BY <2>1, <2>2
  <2> HIDE DEF records, n
  <2>4. records \in Seq(Row)
    BY <2>1, <2>3
  <2>5. DOMAIN records = 1..n /\ DOMAIN records = 1..Len(records)
    BY <2>3, <2>4, LenProperties
  <2>6. Len(records) = n
    BY <2>1, <2>3, <2>4, LenProperties
  <2>7. QED
    BY <2>1, <2>2, <2>4, <2>5, <2>6
<1>2. /\ inserted' = [inserted EXCEPT ![p] = records]
      /\ rows' = rows \cup {records[i] : i \in DOMAIN records}
      /\ lastNumber' = lastNumber + Len(records)
      /\ pc' = [pc EXCEPT ![p] = "committed"]
      /\ UNCHANGED <<kind, scopeOf, calls, args, view, collected, result, connecting,
                     checkedOut, snapshot, handling, subscriptions, created, joined,
                     channel, before, delivered>>
  BY DEF ExecuteAtOnce, Goto, rigid, poolVars, subVars, channelVars
<1> HIDE DEF n, records
<1>3. rows' \subseteq Row /\ rows \subseteq rows' /\ lastNumber' \in Nat
  BY <1>1, <1>2 DEF SqlTypeOK
<1>4. pc' \in [Proc -> Label]
  BY <1>2 DEF SqlTypeOK, Label
<1>5. inserted' \in [Proc -> Seq(Row)]
  BY <1>1, <1>2 DEF SqlTypeOK
<1>6. SqlTypeOK'
  BY <1>2, <1>3, <1>4, <1>5 DEF SqlTypeOK
<1>7. NumbersAreDrawn'
  <2>1. \A r \in rows' : r.sequenceNumber \in 1..lastNumber'
    BY <1>1, <1>2 DEF NumbersAreDrawn
  <2>2. \A q \in Proc : snapshot'[q] \subseteq rows'
    BY <1>2, <1>3 DEF NumbersAreDrawn
  <2>3. ASSUME NEW q \in Proc, NEW i \in DOMAIN inserted'[q]
        PROVE  inserted'[q][i].sequenceNumber \in 1..lastNumber'
    <3>1. CASE q = p
      BY <1>1, <1>2, <2>3, <3>1 DEF SqlTypeOK
    <3>2. CASE q # p
      <4>1. inserted'[q] = inserted[q]
        BY <1>2, <3>2 DEF SqlTypeOK
      <4>2. inserted[q][i].sequenceNumber \in 1..lastNumber
        BY <2>3, <4>1 DEF NumbersAreDrawn
      <4>3. lastNumber' = lastNumber + n
        BY <1>1, <1>2
      <4>4. QED
        BY <1>1, <4>1, <4>2, <4>3
    <3>3. QED
      BY <3>1, <3>2
  <2>4. QED
    BY <2>1, <2>2, <2>3 DEF NumbersAreDrawn
<1>8. WaitersAreQueued'
  BY <1>2, WaitersStayQueued
<1>9. QED
  BY <1>6, <1>7, <1>8

(* A statement of Postgres: it starts, draws a number, commits.            *)
LEMMA StatementTypes ==
  ASSUME TypeInv, NEW p \in Proc, StatementStart(p) \/ InsertRow(p) \/ Commit(p)
  PROVE  TypeInv'
<1> USE DEF TypeInv
<1>1. CASE StatementStart(p)
  <2>1. /\ snapshot' = [snapshot EXCEPT ![p] = rows]
        /\ inserted' = [inserted EXCEPT ![p] = <<>>]
        /\ pc' = [pc EXCEPT ![p] = "inserting"]
        /\ UNCHANGED <<kind, scopeOf, rows, lastNumber, calls, args, view, collected,
                       result, connecting, checkedOut, handling, subscriptions, created,
                       joined, channel, before, delivered>>
    BY <1>1 DEF StatementStart, Goto, rigid, tableVars, poolVars, subVars, channelVars
  <2>2. pc' \in [Proc -> Label]
    BY <2>1 DEF SqlTypeOK, Label
  <2>3. snapshot' \in [Proc -> SUBSET Row] /\ inserted' \in [Proc -> Seq(Row)]
    BY <2>1, EmptySeq DEF SqlTypeOK
  <2>4. SqlTypeOK'
    BY <2>1, <2>2, <2>3 DEF SqlTypeOK
  <2>5. \A q \in Proc : snapshot'[q] \subseteq rows
    BY <2>1 DEF SqlTypeOK, NumbersAreDrawn
  <2>6. \A q \in Proc : \A i \in DOMAIN inserted'[q] :
          inserted'[q][i].sequenceNumber \in 1..lastNumber
    BY <2>1, EmptySeq DEF SqlTypeOK, NumbersAreDrawn
  <2>7. QED
    BY <2>1, <2>4, <2>5, <2>6, WaitersStayQueued DEF NumbersAreDrawn
<1>2. CASE InsertRow(p)
  <2> DEFINE row == NewRow(p, lastNumber + 1)
  <2>1. /\ lastNumber' = lastNumber + 1
        /\ inserted' = [inserted EXCEPT ![p] = Append(inserted[p], row)]
        /\ UNCHANGED <<kind, scopeOf, rows, pc, calls, args, view, collected, result,
                       connecting, checkedOut, snapshot, handling, subscriptions,
                       created, joined, channel, before, delivered>>
    BY <1>2 DEF InsertRow, rigid, callVars, poolVars, subVars, channelVars
  <2>2. row \in Row /\ row.sequenceNumber = lastNumber + 1 /\ lastNumber \in Nat
    <3>1. Len(inserted[p]) + 1 \in 1..Len(args[p].batch) /\ lastNumber + 1 \in Nat
      BY <1>2, RowTypes DEF InsertRow
    <3>2. QED
      BY <3>1, RowTypes DEF NewRow
  <2> HIDE DEF row
  <2>3. /\ Append(inserted[p], row) \in Seq(Row)
        /\ \A i \in DOMAIN Append(inserted[p], row) :
              \/ i \in DOMAIN inserted[p] /\ Append(inserted[p], row)[i] = inserted[p][i]
              \/ Append(inserted[p], row)[i] = row
    <3>1. inserted[p] \in Seq(Row) /\ Len(inserted[p]) \in Nat
      BY RowTypes
    <3>2. QED
      BY <2>2, <3>1, AppendProperties, LenProperties
  <2>4. SqlTypeOK'
    <3>1. inserted' \in [Proc -> Seq(Row)]
      BY <2>1, <2>3 DEF SqlTypeOK
    <3>2. QED
      BY <2>1, <2>2, <3>1 DEF SqlTypeOK
  <2>5. NumbersAreDrawn'
    <3>1. \A r \in rows : r.sequenceNumber \in 1..lastNumber'
      BY <2>1, <2>2 DEF NumbersAreDrawn
    <3>2. ASSUME NEW q \in Proc, NEW i \in DOMAIN inserted'[q]
          PROVE  inserted'[q][i].sequenceNumber \in 1..lastNumber'
      <4>1. CASE q = p /\ inserted'[q][i] = row
        BY <2>1, <2>2, <4>1
      <4>2. CASE i \in DOMAIN inserted[q] /\ inserted'[q][i] = inserted[q][i]
        <5>1. inserted[q][i].sequenceNumber \in 1..lastNumber
          BY <4>2 DEF NumbersAreDrawn
        <5>2. QED
          BY <2>1, <2>2, <4>2, <5>1
      <4>3. QED
        BY <2>1, <2>3, <3>2, <4>1, <4>2 DEF SqlTypeOK
    <3>3. QED
      BY <2>1, <3>1, <3>2 DEF NumbersAreDrawn
  <2>6. QED
    BY <2>1, <2>4, <2>5 DEF WaitersAreQueued, At
<1>3. CASE Commit(p)
  <2>1. /\ rows' = rows \cup {inserted[p][i] : i \in DOMAIN inserted[p]}
        /\ channel' = [s \in Subscription |->
              IF s \in joined THEN channel[s] \o inserted[p] ELSE channel[s]]
        /\ pc' = [pc EXCEPT ![p] = "committed"]
        /\ UNCHANGED <<kind, scopeOf, lastNumber, calls, args, view, collected, result,
                       connecting, checkedOut, snapshot, inserted, handling,
                       subscriptions, created, joined, before, delivered>>
    BY <1>3 DEF Commit, Broadcast, Goto, rigid, poolVars, stmtVars, subVars
  <2>2. /\ inserted[p] \in Seq(Row)
        /\ \A i \in DOMAIN inserted[p] : /\ inserted[p][i] \in Row
              /\ inserted[p][i].sequenceNumber \in 1..lastNumber
    <3>1. inserted[p] \in Seq(Row)
      BY DEF SqlTypeOK
    <3>2. QED
      BY <3>1, ElementOfSeq, LenProperties DEF NumbersAreDrawn
  <2>3. rows' \subseteq Row
    BY <2>1, <2>2 DEF SqlTypeOK
  <2>4. channel' \in [Subscription -> Seq(Row)]
    <3>1. ASSUME NEW s \in Subscription PROVE channel[s] \o inserted[p] \in Seq(Row)
      <4>1. channel[s] \in Seq(Row)
        BY DEF SqlTypeOK
      <4>2. QED
        BY <2>2, <4>1, ConcatProperties
    <3>2. QED
      BY <2>1, <3>1 DEF SqlTypeOK
  <2>5. pc' \in [Proc -> Label]
    BY <2>1 DEF SqlTypeOK, Label
  <2>6. SqlTypeOK'
    BY <2>1, <2>3, <2>4, <2>5 DEF SqlTypeOK
  <2>7. NumbersAreDrawn'
    BY <2>1, <2>2 DEF NumbersAreDrawn
  <2>8. QED
    BY <2>1, <2>6, <2>7, WaitersStayQueued
<1>4. QED
  BY <1>1, <1>2, <1>3

(* notify() and the subscriptions keep the types.                          *)
LEMMA NotifierTypes ==
  ASSUME TypeInv,
         \/ \E p \in Proc : NotifyStart(p) \/ HandlerSettles(p)
         \/ \E s \in Subscription : SubscriptionStep(s)
         \/ \E c \in Scope : CloseNotifier(c)
  PROVE  TypeInv'
<1> USE DEF TypeInv
<1>1. ASSUME NEW p \in Proc, NotifyStart(p) PROVE TypeInv'
  <2>1. CASE Realtime
    BY <1>1, <2>1, SettleTypes
       DEF NotifyStart, SqlTypeOK, ArgsType, rigid, tableVars, subVars, channelVars
  <2>2. CASE ~Realtime
    <3>1. /\ handling' = [handling EXCEPT ![p] = Listeners(p)]
          /\ delivered' = [s \in Subscription |->
               IF s \in Listeners(p) THEN delivered[s] \o inserted[p] ELSE delivered[s]]
          /\ pc' = [pc EXCEPT ![p] = "notifying"]
          /\ UNCHANGED <<kind, scopeOf, rows, lastNumber, calls, args, view, collected,
                         result, connecting, checkedOut, snapshot, inserted,
                         subscriptions, created, joined, channel, before>>
      BY <1>1, <2>2 DEF NotifyStart, Goto, rigid, tableVars, poolVars, stmtVars, subVars,
                        channelVars
    <3>2. handling' \in [Proc -> SUBSET Subscription]
      BY <3>1 DEF SqlTypeOK, Listeners
    <3>3. delivered' \in [Subscription -> Seq(Row)]
      <4>1. ASSUME NEW s \in Subscription PROVE delivered[s] \o inserted[p] \in Seq(Row)
        <5>1. delivered[s] \in Seq(Row) /\ inserted[p] \in Seq(Row)
          BY DEF SqlTypeOK
        <5>2. QED
          BY <5>1, ConcatProperties
      <4>2. QED
        BY <3>1, <4>1 DEF SqlTypeOK
    <3>4. pc' \in [Proc -> Label]
      BY <3>1 DEF SqlTypeOK, Label
    <3>5. SqlTypeOK'
      BY <3>1, <3>2, <3>3, <3>4 DEF SqlTypeOK
    <3>6. NumbersAreDrawn'
      BY <3>1 DEF NumbersAreDrawn
    <3>7. QED
      BY <3>1, <3>5, <3>6, WaitersStayQueued
  <2>3. QED
    BY <2>1, <2>2
<1>2. ASSUME UNCHANGED <<rigid, tableVars, callVars, poolVars, stmtVars>>,
             handling' \in [Proc -> SUBSET Subscription],
             subscriptions' \subseteq Subscription, created' \subseteq Subscription,
             joined' \subseteq Subscription, channel' \in [Subscription -> Seq(Row)],
             before' \in [Subscription -> SUBSET Row],
             delivered' \in [Subscription -> Seq(Row)]
      PROVE  TypeInv'
  <2> USE <1>2 DEF rigid, tableVars, callVars, poolVars, stmtVars
  <2>1. SqlTypeOK'
    BY DEF SqlTypeOK
  <2>2. NumbersAreDrawn' /\ WaitersAreQueued'
    BY DEF NumbersAreDrawn, WaitersAreQueued, At
  <2>3. QED
    BY <2>1, <2>2
<1>3. ASSUME NEW p \in Proc, HandlerSettles(p) PROVE TypeInv'
  <2>1. handling' \in [Proc -> SUBSET Subscription]
    BY <1>3 DEF HandlerSettles, SqlTypeOK
  <2>2. QED
    BY <1>2, <1>3, <2>1 DEF HandlerSettles, SqlTypeOK, subVars, channelVars
<1>4. ASSUME NEW s \in Subscription, SubscriptionStep(s) PROVE TypeInv'
  <2>1. CASE Subscribe(s)
    BY <1>2, <2>1 DEF Subscribe, SqlTypeOK, channelVars
  <2>2. CASE ChannelJoins(s)
    BY <1>2, <2>2 DEF ChannelJoins, SqlTypeOK, subVars
  <2>3. CASE Unsubscribe(s)
    <3>1. channel' \in [Subscription -> Seq(Row)] /\ before' \in [Subscription -> SUBSET Row]
      BY <2>3, EmptySeq DEF Unsubscribe, SqlTypeOK
    <3>2. QED
      BY <1>2, <2>3, <3>1 DEF Unsubscribe, SqlTypeOK
  <2>4. CASE RealtimeRow(s)
    <3>1. channel[s] \in Seq(Row) /\ channel[s] # <<>> /\ delivered[s] \in Seq(Row)
      BY <2>4 DEF RealtimeRow, SqlTypeOK
    <3>2. /\ Tail(channel[s]) \in Seq(Row)
          /\ Append(delivered[s], Head(channel[s])) \in Seq(Row)
      BY <3>1, HeadTailProperties, AppendProperties
    <3>3. channel' = [channel EXCEPT ![s] = Tail(channel[s])]
      BY <2>4 DEF RealtimeRow
    <3>4. \/ delivered' = delivered
          \/ delivered' = [delivered EXCEPT
                             ![s] = Append(delivered[s], Head(channel[s]))]
      BY <2>4 DEF RealtimeRow
    <3>5. /\ channel' \in [Subscription -> Seq(Row)]
          /\ delivered' \in [Subscription -> Seq(Row)]
      BY <3>2, <3>3, <3>4 DEF SqlTypeOK
    <3>6. QED
      BY <1>2, <2>4, <3>5 DEF RealtimeRow, SqlTypeOK, subVars
  <2>5. QED
    BY <1>4, <2>1, <2>2, <2>3, <2>4 DEF SubscriptionStep
<1>5. ASSUME NEW c \in Scope, CloseNotifier(c) PROVE TypeInv'
  BY <1>2, <1>5 DEF CloseNotifier, SqlTypeOK, channelVars
<1>6. QED
  BY <1>1, <1>3, <1>4, <1>5

(* Every step keeps the types.                                             *)
LEMMA StepKeepsTypes ==
  ASSUME TypeInv, [Next]_vars
  PROVE  TypeInv'
<1>1. CASE UNCHANGED vars
  BY <1>1 DEF vars, TypeInv, SqlTypeOK, NumbersAreDrawn, WaitersAreQueued, At, rigid,
              tableVars, callVars, poolVars, stmtVars, subVars, channelVars
<1>2. ASSUME NEW p \in Proc, CallStep(p) PROVE TypeInv'
  BY <1>2, CallsStart, CallsEnd, ExecuteTypes, StatementTypes, NotifierTypes DEF CallStep
<1>3. QED
  BY <1>1, <1>2, NotifierTypes DEF Next

(* Every variable of the stores has its type; no number is in use that has *)
(* not been drawn.                                                         *)
THEOREM SqlTypeCorrect == Spec => []SqlTypeOK
<1>1. TypeInv /\ [Next]_vars => TypeInv'
  BY StepKeepsTypes
<1>2. TypeInv => SqlTypeOK
  BY DEF TypeInv
<1>3. QED
  BY InitTypes, <1>1, <1>2, PTL DEF Spec

-----------------------------------------------------------------------------
(* Layer 2: the pools.                                                     *)

Waiting(c) == {p \in Proc : scopeOf[p] = c /\ At(p, "connecting")}
Queued(c) == {connecting[c][i] : i \in DOMAIN connecting[c]}
Using(c) == {p \in checkedOut : scopeOf[p] = c}

(* No call waits twice; otherwise a client would be given to a call that   *)
(* does not wait for it.                                                   *)
PoolInv ==
  /\ PoolFollowsCalls
  /\ IsFiniteSet(checkedOut)
  /\ \A p \in Proc : At(p, "connecting") => Pooled
  /\ \A c \in Scope : \A i, j \in DOMAIN connecting[c] :
       i # j => connecting[c][i] # connecting[c][j]

(* What the invariant says, in short.                                      *)
LEMMA PoolFacts ==
  PoolFollowsCalls <=>
    /\ checkedOut = {p \in Proc : Pooled /\ pc[p] \notin {"idle", "connecting"}}
    /\ \A c \in Scope : Queued(c) = Waiting(c) /\ Cardinality(Using(c)) <= PoolSize
BY DEF PoolFollowsCalls, Queued, Waiting, Using

(* Nobody waits and nothing is checked out.                                *)
LEMMA InitPools == Init => PoolInv
<1> SUFFICES ASSUME Init PROVE PoolInv
  OBVIOUS
<1>1. \A c \in Scope : connecting[c] = <<>>
  BY DEF Init
<1>2. \A c \in Scope : DOMAIN connecting[c] = {}
  BY <1>1, EmptySeq
<1>3. \A c \in Scope : Queued(c) = {} /\ Waiting(c) = {} /\ Using(c) = {}
  BY <1>2 DEF Init, Queued, Waiting, Using, At
<1>4. IsFiniteSet({}) /\ Cardinality({}) = 0
  BY FS_EmptySet
<1>5. \A c \in Scope : Cardinality(Using(c)) <= PoolSize
  <2>1. PoolSize \in Nat
    BY SqlAssumption
  <2>2. \A c \in Scope : Cardinality(Using(c)) = 0
    BY <1>3, <1>4
  <2>3. QED
    BY <2>1, <2>2
<1>6. checkedOut = {p \in Proc : Pooled /\ pc[p] \notin {"idle", "connecting"}}
  BY DEF Init
<1>7. QED
  BY <1>2, <1>3, <1>4, <1>5, <1>6, PoolFacts DEF PoolInv, Init, At

(* While nobody joins or leaves a queue, the pools are kept if the clients *)
(* in use stay with the calls under way.                                   *)
LEMMA SameQueuesKeepPools ==
  ASSUME TypeInv, PoolInv, NEW p \in Proc, NEW label, label # "connecting",
         ~At(p, "connecting"), pc' = [pc EXCEPT ![p] = label],
         UNCHANGED <<kind, scopeOf, connecting>>, checkedOut' \subseteq checkedOut,
         p \in checkedOut' <=> Pooled /\ label # "idle",
         \A q \in Proc \ {p} : q \in checkedOut' <=> q \in checkedOut
  PROVE  PoolInv'
<1>1. \A q \in Proc : pc'[q] = IF q = p THEN label ELSE pc[q]
  BY DEF TypeInv, SqlTypeOK
<1>2. checkedOut' = {q \in Proc : Pooled /\ pc[q] \notin {"idle", "connecting"}}'
  <2>1. checkedOut \subseteq Proc
    BY DEF TypeInv, SqlTypeOK
  <2>2. \A q \in Proc \ {p} :
          q \in checkedOut' <=> Pooled' /\ pc'[q] \notin {"idle", "connecting"}
    BY <1>1, PoolFacts DEF PoolInv, Pooled
  <2>3. p \in checkedOut' <=> Pooled' /\ pc'[p] \notin {"idle", "connecting"}
    BY <1>1 DEF Pooled
  <2>4. QED
    BY <2>1, <2>2, <2>3
<1>3. \A c \in Scope : Queued(c)' = Queued(c) /\ Waiting(c)' = Waiting(c)
  BY <1>1 DEF Queued, Waiting, At
<1>4. IsFiniteSet(checkedOut')
  BY FS_Subset DEF PoolInv
<1>5. ASSUME NEW c \in Scope PROVE Cardinality(Using(c)') <= PoolSize
  <2>1. Using(c)' \subseteq Using(c) /\ Using(c) \subseteq checkedOut
    BY DEF Using
  <2>2. IsFiniteSet(Using(c))
    BY <2>1, FS_Subset DEF PoolInv
  <2>3. /\ Cardinality(Using(c)') <= Cardinality(Using(c))
        /\ Cardinality(Using(c)) \in Nat /\ Cardinality(Using(c)') \in Nat
    BY <2>1, <2>2, FS_Subset, FS_CardinalityType
  <2>4. Cardinality(Using(c)) <= PoolSize /\ PoolSize \in Nat
    BY PoolFacts, SqlAssumption DEF PoolInv
  <2>5. QED
    BY <2>3, <2>4
<1>6. PoolFollowsCalls'
  BY <1>2, <1>3, <1>5, PoolFacts DEF PoolInv, PoolFollowsCalls, Queued, Waiting, Using
<1>7. \A q \in Proc : At(q, "connecting")' => Pooled'
  BY <1>1 DEF PoolInv, Pooled, At
<1>8. QED
  BY <1>4, <1>6, <1>7 DEF PoolInv

(* A call that starts joins the queue, if its store has a pool.            *)
LEMMA StartKeepsPools ==
  ASSUME TypeInv, PoolInv, NEW p \in Proc, NEW label, NEW arguments,
         label # "connecting", StartCall(p, label, arguments), UNCHANGED <<kind, scopeOf>>
  PROVE  PoolInv'
<1>0. PICK c \in Scope : c = scopeOf[p]
  BY DEF TypeInv, SqlTypeOK
<1>1. /\ At(p, "idle") /\ checkedOut' = checkedOut
      /\ connecting \in [Scope -> Seq(Proc)] /\ pc \in [Proc -> Label]
  BY DEF StartCall, TypeInv, SqlTypeOK
<1>2. p \notin checkedOut /\ p \notin Waiting(c) /\ Queued(c) = Waiting(c)
  BY <1>0, <1>1, PoolFacts DEF PoolInv, Waiting, At
<1>3. (\A d \in Scope : Cardinality(Using(d)) <= PoolSize)' /\ IsFiniteSet(checkedOut')
  BY <1>1, PoolFacts DEF PoolInv, Using
<1>4. CASE Pooled
  <2>1. /\ pc' = [pc EXCEPT ![p] = "connecting"]
        /\ connecting' = [connecting EXCEPT ![c] = Append(connecting[c], p)]
    BY <1>0, <1>4 DEF StartCall, Goto
  <2>2. connecting[c] \in Seq(Proc)
    BY <1>1
  <2>3. /\ Len(connecting[c]) \in Nat /\ DOMAIN connecting[c] = 1..Len(connecting[c])
        /\ DOMAIN connecting'[c] = 1..Len(connecting[c]) + 1
        /\ \A i \in 1..Len(connecting[c]) : connecting'[c][i] = connecting[c][i]
        /\ connecting'[c][Len(connecting[c]) + 1] = p
    BY <1>1, <2>1, <2>2, AppendProperties, LenProperties
  <2>4. \A d \in Scope : d # c => connecting'[d] = connecting[d]
    BY <1>1, <2>1
  <2>5. \A q \in Proc : q # p => pc'[q] = pc[q]
    BY <1>1, <2>1
  <2>6. pc'[p] = "connecting"
    BY <1>1, <2>1
  <2>7. Queued(c)' = Queued(c) \cup {p}
    BY <2>3 DEF Queued
  <2>8. Waiting(c)' = Waiting(c) \cup {p}
    BY <1>0, <2>5, <2>6 DEF Waiting, At
  <2>9. \A d \in Scope : d # c => Queued(d)' = Queued(d) /\ Waiting(d)' = Waiting(d)
    BY <1>0, <1>1, <2>4, <2>5 DEF Queued, Waiting, At
  <2>10. \A d \in Scope : Queued(d)' = Waiting(d)'
    BY <1>2, <2>7, <2>8, <2>9, PoolFacts DEF PoolInv
  <2>11. checkedOut' = {q \in Proc : Pooled /\ pc[q] \notin {"idle", "connecting"}}'
    BY <1>1, <1>2, <2>5, <2>6, PoolFacts DEF PoolInv, At, Pooled
  <2>12. PoolFollowsCalls'
    BY <1>3, <2>10, <2>11 DEF PoolFollowsCalls, Queued, Waiting, Using
  <2>13. \A i \in DOMAIN connecting[c] : connecting[c][i] # p
    BY <1>2 DEF Queued
  <2>14. \A i, j \in DOMAIN connecting'[c] : i # j => connecting'[c][i] # connecting'[c][j]
    BY <1>1, <2>3, <2>13 DEF PoolInv
  <2>15. QED
    BY <1>3, <1>4, <2>4, <2>12, <2>14 DEF PoolInv, Pooled
<1>5. CASE ~Pooled
  <2>1. pc' = [pc EXCEPT ![p] = label] /\ connecting' = connecting
    BY <1>5 DEF StartCall, Goto
  <2>2. QED
    BY <1>1, <1>2, <1>5, <2>1, SameQueuesKeepPools DEF At
<1>6. QED
  BY <1>4, <1>5

(* A call that is given a client was the first in the queue.               *)
LEMMA ConnectKeepsPools ==
  ASSUME TypeInv, PoolInv, NEW p \in Proc, Connect(p)
  PROVE  PoolInv'
<1>0. PICK c \in Scope, queue \in Seq(Proc) : c = scopeOf[p] /\ queue = connecting[c]
  BY DEF TypeInv, SqlTypeOK
<1>1. /\ At(p, "connecting") /\ Head(queue) = p
      /\ Cardinality(Using(c)) < PoolSize
      /\ checkedOut' = checkedOut \cup {p}
      /\ connecting' = [connecting EXCEPT ![c] = Tail(queue)]
      /\ kind' = kind /\ scopeOf' = scopeOf
  BY <1>0 DEF Connect, Using, rigid
<1>2. /\ connecting \in [Scope -> Seq(Proc)] /\ pc \in [Proc -> Label]
      /\ checkedOut \subseteq Proc
      /\ \A q \in Proc : scopeOf[q] \in Scope
  BY DEF TypeInv, SqlTypeOK
<1>3. /\ pc'[p] \in {"querying", "executing"}
      /\ \A q \in Proc : q # p => pc'[q] = pc[q]
  BY <1>2 DEF Connect, Goto
<1>4. queue \in Seq(Proc) /\ queue # <<>>
  <2>1. \E i \in DOMAIN queue : queue[i] = p
    BY <1>0, <1>1 DEF TypeInv, WaitersAreQueued
  <2>2. QED
    BY <1>0, <1>2, <2>1, EmptySeq
<1>5. /\ Len(queue) \in Nat /\ Len(queue) > 0 /\ DOMAIN queue = 1..Len(queue)
      /\ DOMAIN Tail(queue) = 1..Len(queue) - 1
      /\ \A i \in 1..Len(queue) - 1 : Tail(queue)[i] = queue[i + 1]
      /\ queue[1] = p
  <2>1. Tail(queue) \in Seq(Proc) /\ Len(Tail(queue)) = Len(queue) - 1
    BY <1>4, HeadTailProperties
  <2>2. QED
    BY <1>1, <1>4, <2>1, HeadTailProperties, LenProperties
<1>6. connecting'[c] = Tail(queue) /\ \A d \in Scope : d # c => connecting'[d] = connecting[d]
  BY <1>1, <1>2
<1>7. \A i, j \in DOMAIN queue : i # j => queue[i] # queue[j]
  BY <1>0 DEF PoolInv
<1>8. Queued(c)' = Queued(c) \ {p}
  <2>1. \A i \in 1..Len(queue) - 1 : i + 1 \in 1..Len(queue) /\ queue[i + 1] # p
    BY <1>5, <1>7
  <2>2. \A i \in 1..Len(queue) : i = 1 \/ (i - 1 \in 1..Len(queue) - 1 /\ Tail(queue)[i - 1] = queue[i])
    BY <1>5
  <2>3. Queued(c) = {queue[i] : i \in 1..Len(queue)}
    BY <1>5, <1>0 DEF Queued
  <2>4. Queued(c)' = {Tail(queue)[i] : i \in 1..Len(queue) - 1}
    BY <1>1, <1>5, <1>6 DEF Queued
  <2>5. Queued(c)' \subseteq Queued(c) \ {p}
    BY <2>1, <2>3, <2>4, <1>5
  <2>6. Queued(c) \ {p} \subseteq Queued(c)'
    BY <2>2, <2>3, <2>4, <1>5
  <2>7. QED
    BY <2>5, <2>6
<1>9. Waiting(c)' = Waiting(c) \ {p}
  BY <1>0, <1>1, <1>3 DEF Waiting, At
<1>10. \A d \in Scope : d # c => Queued(d)' = Queued(d) /\ Waiting(d)' = Waiting(d)
  BY <1>0, <1>1, <1>3, <1>6 DEF Queued, Waiting, At
<1>11. \A d \in Scope : Queued(d)' = Waiting(d)'
  BY <1>8, <1>9, <1>10, PoolFacts DEF PoolInv
<1>12. Pooled /\ p \notin checkedOut
  <2>1. p \notin checkedOut
    BY <1>1, PoolFacts DEF PoolInv, At
  <2>2. Pooled
    BY <1>1 DEF PoolInv
  <2>3. QED
    BY <2>1, <2>2
<1>13. checkedOut' = {q \in Proc : Pooled /\ pc[q] \notin {"idle", "connecting"}}'
  <2>1. \A q \in Proc \ {p} :
          q \in checkedOut' <=> Pooled' /\ pc'[q] \notin {"idle", "connecting"}
    BY <1>1, <1>3, PoolFacts DEF PoolInv, Pooled
  <2>2. QED
    BY <1>1, <1>2, <1>3, <1>12, <2>1 DEF Pooled
<1>14. IsFiniteSet(checkedOut')
  BY <1>1, FS_AddElement DEF PoolInv
<1>15. ASSUME NEW d \in Scope PROVE Cardinality(Using(d)') <= PoolSize
  <2>1. CASE d = c
    <3>1. Using(c)' = Using(c) \cup {p} /\ p \notin Using(c)
      BY <1>0, <1>1, <1>2, <1>12 DEF Using
    <3>2. IsFiniteSet(Using(c))
      BY FS_Subset DEF PoolInv, Using
    <3>3. Cardinality(Using(c)') = Cardinality(Using(c)) + 1 /\ Cardinality(Using(c)) \in Nat
      BY <3>1, <3>2, FS_AddElement, FS_CardinalityType
    <3>4. PoolSize \in Nat
      BY SqlAssumption
    <3>5. QED
      BY <1>1, <2>1, <3>3, <3>4
  <2>2. CASE d # c
    <3>1. Using(d)' = Using(d)
      BY <1>0, <1>1, <1>2, <2>2 DEF Using
    <3>2. QED
      BY <3>1, PoolFacts DEF PoolInv
  <2>3. QED
    BY <2>1, <2>2
<1>16. PoolFollowsCalls'
  BY <1>11, <1>13, <1>15 DEF PoolFollowsCalls, Queued, Waiting, Using
<1>17. \A d \in Scope : \A i, j \in DOMAIN connecting'[d] :
         i # j => connecting'[d][i] # connecting'[d][j]
  <2>1. \A i, j \in DOMAIN connecting'[c] : i # j => connecting'[c][i] # connecting'[c][j]
    BY <1>5, <1>6, <1>7
  <2>2. ASSUME NEW d \in Scope, d # c
        PROVE  \A i, j \in DOMAIN connecting'[d] : i # j => connecting'[d][i] # connecting'[d][j]
    <3>1. connecting'[d] = connecting[d]
      BY <1>6, <2>2
    <3>2. \A i, j \in DOMAIN connecting[d] : i # j => connecting[d][i] # connecting[d][j]
      BY DEF PoolInv
    <3>3. QED
      BY <3>1, <3>2
  <2>3. QED
    BY <2>1, <2>2
<1>18. \A q \in Proc : At(q, "connecting")' => Pooled'
  BY <1>1, <1>12 DEF Pooled
<1>19. QED
  BY <1>14, <1>16, <1>17, <1>18 DEF PoolInv

(* The other steps of a call keep its client until the call ends.          *)
LEMMA CallStepKeepsPools ==
  ASSUME TypeInv, PoolInv, NEW p \in Proc, CallStep(p)
  PROVE  PoolInv'
<1>1. ASSUME UNCHANGED <<kind, scopeOf, pc, connecting, checkedOut>> PROVE PoolInv'
  BY <1>1 DEF PoolInv, PoolFollowsCalls, Pooled, At
<1>2. ASSUME NEW label \in Label \ {"idle", "connecting"},
             pc[p] \notin {"idle", "connecting"}, pc' = [pc EXCEPT ![p] = label],
             UNCHANGED <<kind, scopeOf, connecting, checkedOut>>
      PROVE  PoolInv'
  <2>1. p \in checkedOut <=> Pooled
    BY <1>2, PoolFacts DEF PoolInv
  <2>2. QED
    BY <1>2, <2>1, SameQueuesKeepPools DEF At
<1>3. ASSUME NEW outcome, pc[p] # "connecting", Settle(p, outcome),
             UNCHANGED <<kind, scopeOf>>
      PROVE  PoolInv'
  BY <1>3, SameQueuesKeepPools DEF Settle, Goto, Release, At
<1>4. CASE QueryCall(p) \/ AppendCall(p)
  BY <1>4, StartKeepsPools DEF QueryCall, AppendCall, rigid
<1>5. CASE AppendReturnsEarly(p) \/ InsertRow(p) \/ HandlerSettles(p)
  BY <1>1, <1>5 DEF AppendReturnsEarly, InsertRow, HandlerSettles, callVars, poolVars, rigid
<1>6. CASE ExecuteAtOnce(p) \/ StatementStart(p) \/ Commit(p)
  BY <1>2, <1>6 DEF ExecuteAtOnce, StatementStart, Commit, At, Goto, Label, poolVars, rigid
<1>7. CASE QueryRead(p) \/ QueryFails(p) \/ Refused(p) \/ StatementFails(p) \/ NotifyEnd(p)
  <2>1. pc[p] # "connecting" /\ \E outcome : Settle(p, outcome)
    BY <1>7 DEF QueryRead, QueryFails, Refused, StatementFails, NotifyEnd, At
  <2>2. UNCHANGED <<kind, scopeOf>>
    BY <1>7 DEF QueryRead, QueryFails, Refused, StatementFails, NotifyEnd, rigid
  <2>3. QED
    BY <1>3, <2>1, <2>2
<1>8. CASE NotifyStart(p)
  <2>1. CASE Realtime
    BY <1>3, <1>8, <2>1 DEF NotifyStart, At, rigid
  <2>2. CASE ~Realtime
    BY <1>2, <1>8, <2>2 DEF NotifyStart, At, Goto, Label, poolVars, rigid
  <2>3. QED
    BY <2>1, <2>2
<1>9. QED
  BY <1>4, <1>5, <1>6, <1>7, <1>8, ConnectKeepsPools DEF CallStep

(* Every step keeps the pools.                                             *)
LEMMA StepKeepsPools ==
  ASSUME TypeInv, PoolInv, [Next]_vars
  PROVE  PoolInv'
<1>1. ASSUME UNCHANGED <<kind, scopeOf, pc, connecting, checkedOut>> PROVE PoolInv'
  BY <1>1 DEF PoolInv, PoolFollowsCalls, Pooled, At
<1>2. CASE UNCHANGED vars
  BY <1>1, <1>2 DEF vars, rigid, callVars, poolVars
<1>3. ASSUME NEW s \in Subscription, SubscriptionStep(s) PROVE PoolInv'
  BY <1>1, <1>3 DEF SubscriptionStep, Subscribe, ChannelJoins, Unsubscribe, RealtimeRow,
                    rigid, callVars, poolVars
<1>4. ASSUME NEW c \in Scope, CloseNotifier(c) PROVE PoolInv'
  BY <1>1, <1>4 DEF CloseNotifier, rigid, callVars, poolVars
<1>5. QED
  BY <1>2, <1>3, <1>4, CallStepKeepsPools DEF Next

(* No way out of query() or append() keeps a client of the pool, append()  *)
(* holds its own until its handlers have settled, and the clients in use   *)
(* never exceed the pool.                                                  *)
THEOREM ClientsAreReleased == Spec => []PoolFollowsCalls
<1>1. Init => TypeInv /\ PoolInv
  BY InitTypes, InitPools
<1>2. TypeInv /\ PoolInv /\ [Next]_vars => (TypeInv /\ PoolInv)'
  BY StepKeepsTypes, StepKeepsPools
<1>3. TypeInv /\ PoolInv => PoolFollowsCalls
  BY DEF PoolInv
<1>4. QED
  BY <1>1, <1>2, <1>3, PTL DEF Spec

-----------------------------------------------------------------------------
(* Layer 3: what a call has in hand.                                       *)

(* A conditional append() carries the query its caller has read with, with *)
(* filters, and the maximum it was told; once a statement has inserted     *)
(* rows, its check has succeeded on the rows it reads.  D1 inserts nothing *)
(* row by row.                                                             *)
InHand(p) ==
  /\ pc[p] # "idle" => result[p] = "none"
  /\ pc[p] \in {"executing", "inserting"} => args[p].batch # <<>>
  /\ At(p, "querying") => args[p].batch = <<>>
  /\ At(p, "inserting") => ~Atomic
  /\ ~args[p].conditional => args[p].expected = 0
  /\ args[p].conditional =>
       /\ args[p].batch # <<>> /\ args[p].query.filters # <<>>
       /\ args[p].query = args[p].basis.query
       /\ args[p].expected = args[p].basis.max
  /\ At(p, "inserting") /\ inserted[p] # <<>> => ContextHolds(p, snapshot[p])

CallInv == \A p \in Proc : InHand(p)

(* A step of one call leaves the others alone.                             *)
LEMMA OthersStay ==
  ASSUME TypeInv, NEW p \in Proc, NEW q \in Proc, q # p, CallStep(q)
  PROVE  /\ pc'[p] = pc[p] /\ result'[p] = result[p] /\ args'[p] = args[p]
         /\ view'[p] = view[p] /\ collected'[p] = collected[p]
         /\ snapshot'[p] = snapshot[p] /\ inserted'[p] = inserted[p]
<1> USE DEF TypeInv, SqlTypeOK
<1>1. CASE QueryCall(q) \/ AppendCall(q)
  BY <1>1 DEF QueryCall, AppendCall, StartCall, Goto, Outcome, stmtVars
<1>2. CASE AppendReturnsEarly(q) \/ InsertRow(q) \/ HandlerSettles(q)
  BY <1>2 DEF AppendReturnsEarly, InsertRow, HandlerSettles, Outcome, callVars, stmtVars
<1>3. CASE Connect(q) \/ ExecuteAtOnce(q) \/ StatementStart(q) \/ Commit(q)
  BY <1>3 DEF Connect, ExecuteAtOnce, StatementStart, Commit, Goto, stmtVars
<1>4. CASE QueryRead(q) \/ QueryFails(q) \/ Refused(q) \/ StatementFails(q) \/ NotifyEnd(q)
  BY <1>4 DEF QueryRead, QueryFails, Refused, StatementFails, NotifyEnd, Settle, Goto,
              Outcome
<1>5. CASE NotifyStart(q)
  BY <1>5 DEF NotifyStart, Settle, Goto, Outcome, stmtVars
<1>6. QED
  BY <1>1, <1>2, <1>3, <1>4, <1>5 DEF CallStep

(* The state of a call is changed by its own steps only.                   *)
LEMMA OwnSteps ==
  ASSUME TypeInv, NEW p \in Proc, [Next]_vars, ~CallStep(p)
  PROVE  /\ pc'[p] = pc[p] /\ result'[p] = result[p] /\ args'[p] = args[p]
         /\ view'[p] = view[p] /\ collected'[p] = collected[p]
         /\ snapshot'[p] = snapshot[p] /\ inserted'[p] = inserted[p]
<1> DEFINE Same == /\ pc'[p] = pc[p] /\ result'[p] = result[p] /\ args'[p] = args[p]
                   /\ view'[p] = view[p] /\ collected'[p] = collected[p]
                   /\ snapshot'[p] = snapshot[p] /\ inserted'[p] = inserted[p]
<1>1. ASSUME NEW q \in Proc, CallStep(q) PROVE Same
  BY <1>1, OthersStay
<1>2. ASSUME UNCHANGED <<callVars, stmtVars>> PROVE Same
  BY <1>2 DEF callVars, stmtVars
<1>3. ASSUME NEW s \in Subscription, SubscriptionStep(s) PROVE Same
  BY <1>2, <1>3 DEF SubscriptionStep, Subscribe, ChannelJoins, Unsubscribe, RealtimeRow
<1>4. QED
  BY <1>1, <1>2, <1>3 DEF Next, CloseNotifier, vars

(* The stores a behaviour is about do not change.                          *)
LEMMA StoresStay ==
  ASSUME [Next]_vars
  PROVE  kind' = kind /\ scopeOf' = scopeOf
<1>1. ASSUME NEW p \in Proc, CallStep(p) PROVE kind' = kind /\ scopeOf' = scopeOf
  BY <1>1 DEF CallStep, QueryCall, AppendCall, AppendReturnsEarly, Connect, QueryRead,
       QueryFails, ExecuteAtOnce, StatementStart, InsertRow, Commit, Refused,
       StatementFails, NotifyStart, HandlerSettles, NotifyEnd, rigid
<1>2. ASSUME NEW s \in Subscription, SubscriptionStep(s)
      PROVE  kind' = kind /\ scopeOf' = scopeOf
  BY <1>2 DEF SubscriptionStep, Subscribe, ChannelJoins, Unsubscribe, RealtimeRow, rigid
<1>3. QED
  BY <1>1, <1>2 DEF Next, CloseNotifier, vars, rigid

(* What a call has in hand stays while nobody touches it.                  *)
LEMMA UntouchedInHand ==
  ASSUME NEW p \in Proc, InHand(p), UNCHANGED <<kind, scopeOf>>,
         pc'[p] = pc[p], result'[p] = result[p], args'[p] = args[p],
         snapshot'[p] = snapshot[p], inserted'[p] = inserted[p]
  PROVE  InHand(p)'
<1>1. ContextHolds(p, snapshot[p])' = ContextHolds(p, snapshot[p])
  BY DEF ContextHolds, ContextMax, Where, Pooled
<1>2. Atomic' = Atomic
  BY DEF Atomic
<1>3. QED
  BY <1>1, <1>2 DEF InHand, At

(* Nothing is in hand before a call and after it.                          *)
LEMMA IdleInHand ==
  ASSUME NEW p \in Proc, pc[p] = "idle", args[p] = NoArgs
  PROVE  InHand(p)
BY DEF InHand, NoArgs, At

(* The calls keep what they have in hand.                                  *)
LEMMA CallStepInHand ==
  ASSUME TypeInv, NEW p \in Proc, InHand(p), CallStep(p), UNCHANGED <<kind, scopeOf>>
  PROVE  InHand(p)'
<1> USE DEF TypeInv, SqlTypeOK
<1>1. CASE QueryCall(p)
  BY <1>1 DEF QueryCall, StartCall, Goto, Outcome, InHand, NoArgs, At
<1>2. CASE AppendCall(p)
  <2>1. PICK b \in Batch \ {<<>>}, conditional \in BOOLEAN :
          /\ conditional => view[p].query.filters # <<>>
          /\ StartCall(p, "executing", AppendArgs(p, b, conditional))
    BY <1>2 DEF AppendCall
  <2>2. /\ args'[p] = AppendArgs(p, b, conditional)
        /\ result'[p] = "none" /\ pc'[p] \in {"connecting", "executing"}
    BY <2>1 DEF StartCall, Goto, Outcome
  <2>3. QED
    BY <2>1, <2>2 DEF InHand, AppendArgs, At
<1>3. CASE AppendReturnsEarly(p)
  <2>1. pc[p] = "idle" /\ pc'[p] = "idle" /\ args'[p] = args[p]
    BY <1>3 DEF AppendReturnsEarly, At
  <2>2. QED
    BY <2>1 DEF InHand, At
<1>4. CASE Connect(p)
  BY <1>4 DEF Connect, Goto, InHand, At
<1>5. CASE QueryRead(p) \/ QueryFails(p) \/ Refused(p) \/ StatementFails(p) \/ NotifyEnd(p)
  <2>1. pc'[p] = "idle" /\ args'[p] = NoArgs
    BY <1>5 DEF QueryRead, QueryFails, Refused, StatementFails, NotifyEnd, Settle, Goto
  <2>2. QED
    BY <2>1 DEF InHand, NoArgs, At
<1>6. CASE StatementStart(p) \/ ExecuteAtOnce(p) \/ Commit(p)
  <2>1. args'[p] = args[p] /\ result'[p] = result[p]
    BY <1>6 DEF StatementStart, ExecuteAtOnce, Commit
  <2>2. CASE StatementStart(p)
    <3>1. /\ pc'[p] = "inserting" /\ inserted'[p] = <<>>
          /\ pc[p] = "executing" /\ ~Atomic'
      BY <2>2 DEF StatementStart, Goto, At, Atomic
    <3>2. QED
      BY <2>1, <3>1 DEF InHand, At
  <2>3. CASE ExecuteAtOnce(p) \/ Commit(p)
    <3>1. pc'[p] = "committed" /\ pc[p] # "idle"
      BY <2>3 DEF ExecuteAtOnce, Commit, Goto, At
    <3>2. QED
      BY <2>1, <3>1 DEF InHand, At
  <2>4. QED
    BY <1>6, <2>2, <2>3
<1>7. CASE InsertRow(p)
  <2>1. ContextHolds(p, snapshot[p]) /\ UNCHANGED <<pc, result, args, snapshot>>
    BY <1>7 DEF InsertRow, callVars
  <2>2. ContextHolds(p, snapshot[p])'
    BY <2>1 DEF ContextHolds, ContextMax, Where, Pooled
  <2>3. Atomic' = Atomic
    BY DEF Atomic
  <2>4. QED
    BY <2>1, <2>2, <2>3 DEF InHand, At
<1>8. CASE HandlerSettles(p)
  BY <1>8, UntouchedInHand DEF HandlerSettles, callVars, stmtVars
<1>9. CASE NotifyStart(p)
  <2>1. CASE Realtime
    <3>1. pc'[p] = "idle" /\ args'[p] = NoArgs
      BY <1>9, <2>1 DEF NotifyStart, Settle, Goto
    <3>2. QED
      BY <3>1 DEF InHand, NoArgs, At
  <2>2. CASE ~Realtime
    BY <1>9, <2>2 DEF NotifyStart, Goto, InHand, At
  <2>3. QED
    BY <2>1, <2>2
<1>10. QED
  BY <1>1, <1>2, <1>3, <1>4, <1>5, <1>6, <1>7, <1>8, <1>9 DEF CallStep

(* Every step keeps what the calls have in hand.                           *)
LEMMA StepKeepsCalls ==
  ASSUME TypeInv, CallInv, [Next]_vars
  PROVE  CallInv'
<1>1. kind' = kind /\ scopeOf' = scopeOf
  BY StoresStay
<1>2. ASSUME UNCHANGED <<callVars, stmtVars>> PROVE CallInv'
  BY <1>1, <1>2, UntouchedInHand DEF CallInv, callVars, stmtVars
<1>3. ASSUME NEW q \in Proc, CallStep(q) PROVE CallInv'
  <2>1. ASSUME NEW p \in Proc PROVE InHand(p)'
    BY <1>1, <1>3, CallStepInHand, OthersStay, UntouchedInHand DEF CallInv
  <2>2. QED
    BY <2>1 DEF CallInv
<1>4. ASSUME NEW s \in Subscription, SubscriptionStep(s) PROVE CallInv'
  BY <1>2, <1>4 DEF SubscriptionStep, Subscribe, ChannelJoins, Unsubscribe, RealtimeRow
<1>5. QED
  BY <1>2, <1>3, <1>4 DEF Next, CloseNotifier, vars

-----------------------------------------------------------------------------
(* Layer 4: what the callers know.                                         *)

(* The filters of a query, as the in-memory store combines them.           *)
LEMMA FiltersMean ==
  ASSUME NEW q \in SqlQuery, NEW r
  PROVE  q.filters = <<>> \/ SomeFilterMatches(q.filters, r)
           <=> (Meaning(q).types # {} => r.eventType \in Meaning(q).types)
<1> DEFINE filters == q.filters
           types == Meaning(q).types
<1>1. filters \in Seq(Filter)
  BY DEF SqlQuery
<1>2. filters = <<>> <=> DOMAIN filters = {}
  BY <1>1, EmptySeq, LenProperties
<1>3. CASE \E i \in DOMAIN filters : filters[i] = {}
  <2>1. types = {}
    BY <1>3 DEF Meaning
  <2>2. SomeFilterMatches(filters, r)
    BY <1>3 DEF SomeFilterMatches, FilterMatches
  <2>3. QED
    BY <2>1, <2>2
<1>4. CASE ~ \E i \in DOMAIN filters : filters[i] = {}
  <2>1. types = UNION {filters[i] : i \in DOMAIN filters}
    BY <1>4 DEF Meaning
  <2>2. SomeFilterMatches(filters, r) <=> r.eventType \in types
    BY <1>4, <2>1 DEF SomeFilterMatches, FilterMatches
  <2>3. types = {} <=> DOMAIN filters = {}
    BY <1>4, <2>1
  <2>4. QED
    BY <1>2, <2>2, <2>3
<1>5. QED
  BY <1>3, <1>4

(* For the number of filters.                                              *)
LEMMA ZeroOrOne == ASSUME NEW n \in Nat, n <= 1 PROVE n = 0 \/ n = 1
OBVIOUS

(* With one filter at most, the missing parentheses change nothing.        *)
LEMMA OneFilterNeedsNoParentheses ==
  ASSUME NEW q \in SqlQuery, Len(q.filters) <= 1, NEW scope, NEW after, NEW r
  PROVE  PostgresWhere(scope, q.filters, after, r)
           <=> ParenthesisedWhere(scope, q.filters, after, r)
<1> DEFINE filters == q.filters
<1>1. filters \in Seq(Filter) /\ Len(filters) \in Nat /\ DOMAIN filters = 1..Len(filters)
  BY LenProperties DEF SqlQuery
<1>2. CASE Len(filters) = 0
  <2>1. filters = <<>> /\ DOMAIN filters = {}
    BY <1>1, <1>2, EmptySeq
  <2>2. Clauses(filters) = {}
    BY <2>1 DEF Clauses
  <2>3. QED
    BY <2>1, <2>2 DEF PostgresWhere, ParenthesisedWhere
<1>3. CASE Len(filters) = 1
  <2>1. DOMAIN filters = {1} /\ filters # <<>>
    BY <1>1, <1>3, EmptySeq
  <2>2. SomeFilterMatches(filters, r) <=> filters[1] = {} \/ r.eventType \in filters[1]
    BY <2>1 DEF SomeFilterMatches, FilterMatches
  <2>3. CASE filters[1] = {}
    <3>1. Clauses(filters) = {}
      BY <2>1, <2>3 DEF Clauses
    <3>2. QED
      BY <2>1, <2>2, <2>3, <3>1 DEF PostgresWhere, ParenthesisedWhere
  <2>4. CASE filters[1] # {}
    <3>1. Clauses(filters) = {1}
      BY <2>1, <2>4 DEF Clauses
    <3>2. Min(Clauses(filters)) = 1
      BY <3>1 DEF Min
    <3> HIDE DEF filters
    <3>3. PostgresWhere(scope, filters, after, r) <=>
            /\ r.eventType \in filters[1]
            /\ InScope(scope, r) /\ r.sequenceNumber > after
      BY <3>1, <3>2 DEF PostgresWhere
    <3>4. QED
      BY <2>1, <2>2, <2>4, <3>3 DEF ParenthesisedWhere, filters
  <2>5. QED
    BY <2>3, <2>4
<1>4. PICK n \in Nat : n = Len(filters) /\ n <= 1
  BY <1>1
<1>5. n = 0 \/ n = 1
  BY <1>4, ZeroOrOne
<1>6. QED
  BY <1>2, <1>3, <1>4, <1>5

(* The statement of a faithful query selects what the query asks for, from *)
(* any number on.                                                          *)
LEMMA FaithfulSelects ==
  ASSUME NEW q \in SqlQuery, Faithful(q), NEW scope, NEW n \in Nat, NEW r
  PROVE  LET asked == InScope(scope, r) /\ Matches(Meaning([q EXCEPT !.min = n]), r)
         IN  /\ Where(scope, q.filters, n, r) <=> asked
             /\ Where(scope, q.filters, n, r) => PostFilter(q.filters, r)
<1> DEFINE m == [q EXCEPT !.min = n]
<1>1. m \in SqlQuery /\ m.filters = q.filters /\ m.min = n
  BY DEF SqlQuery
<1>2. Meaning(m).min = n
  BY <1>1 DEF Meaning
<1>3. Matches(Meaning(m), r) <=>
        r.sequenceNumber > n /\ (q.filters = <<>> \/ SomeFilterMatches(q.filters, r))
  <2>1. Matches(Meaning(m), r) <=>
          r.sequenceNumber > n /\ (Meaning(m).types # {} => r.eventType \in Meaning(m).types)
    BY <1>2 DEF Matches
  <2>2. QED
    BY <1>1, <2>1, FiltersMean
<1> HIDE DEF m
<1>4. ParenthesisedWhere(scope, q.filters, n, r) <=>
        InScope(scope, r) /\ Matches(Meaning(m), r)
  BY <1>3 DEF ParenthesisedWhere
<1>5. Where(scope, q.filters, n, r) <=> ParenthesisedWhere(scope, q.filters, n, r)
  BY OneFilterNeedsNoParentheses DEF Where, Faithful
<1>6. Atomic => q.filters # <<>>
  BY DEF Faithful
<1>7. ParenthesisedWhere(scope, q.filters, n, r) => PostFilter(q.filters, r)
  BY <1>6 DEF ParenthesisedWhere, PostFilter
<1>8. QED
  BY <1>4, <1>5, <1>7 DEF m

(* A query and the check of an append() see what the query asks for.       *)
LEMMA SelectedIsRequested ==
  ASSUME NEW q \in SqlQuery, Faithful(q), NEW scope
  PROVE  Selected(scope, q) = Requested(scope, q, rows)
<1>1. PICK n \in Nat : n = q.min
  BY DEF SqlQuery
<1>2. [q EXCEPT !.min = n] = q
  BY <1>1 DEF SqlQuery
<1>3. ASSUME NEW r \in rows
      PROVE  Where(scope, q.filters, n, r) /\ PostFilter(q.filters, r)
               <=> InScope(scope, r) /\ Matches(Meaning(q), r)
  <2>1. /\ Where(scope, q.filters, n, r) <=>
             InScope(scope, r) /\ Matches(Meaning([q EXCEPT !.min = n]), r)
        /\ Where(scope, q.filters, n, r) => PostFilter(q.filters, r)
    BY FaithfulSelects
  <2>2. Matches(Meaning([q EXCEPT !.min = n]), r) <=> Matches(Meaning(q), r)
    BY <1>2
  <2>3. QED
    BY <2>1, <2>2, Zenon
<1>4. QED
  BY <1>1, <1>3, Zenon DEF Selected, Requested

(* The minimum of a query takes away events and nothing else.              *)
LEMMA MinimumTakesAway ==
  ASSUME NEW q \in SqlQuery, NEW r
  PROVE  LET all == [q EXCEPT !.min = 0]
         IN  Matches(Meaning(q), r) <=> r.sequenceNumber > q.min
                 /\ (Meaning(all).types # {} => r.eventType \in Meaning(all).types)
<1> DEFINE all == [q EXCEPT !.min = 0]
<1>1. all.filters = q.filters
  BY DEF SqlQuery
<1>2. Meaning(all).types = Meaning(q).types /\ Meaning(q).min = q.min
  BY <1>1 DEF Meaning
<1>3. QED
  BY <1>2 DEF Matches

(* Without a minimum only the filters are left.                            *)
LEMMA WithoutMinimum ==
  ASSUME NEW q \in SqlQuery, NEW r
  PROVE  LET all == [q EXCEPT !.min = 0]
         IN  Matches(Meaning(all), r) <=> r.sequenceNumber > 0
                 /\ (Meaning(all).types # {} => r.eventType \in Meaning(all).types)
<1>1. Meaning([q EXCEPT !.min = 0]).min = 0
  BY DEF SqlQuery, Meaning
<1>2. QED
  BY <1>1 DEF Matches

(* The maximum that the statement of an append() compares bounds every     *)
(* event its query asks for, among the rows it reads.                      *)
LEMMA CheckBounds ==
  ASSUME TypeInv, NEW p \in Proc, NEW visible \in SUBSET rows,
         args[p].conditional, Faithful(args[p].query)
  PROVE  /\ ContextMax(p, visible) = Largest(Requested(scopeOf[p],
                                        [args[p].query EXCEPT !.min = 0], visible))
         /\ \A r \in Requested(scopeOf[p], args[p].query, visible) :
              r.sequenceNumber <= ContextMax(p, visible)
<1> DEFINE q == args[p].query
           all == Requested(scopeOf[p], [q EXCEPT !.min = 0], visible)
<1>1. q \in SqlQuery
  BY DEF TypeInv, SqlTypeOK
<1>2. all = {r \in visible : Where(scopeOf[p], q.filters, 0, r)}
  BY <1>1, FaithfulSelects DEF Requested
<1>3. ContextMax(p, visible) = Largest(all)
  BY <1>2 DEF ContextMax
<1>4. /\ lastNumber \in Nat
      /\ \A r \in visible : r.sequenceNumber \in 1..lastNumber
  BY DEF TypeInv, SqlTypeOK, NumbersAreDrawn
<1>5. \A r \in all : r.sequenceNumber \in 1..lastNumber /\ r.sequenceNumber <= Largest(all)
  <2>1. \A r \in all : r.sequenceNumber \in 1..lastNumber
    BY <1>4 DEF Requested
  <2> HIDE DEF all
  <2>2. QED
    BY <1>4, <2>1, LargestBounds
<1>6. Requested(scopeOf[p], q, visible) \subseteq all
  <2> SUFFICES ASSUME NEW r \in Requested(scopeOf[p], q, visible) PROVE r \in all
    OBVIOUS
  <2>1. [q EXCEPT !.min = 0] \in SqlQuery /\ [q EXCEPT !.min = 0].min = 0
        /\ [[q EXCEPT !.min = 0] EXCEPT !.min = 0] = [q EXCEPT !.min = 0]
    BY <1>1 DEF SqlQuery
  <2>2. r \in visible /\ InScope(scopeOf[p], r) /\ Matches(Meaning(q), r)
    BY DEF Requested
  <2>3. r.sequenceNumber > 0
    BY <1>4, <2>2
  <2>4. Matches(Meaning([q EXCEPT !.min = 0]), r)
    BY <1>1, <2>1, <2>2, <2>3, MinimumTakesAway
  <2>5. QED
    BY <2>2, <2>4 DEF Requested
<1>7. QED
  BY <1>3, <1>5, <1>6

(* What the caller has read, when the last number drawn was v.drawn: rows  *)
(* that are still there, and their maximum.  In D1 nothing can turn up     *)
(* later among the numbers drawn before.                                   *)
Known(p, v) ==
  /\ v.events \subseteq rows /\ v.drawn <= lastNumber
  /\ \A r \in v.events : r.sequenceNumber <= v.drawn
  /\ v.max = Largest(v.events)
  /\ Atomic /\ Faithful(v.query) =>
       \A r : r \in v.events <=> /\ r \in Requested(scopeOf[p], v.query, rows)
                                /\ r.sequenceNumber <= v.drawn

KnowledgeInv == \A p \in Proc : Known(p, view[p]) /\ Known(p, args[p].basis)

(* The table only grows, and in D1 only beyond the numbers drawn.          *)
LEMMA RowsGrow ==
  ASSUME TypeInv, CallInv, [Next]_vars
  PROVE  /\ rows \subseteq rows' /\ lastNumber <= lastNumber'
         /\ Atomic => \A r \in rows' \ rows : r.sequenceNumber > lastNumber
<1> DEFINE Grown == /\ rows \subseteq rows' /\ lastNumber <= lastNumber'
                    /\ Atomic => \A r \in rows' \ rows : r.sequenceNumber > lastNumber
<1>1. lastNumber \in Nat
  BY DEF TypeInv, SqlTypeOK
<1>2. ASSUME UNCHANGED tableVars PROVE Grown
  BY <1>1, <1>2 DEF tableVars
<1>3. ASSUME NEW p \in Proc, CallStep(p) PROVE Grown
  <2>1. CASE ExecuteAtOnce(p)
    <3>1. PICK batch \in Seq(EventType) : batch = args[p].batch
      BY DEF TypeInv, SqlTypeOK
    <3>2. PICK records : /\ records = [i \in DOMAIN batch |->
                              [sequenceNumber |-> lastNumber + i, scope |-> scopeOf[p],
                               eventType |-> batch[i]]]
                         /\ rows' = rows \cup {records[i] : i \in DOMAIN records}
                         /\ lastNumber' = lastNumber + Len(records)
      BY <2>1, <3>1 DEF ExecuteAtOnce
    <3>3. DOMAIN batch = 1..Len(batch) /\ Len(batch) \in Nat
      BY <3>1, LenProperties
    <3>4. Len(records) = Len(batch)
      BY <3>2, <3>3
    <3>5. \A i \in DOMAIN records : records[i].sequenceNumber > lastNumber
      BY <1>1, <3>2, <3>3
    <3>6. QED
      BY <1>1, <3>2, <3>3, <3>4, <3>5
  <2>2. CASE InsertRow(p)
    BY <1>1, <2>2 DEF InsertRow
  <2>3. CASE Commit(p)
    <3>1. ~Atomic
      BY <2>3 DEF Commit, CallInv, InHand
    <3>2. QED
      BY <1>1, <2>3, <3>1 DEF Commit
  <2>4. QED
    BY <1>2, <1>3, <2>1, <2>2, <2>3
       DEF CallStep, QueryCall, AppendCall, AppendReturnsEarly, Connect, QueryRead,
           QueryFails, StatementStart, Refused, StatementFails, NotifyStart,
           HandlerSettles, NotifyEnd
<1>4. QED
  BY <1>2, <1>3 DEF Next, SubscriptionStep, Subscribe, ChannelJoins, Unsubscribe,
                    RealtimeRow, CloseNotifier, vars

(* What a caller knows stays true.                                         *)
LEMMA KnownStays ==
  ASSUME TypeInv, CallInv, [Next]_vars, NEW p \in Proc, NEW v \in View, Known(p, v)
  PROVE  Known(p, v)'
<1>1. /\ rows \subseteq rows' /\ lastNumber <= lastNumber'
      /\ Atomic => \A r \in rows' \ rows : r.sequenceNumber > lastNumber
  BY RowsGrow
<1>2. kind' = kind /\ scopeOf' = scopeOf
  BY StoresStay
<1>3. /\ lastNumber \in Nat /\ lastNumber' \in Nat /\ v.drawn \in Nat
      /\ \A r \in rows' : r.sequenceNumber \in Nat
  <2>1. lastNumber \in Nat /\ v.drawn \in Nat
    BY DEF TypeInv, SqlTypeOK, View
  <2>2. TypeInv'
    BY StepKeepsTypes
  <2>3. lastNumber' \in Nat /\ \A r \in rows' : r.sequenceNumber \in 1..lastNumber'
    BY <2>2 DEF TypeInv, SqlTypeOK, NumbersAreDrawn
  <2>4. QED
    BY <2>1, <2>3
<1>4. v.events \subseteq rows' /\ v.drawn <= lastNumber'
  BY <1>1, <1>3 DEF Known
<1>5. ASSUME Atomic, Faithful(v.query), NEW r
      PROVE  r \in v.events <=> /\ r \in Requested(scopeOf[p], v.query, rows')
                               /\ r.sequenceNumber <= v.drawn
  <2>1. r \in v.events <=> /\ r \in Requested(scopeOf[p], v.query, rows)
                          /\ r.sequenceNumber <= v.drawn
    BY <1>5 DEF Known
  <2>2. r \in rows' \ rows => ~(r.sequenceNumber <= v.drawn)
    BY <1>1, <1>3, <1>5 DEF Known
  <2>3. r \in rows /\ r \in Requested(scopeOf[p], v.query, rows')
          <=> r \in Requested(scopeOf[p], v.query, rows)
    BY <1>1 DEF Requested
  <2>4. r \in Requested(scopeOf[p], v.query, rows') => r \in rows'
    BY DEF Requested
  <2>5. QED
    BY <2>1, <2>2, <2>3, <2>4
<1>6. Atomic' = Atomic /\ Faithful(v.query)' = Faithful(v.query)
  BY <1>2 DEF Atomic, Faithful, Pooled
<1>7. QED
  BY <1>2, <1>4, <1>5, <1>6 DEF Known

(* Who has read nothing knows nothing.                                     *)
LEMMA NothingIsKnown ==
  ASSUME TypeInv, NEW p \in Proc
  PROVE  Known(p, NoView)
<1>1. Largest({}) = 0 /\ lastNumber \in Nat
  BY DEF Largest, TypeInv, SqlTypeOK
<1>2. ~(Atomic /\ Faithful(NoQuery))
  BY DEF Faithful, NoQuery
<1>3. QED
  BY <1>1, <1>2 DEF Known, NoView

(* A SELECT makes its caller know what it has selected.                    *)
LEMMA ReadingIsKnowing ==
  ASSUME TypeInv, NEW p \in Proc, NEW q \in SqlQuery, NEW v,
         v = [query |-> q, events |-> Selected(scopeOf[p], q),
              max |-> Largest(Selected(scopeOf[p], q)), drawn |-> lastNumber]
  PROVE  Known(p, v)
<1>1. /\ lastNumber \in Nat
      /\ \A r \in rows : r.sequenceNumber \in 1..lastNumber
  BY DEF TypeInv, SqlTypeOK, NumbersAreDrawn
<1>2. v.events \subseteq rows /\ v.max = Largest(v.events) /\ v.drawn = lastNumber
  BY DEF Selected
<1>3. ASSUME Faithful(q), NEW r
      PROVE  r \in v.events <=> /\ r \in Requested(scopeOf[p], q, rows)
                               /\ r.sequenceNumber <= v.drawn
  <2>1. v.events = Requested(scopeOf[p], q, rows)
    BY <1>3, SelectedIsRequested
  <2>2. r \in Requested(scopeOf[p], q, rows) => r.sequenceNumber <= v.drawn
    BY <1>1, <1>2 DEF Requested
  <2>3. QED
    BY <2>1, <2>2
<1>4. QED
  BY <1>1, <1>2, <1>3 DEF Known

(* What a call can change of its caller's knowledge.                       *)
LEMMA KnowledgeChanges ==
  ASSUME TypeInv, NEW p \in Proc, CallStep(p)
  PROVE  /\ \/ view'[p] = view[p]
            \/ \E q \in SqlQuery : view'[p] =
                 [query |-> q, events |-> Selected(scopeOf[p], q),
                  max |-> Largest(Selected(scopeOf[p], q)), drawn |-> lastNumber]
         /\ args'[p].basis \in {args[p].basis, view[p], NoView}
<1> USE DEF TypeInv, SqlTypeOK
<1>1. CASE QueryCall(p)
  <2>1. PICK q : StartCall(p, "querying", [NoArgs EXCEPT !.query = q])
    BY <1>1 DEF QueryCall
  <2>2. args'[p] = [NoArgs EXCEPT !.query = q]
    BY <2>1 DEF StartCall
  <2>3. args'[p].basis = NoView
    BY <2>2 DEF NoArgs
  <2>4. QED
    BY <1>1, <2>3 DEF QueryCall
<1>2. CASE AppendCall(p)
  BY <1>2 DEF AppendCall, StartCall, AppendArgs
<1>3. CASE QueryRead(p) \/ QueryFails(p) \/ Refused(p) \/ StatementFails(p) \/ NotifyEnd(p)
  <2>1. args'[p].basis = NoView
    BY <1>3 DEF QueryRead, QueryFails, Refused, StatementFails, NotifyEnd, Settle, NoArgs
  <2>2. CASE QueryRead(p)
    <3>1. args[p].query \in SqlQuery
      OBVIOUS
    <3>2. view'[p] = [query |-> args[p].query,
                      events |-> Selected(scopeOf[p], args[p].query),
                      max |-> Largest(Selected(scopeOf[p], args[p].query)),
                      drawn |-> lastNumber]
      BY <2>2 DEF QueryRead
    <3>3. QED
      BY <2>1, <3>1, <3>2
  <2>3. CASE ~QueryRead(p)
    BY <1>3, <2>1, <2>3 DEF QueryFails, Refused, StatementFails, NotifyEnd
  <2>4. QED
    BY <2>2, <2>3
<1>4. CASE AppendReturnsEarly(p) \/ Connect(p) \/ ExecuteAtOnce(p) \/ StatementStart(p)
           \/ InsertRow(p) \/ Commit(p) \/ HandlerSettles(p)
  BY <1>4 DEF AppendReturnsEarly, Connect, ExecuteAtOnce, StatementStart, InsertRow,
              Commit, HandlerSettles, callVars
<1>5. CASE NotifyStart(p)
  <2>1. view'[p] = view[p]
    BY <1>5 DEF NotifyStart
  <2>2. args'[p].basis \in {args[p].basis, NoView}
    BY <1>5 DEF NotifyStart, Settle, NoArgs
  <2>3. QED
    BY <2>1, <2>2
<1>6. QED
  BY <1>1, <1>2, <1>3, <1>4, <1>5 DEF CallStep

(* Every step keeps what the callers know.                                 *)
LEMMA StepKeepsKnowledge ==
  ASSUME TypeInv, CallInv, KnowledgeInv, [Next]_vars
  PROVE  KnowledgeInv'
<1>1. SUFFICES ASSUME NEW p \in Proc
               PROVE  Known(p, view[p])' /\ Known(p, args[p].basis)'
  BY DEF KnowledgeInv
<1>2. PICK old \in View : old = view[p]
  BY DEF TypeInv, SqlTypeOK
<1>3. PICK basis \in View : basis = args[p].basis
  BY DEF TypeInv, SqlTypeOK
<1>4. Known(p, old) /\ Known(p, basis) /\ Known(p, NoView)
  BY <1>2, <1>3, NothingIsKnown DEF KnowledgeInv
<1>5. Known(p, old)' /\ Known(p, basis)' /\ Known(p, NoView)'
  BY <1>4, KnownStays, TypesOfNothing
<1>6. CASE CallStep(p)
  <2>1. Known(p, args[p].basis)'
    <3>1. args'[p].basis \in {basis, old, NoView}
      BY <1>2, <1>3, <1>6, KnowledgeChanges
    <3>2. QED
      BY <1>5, <3>1
  <2>2. CASE view'[p] = view[p]
    BY <1>2, <1>5, <2>1, <2>2 DEF Known
  <2>3. CASE view'[p] # view[p]
    <3>1. PICK q \in SqlQuery : view'[p] =
                 [query |-> q, events |-> Selected(scopeOf[p], q),
                  max |-> Largest(Selected(scopeOf[p], q)), drawn |-> lastNumber]
      BY <1>6, <2>3, KnowledgeChanges
    <3>2. PICK new \in View : new = view'[p]
      BY StepKeepsTypes DEF TypeInv, SqlTypeOK
    <3>3. Known(p, new)
      BY <3>1, <3>2, ReadingIsKnowing
    <3>4. Known(p, new)'
      BY <3>3, KnownStays
    <3>5. QED
      BY <2>1, <3>2, <3>4 DEF Known
  <2>4. QED
    BY <2>1, <2>2, <2>3
<1>7. CASE ~CallStep(p)
  <2>1. view'[p] = view[p] /\ args'[p] = args[p]
    BY <1>7, OwnSteps
  <2>2. QED
    BY <1>2, <1>3, <1>5, <2>1
<1>8. QED
  BY <1>6, <1>7

-----------------------------------------------------------------------------
(* What follows for the answers, the appends and the refusals.             *)

SqlInv == TypeInv /\ CallInv /\ KnowledgeInv

(* The invariant holds initially and every step keeps it.                  *)
LEMMA SqlInvariant == (Init => SqlInv) /\ (SqlInv /\ [Next]_vars => SqlInv')
<1>1. ASSUME Init PROVE SqlInv
  <2>1. TypeInv
    BY <1>1, InitTypes
  <2>2. \A p \in Proc : pc[p] = "idle" /\ args[p] = NoArgs /\ view[p] = NoView
    BY <1>1 DEF Init
  <2>3. CallInv
    BY <2>2, IdleInHand DEF CallInv
  <2>4. \A p \in Proc : Known(p, NoView)
    BY <2>1, NothingIsKnown
  <2>5. \A p \in Proc : args[p].basis = NoView
    BY <2>2 DEF NoArgs
  <2>6. QED
    BY <2>1, <2>2, <2>3, <2>4, <2>5 DEF SqlInv, KnowledgeInv
<1>2. ASSUME SqlInv, [Next]_vars PROVE SqlInv'
  BY <1>2, StepKeepsTypes, StepKeepsCalls, StepKeepsKnowledge DEF SqlInv
<1>3. QED
  BY <1>1, <1>2

(* A faithful query answers with the committed events of its scope that    *)
(* its filters and its minimum ask for, and with no others: the SQL the    *)
(* stores compile and D1's second filter agree with processQuery.          *)
THEOREM QueriesAreAnswered == Spec => AnswersMatchTheQuery
<1>1. SqlInv /\ Next =>
        \A p \in Proc :
          At(p, "querying") /\ result'[p] = "resolved" /\ Faithful(args[p].query) =>
            view'[p].events = Requested(scopeOf[p], args[p].query, rows)
  <2> SUFFICES ASSUME SqlInv, Next, NEW p \in Proc, At(p, "querying"),
                      result'[p] = "resolved", Faithful(args[p].query)
               PROVE  view'[p].events = Requested(scopeOf[p], args[p].query, rows)
    OBVIOUS
  <2> USE DEF SqlInv
  <2>1. result[p] = "none" /\ args[p].query \in SqlQuery
    BY DEF CallInv, InHand, At, TypeInv, SqlTypeOK
  <2>2. CallStep(p)
    BY <2>1, OwnSteps
  <2>3. QueryRead(p)
    <3>1. ~(QueryCall(p) \/ AppendCall(p) \/ AppendReturnsEarly(p) \/ Connect(p)
            \/ ExecuteAtOnce(p) \/ StatementStart(p) \/ InsertRow(p) \/ Commit(p)
            \/ NotifyStart(p) \/ NotifyEnd(p) \/ Refused(p) \/ StatementFails(p))
      BY DEF At, QueryCall, AppendCall, StartCall, AppendReturnsEarly, Connect,
             ExecuteAtOnce, StatementStart, InsertRow, Commit, NotifyStart, NotifyEnd,
             Refused, StatementFails
    <3>2. ~HandlerSettles(p)
      BY <2>1 DEF HandlerSettles, callVars
    <3>3. ~QueryFails(p)
      BY DEF QueryFails, Settle, Outcome, TypeInv, SqlTypeOK
    <3>4. QED
      BY <2>2, <3>1, <3>2, <3>3 DEF CallStep
  <2>4. view'[p].events = Selected(scopeOf[p], args[p].query)
    BY <2>3 DEF QueryRead, TypeInv, SqlTypeOK
  <2>5. QED
    BY <2>1, <2>4, SelectedIsRequested
<1>2. SqlInv /\ [Next]_vars =>
        [\A p \in Proc :
          At(p, "querying") /\ result'[p] = "resolved" /\ Faithful(args[p].query) =>
            view'[p].events = Requested(scopeOf[p], args[p].query, rows)]_vars
  BY <1>1
<1>3. QED
  BY <1>2, SqlInvariant, PTL DEF Spec, AnswersMatchTheQuery

(* The rows the check of an append() reads.                                *)
Checked(p) == IF Atomic THEN rows ELSE snapshot[p]

(* When an append() takes effect, its check has held on the rows it read.  *)
LEMMA EffectsAreChecked ==
  ASSUME SqlInv, Next, NEW p \in Proc, TakesEffect(p)
  PROVE  ContextHolds(p, Checked(p))
<1> USE DEF SqlInv
<1>1. CallStep(p)
  BY OwnSteps DEF TakesEffect, At
<1>2. CASE ExecuteAtOnce(p)
  BY <1>2 DEF ExecuteAtOnce, Checked
<1>3. CASE Commit(p)
  <2>1. At(p, "inserting") /\ Len(inserted[p]) = Len(args[p].batch)
    BY <1>3 DEF Commit
  <2>2. args[p].batch # <<>> /\ ~Atomic
    BY <2>1 DEF CallInv, InHand, At
  <2>3. args[p].batch \in Seq(EventType) /\ inserted[p] \in Seq(Row)
    BY DEF TypeInv, SqlTypeOK
  <2>4. inserted[p] # <<>>
    BY <2>1, <2>2, <2>3, EmptySeq
  <2>5. QED
    BY <2>1, <2>2, <2>4 DEF CallInv, InHand, Checked
<1>4. CASE ~(ExecuteAtOnce(p) \/ Commit(p))
  <2>1. pc \in [Proc -> Label] /\ pc'[p] = "committed" /\ pc[p] # "committed"
    BY DEF TypeInv, SqlTypeOK, TakesEffect, At
  <2>2. ~(QueryCall(p) \/ AppendCall(p) \/ AppendReturnsEarly(p) \/ Connect(p)
          \/ StatementStart(p) \/ InsertRow(p) \/ HandlerSettles(p))
    BY <2>1 DEF QueryCall, AppendCall, StartCall, AppendReturnsEarly, Connect,
                StatementStart, InsertRow, HandlerSettles, Goto, callVars
  <2>3. ~(QueryRead(p) \/ QueryFails(p) \/ Refused(p) \/ StatementFails(p)
          \/ NotifyEnd(p) \/ NotifyStart(p))
    BY <2>1 DEF QueryRead, QueryFails, Refused, StatementFails, NotifyEnd, NotifyStart,
                Settle, Goto
  <2>4. QED
    BY <1>1, <1>4, <2>2, <2>3 DEF CallStep
<1>5. QED
  BY <1>2, <1>3, <1>4

(* What the statement of an append() reads is in the table.                *)
LEMMA CheckedRows ==
  ASSUME TypeInv, NEW p \in Proc
  PROVE  Checked(p) \in SUBSET rows
BY DEF TypeInv, NumbersAreDrawn, Checked

(* The maximum a caller was told is not larger than the last number drawn  *)
(* when it was told.                                                       *)
LEMMA KnownMaximum ==
  ASSUME TypeInv, NEW p \in Proc, NEW v \in View, Known(p, v)
  PROVE  /\ v.drawn \in Nat /\ v.max = Largest(v.events) /\ v.max \in 0..v.drawn
         /\ \A r \in v.events : r.sequenceNumber \in 1..v.drawn
<1>1. v.drawn \in Nat
  BY DEF View
<1>2. /\ v.events \subseteq rows /\ v.max = Largest(v.events)
      /\ \A r \in v.events : r.sequenceNumber <= v.drawn
  BY DEF Known
<1>3. \A r \in v.events : r.sequenceNumber \in 1..lastNumber
  BY <1>2 DEF TypeInv, NumbersAreDrawn
<1>4. lastNumber \in Nat
  BY DEF TypeInv, SqlTypeOK
<1>5. \A r \in v.events : r.sequenceNumber \in 1..v.drawn
  BY <1>1, <1>2, <1>3, <1>4
<1>6. v.max \in 0..v.drawn
  BY <1>1, <1>2, <1>5, LargestBounds
<1>7. QED
  BY <1>1, <1>2, <1>5, <1>6

(* The same of what an append() was decided on.                            *)
LEMMA ToldMaximum ==
  ASSUME SqlInv, NEW p \in Proc
  PROVE  /\ args[p].basis.drawn \in Nat
         /\ args[p].basis.max = Largest(args[p].basis.events)
         /\ args[p].basis.max \in 0..args[p].basis.drawn
<1>1. PICK b \in View : b = args[p].basis
  BY DEF SqlInv, TypeInv, SqlTypeOK
<1>2. TypeInv /\ Known(p, b)
  BY <1>1 DEF SqlInv, KnowledgeInv
<1>3. QED
  BY <1>1, <1>2, KnownMaximum

(* An append() that takes effect was decided on numbers no smaller than    *)
(* those of the events its query asks for, among the rows it has checked.  *)
LEMMA EffectsAreBounded ==
  ASSUME SqlInv, Next, NEW p \in Proc, TakesEffect(p), args[p].conditional,
         Faithful(args[p].query)
  PROVE  \A r \in Requested(scopeOf[p], args[p].query, Checked(p)) :
           r.sequenceNumber <= args[p].basis.drawn
<1>1. PICK visible \in SUBSET rows : visible = Checked(p)
  BY CheckedRows DEF SqlInv
<1>2. ContextMax(p, visible) = args[p].expected
  BY <1>1, EffectsAreChecked DEF ContextHolds
<1>3. args[p].expected = args[p].basis.max
  BY DEF SqlInv, CallInv, InHand
<1>4. \A r \in Requested(scopeOf[p], args[p].query, visible) :
        r.sequenceNumber <= ContextMax(p, visible)
  BY CheckBounds DEF SqlInv
<1>5. \A r \in visible : r.sequenceNumber \in Nat
  BY DEF SqlInv, TypeInv, SqlTypeOK, Row
<1>6. args[p].basis.drawn \in Nat /\ args[p].basis.max \in 0..args[p].basis.drawn
  BY ToldMaximum
<1>7. \A r \in Requested(scopeOf[p], args[p].query, visible) : r \in visible
  BY DEF Requested
<1>8. QED
  BY <1>1, <1>2, <1>3, <1>4, <1>5, <1>6, <1>7

(* In every store, an append() never takes effect over a conflicting event *)
(* that was committed before its statement began and numbered after its    *)
(* query.                                                                  *)
THEOREM ConflictsSeenAreRefused == Spec => LaterConflictsAreRefused
<1>1. SqlInv /\ Next =>
        \A p \in Proc :
          TakesEffect(p) /\ args[p].conditional /\ Faithful(args[p].query) =>
            \A r \in Requested(scopeOf[p], args[p].query,
                               IF Atomic THEN rows ELSE snapshot[p]) :
              r.sequenceNumber <= args[p].basis.drawn
  BY EffectsAreBounded DEF Checked
<1>2. SqlInv /\ [Next]_vars =>
        [\A p \in Proc :
          TakesEffect(p) /\ args[p].conditional /\ Faithful(args[p].query) =>
            \A r \in Requested(scopeOf[p], args[p].query,
                               IF Atomic THEN rows ELSE snapshot[p]) :
              r.sequenceNumber <= args[p].basis.drawn]_vars
  BY <1>1
<1>3. QED
  BY <1>2, SqlInvariant, PTL DEF Spec, LaterConflictsAreRefused

(* D1's single statement keeps the promise of the conditional append(): it *)
(* takes effect only while the events of its query are those the decision  *)
(* was made on.                                                            *)
THEOREM D1KeepsThePromise == Spec => DecisionIsCurrentInD1
<1>1. SqlInv /\ Next => \A p \in Proc : Atomic /\ TakesEffect(p) => DecisionHolds(p)
  <2> SUFFICES ASSUME SqlInv, Next, NEW p \in Proc, Atomic, TakesEffect(p),
                      args[p].conditional, Faithful(args[p].query)
               PROVE  Requested(scopeOf[p], args[p].basis.query, rows)
                        = args[p].basis.events
    BY DEF DecisionHolds
  <2>1. args[p].query = args[p].basis.query
    BY DEF SqlInv, CallInv, InHand
  <2>2. \A r \in Requested(scopeOf[p], args[p].query, rows) :
          r.sequenceNumber <= args[p].basis.drawn
    BY EffectsAreBounded DEF Checked
  <2>3. Known(p, args[p].basis)
    BY DEF SqlInv, KnowledgeInv
  <2>4. \A r : r \in args[p].basis.events <=>
                 /\ r \in Requested(scopeOf[p], args[p].query, rows)
                 /\ r.sequenceNumber <= args[p].basis.drawn
    BY <2>1, <2>3 DEF Known
  <2>5. QED
    BY <2>1, <2>2, <2>4
<1>2. SqlInv /\ [Next]_vars =>
        [\A p \in Proc : Atomic /\ TakesEffect(p) => DecisionHolds(p)]_vars
  BY <1>1
<1>3. QED
  BY <1>2, SqlInvariant, PTL DEF Spec, DecisionIsCurrentInD1

(* A call is refused only when its check fails.                            *)
LEMMA RefusalsAreChecked ==
  ASSUME SqlInv, Next, NEW p \in Proc, result'[p] = "refused", ~At(p, "idle")
  PROVE  ~ContextHolds(p, Checked(p))
<1> USE DEF SqlInv
<1>1. result[p] = "none" /\ result \in [Proc -> {"none", "resolved", "refused", "failed"}]
  BY DEF CallInv, InHand, At, TypeInv, SqlTypeOK
<1>2. CallStep(p)
  BY <1>1, OwnSteps
<1>3. CASE Refused(p)
  <2>1. At(p, "inserting") => ~Atomic
    BY DEF CallInv, InHand
  <2>2. QED
    BY <1>3, <2>1 DEF Refused, Checked
<1>4. CASE ~Refused(p)
  <2>1. ~(QueryCall(p) \/ AppendCall(p) \/ AppendReturnsEarly(p))
    BY DEF QueryCall, AppendCall, StartCall, AppendReturnsEarly
  <2>2. ~(QueryRead(p) \/ QueryFails(p) \/ StatementFails(p) \/ NotifyEnd(p)
          \/ NotifyStart(p))
    BY <1>1 DEF QueryRead, QueryFails, StatementFails, NotifyEnd, NotifyStart, Settle,
                Outcome
  <2>3. ~(Connect(p) \/ ExecuteAtOnce(p) \/ StatementStart(p) \/ InsertRow(p)
          \/ Commit(p) \/ HandlerSettles(p))
    BY <1>1 DEF Connect, ExecuteAtOnce, StatementStart, InsertRow, Commit,
                HandlerSettles, callVars
  <2>4. QED
    BY <1>2, <1>4, <2>1, <2>2, <2>3 DEF CallStep
<1>5. QED
  BY <1>3, <1>4

(* The largest of the numbers beyond a minimum is the largest of all.      *)
LEMMA LargestBeyond ==
  ASSUME NEW n \in Nat, NEW all, \A r \in all : r.sequenceNumber \in 1..n,
         NEW m \in Nat, NEW some, some # {},
         \A r : r \in some <=> r \in all /\ r.sequenceNumber > m
  PROVE  Largest(all) = Largest(some)
<1>1. /\ Largest(all) \in 0..n /\ \A r \in all : r.sequenceNumber <= Largest(all)
      /\ all # {} => \E r \in all : Largest(all) = r.sequenceNumber
  BY LargestBounds
<1>2. \A r \in some : r.sequenceNumber \in 1..n
  OBVIOUS
<1>3. /\ Largest(some) \in 0..n /\ \A r \in some : r.sequenceNumber <= Largest(some)
      /\ \E r \in some : Largest(some) = r.sequenceNumber
  BY <1>2, LargestBounds
<1>4. PICK s \in some : Largest(some) = s.sequenceNumber
  BY <1>3
<1>5. PICK a \in all : Largest(all) = a.sequenceNumber
  BY <1>1
<1>6. s.sequenceNumber <= a.sequenceNumber /\ s.sequenceNumber > m
  BY <1>1, <1>4, <1>5
<1>7. a \in some
  BY <1>5, <1>6
<1>8. a.sequenceNumber <= s.sequenceNumber
  BY <1>3, <1>4, <1>7
<1>9. QED
  BY <1>4, <1>5, <1>6, <1>8

(* A refusal is justified: the events the caller decided on are no longer  *)
(* those its query would give among the rows the statement reads, whatever *)
(* other tenants append.                                                   *)
THEOREM NobodyIsRefusedWithoutCause == Spec => RefusalsAreJustified
<1> DEFINE Justified(p) ==
      LET basis == args[p].basis
      IN  /\ result'[p] = "refused" /\ ~At(p, "idle")
          /\ Faithful(args[p].query)
          /\ basis.query.min = 0 \/ basis.events # {}
          => Requested(scopeOf[p], basis.query, IF Atomic THEN rows ELSE snapshot[p])
               # basis.events
<1>1. SqlInv /\ Next => \A p \in Proc : Justified(p)
  <2> SUFFICES ASSUME SqlInv, Next, NEW p \in Proc, NEW basis \in View,
                      basis = args[p].basis, result'[p] = "refused", ~At(p, "idle"),
                      Faithful(args[p].query), basis.query.min = 0 \/ basis.events # {},
                      NEW visible \in SUBSET rows, visible = Checked(p),
                      Requested(scopeOf[p], basis.query, visible) = basis.events
               PROVE  FALSE
    BY CheckedRows DEF Checked, SqlInv, TypeInv, SqlTypeOK
  <2>1. ContextMax(p, visible) # args[p].expected
    BY RefusalsAreChecked DEF ContextHolds
  <2>2. args[p].conditional
    BY <2>1 DEF SqlInv, CallInv, InHand, ContextMax
  <2>3. args[p].query = basis.query /\ args[p].expected = basis.max
    BY <2>2 DEF SqlInv, CallInv, InHand
  <2> DEFINE q   == basis.query
             q0  == [q EXCEPT !.min = 0]
             all == Requested(scopeOf[p], q0, visible)
  <2>4. /\ q \in SqlQuery /\ q0 \in SqlQuery /\ q0.min = 0 /\ [q0 EXCEPT !.min = 0] = q0
        /\ q.min \in Nat /\ (q.min = 0 => q0 = q)
    BY DEF View, SqlQuery
  <2>5. ContextMax(p, visible) = Largest(all)
    BY <2>2, <2>3, CheckBounds DEF SqlInv
  <2>6. basis.max = Largest(basis.events)
    BY ToldMaximum
  <2>7. CASE q.min = 0
    BY <2>1, <2>3, <2>4, <2>5, <2>6, <2>7
  <2>8. CASE basis.events # {}
    <3>1. lastNumber \in Nat /\ \A r \in visible : r.sequenceNumber \in 1..lastNumber
      BY DEF SqlInv, TypeInv, SqlTypeOK, NumbersAreDrawn
    <3>2. ASSUME NEW r
          PROVE  r \in basis.events <=> r \in all /\ r.sequenceNumber > q.min
      <4>1. r \in all <=> r \in visible /\ InScope(scopeOf[p], r) /\ Matches(Meaning(q0), r)
        BY DEF Requested
      <4>2. r \in basis.events <=>
              r \in visible /\ InScope(scopeOf[p], r) /\ Matches(Meaning(q), r)
        BY DEF Requested
      <4>3. Matches(Meaning(q), r) <=> r.sequenceNumber > q.min
              /\ (Meaning(q0).types # {} => r.eventType \in Meaning(q0).types)
        BY <2>4, MinimumTakesAway
      <4>4. Matches(Meaning(q0), r) <=> r.sequenceNumber > 0
              /\ (Meaning(q0).types # {} => r.eventType \in Meaning(q0).types)
        BY <2>4, WithoutMinimum
      <4>5. r \in visible => r.sequenceNumber > 0
        BY <3>1
      <4> HIDE DEF q, q0, all
      <4>6. QED
        BY <4>1, <4>2, <4>3, <4>4, <4>5
    <3>3. \A r \in all : r.sequenceNumber \in 1..lastNumber
      BY <3>1 DEF Requested
    <3> HIDE DEF all, q0
    <3>4. Largest(all) = Largest(basis.events)
      BY <2>4, <2>8, <3>1, <3>2, <3>3, LargestBeyond
    <3>5. QED
      BY <2>1, <2>3, <2>5, <2>6, <3>4
  <2>9. QED
    BY <2>7, <2>8
<1>2. SqlInv /\ [Next]_vars => [\A p \in Proc : Justified(p)]_vars
  BY <1>1
<1>3. QED
  BY <1>2, SqlInvariant, PTL DEF Spec, RefusalsAreJustified

-----------------------------------------------------------------------------
(* Layer 5: what polling gathers.                                          *)

(* A query reads from the beginning, or on from its caller's last result.  *)
ReadsOn(p) ==
  args[p].batch = <<>> =>
    \/ args[p].query.min = 0
    \/ /\ args[p].query.filters = view[p].query.filters
       /\ args[p].query.min <= view[p].drawn

(* What has been asked for, up to the last number drawn at the last        *)
(* result, has been gathered.                                              *)
Gathered(p) ==
  Atomic /\ Faithful(view[p].query) =>
    \A r \in Requested(scopeOf[p], [view[p].query EXCEPT !.min = 0], rows) :
      r.sequenceNumber <= view[p].drawn => r \in collected[p]

PollInv == \A p \in Proc : ReadsOn(p) /\ Gathered(p)

(* Calls read from the beginning or on from the last result.               *)
LEMMA StepKeepsReadsOn ==
  ASSUME SqlInv, NEW p \in Proc, ReadsOn(p), [Next]_vars
  PROVE  ReadsOn(p)'
<1> USE DEF SqlInv, TypeInv, SqlTypeOK
<1>1. CASE args'[p] = args[p] /\ view'[p] = view[p]
  BY <1>1 DEF ReadsOn
<1>2. CASE args'[p] = NoArgs
  BY <1>2 DEF ReadsOn, NoArgs, NoQuery
<1>3. CASE QueryCall(p)
  <2>1. PICK q \in {[filters |-> f, min |-> 0] : f \in Filters}
                   \cup {[view[p].query EXCEPT !.min = view[p].max]} :
          StartCall(p, "querying", [NoArgs EXCEPT !.query = q])
    BY <1>3 DEF QueryCall
  <2>2. args'[p].query = q /\ view'[p] = view[p]
    <3>1. args'[p] = [NoArgs EXCEPT !.query = q]
      BY <2>1 DEF StartCall
    <3>2. QED
      BY <1>3, <3>1 DEF NoArgs, QueryCall
  <2>3. CASE q.min = 0
    BY <2>2, <2>3 DEF ReadsOn
  <2>4. CASE q = [view[p].query EXCEPT !.min = view[p].max]
    <3>1. PICK v \in View : v = view[p]
      OBVIOUS
    <3>2. Known(p, v)
      BY <3>1 DEF KnowledgeInv
    <3>3. v.drawn \in Nat /\ v.max \in 0..v.drawn
      BY <3>2, KnownMaximum
    <3>4. q.filters = v.query.filters /\ q.min = v.max
      BY <2>4, <3>1 DEF View, SqlQuery
    <3>5. QED
      BY <2>2, <3>1, <3>3, <3>4 DEF ReadsOn
  <2>5. QED
    BY <2>1, <2>3, <2>4
<1>4. CASE AppendCall(p)
  <2>1. PICK b \in Batch \ {<<>>}, conditional \in BOOLEAN :
          StartCall(p, "executing", AppendArgs(p, b, conditional))
    BY <1>4 DEF AppendCall
  <2>2. args'[p] = AppendArgs(p, b, conditional)
    BY <2>1 DEF StartCall
  <2>3. args'[p].batch # <<>>
    BY <2>2 DEF AppendArgs
  <2>4. QED
    BY <2>3 DEF ReadsOn
<1>5. CASE QueryRead(p) \/ QueryFails(p) \/ Refused(p) \/ StatementFails(p) \/ NotifyEnd(p)
  BY <1>2, <1>5 DEF QueryRead, QueryFails, Refused, StatementFails, NotifyEnd, Settle
<1>6. CASE AppendReturnsEarly(p) \/ Connect(p) \/ ExecuteAtOnce(p) \/ StatementStart(p)
           \/ InsertRow(p) \/ Commit(p) \/ HandlerSettles(p)
  BY <1>1, <1>6 DEF AppendReturnsEarly, Connect, ExecuteAtOnce, StatementStart,
                    InsertRow, Commit, HandlerSettles, callVars
<1>7. CASE NotifyStart(p)
  BY <1>1, <1>2, <1>7 DEF NotifyStart, Settle
<1>8. CASE ~CallStep(p)
  BY <1>1, <1>8, OwnSteps
<1>9. QED
  BY <1>3, <1>4, <1>5, <1>6, <1>7, <1>8 DEF CallStep

(* The answer to a query that reads on completes what has been gathered.   *)
LEMMA ReadingGathers ==
  ASSUME SqlInv, NEW p \in Proc, ReadsOn(p), Gathered(p), [Next]_vars, QueryRead(p)
  PROVE  Gathered(p)'
<1> USE DEF SqlInv, TypeInv, SqlTypeOK
<1>1. PICK q \in SqlQuery : q = args[p].query
  OBVIOUS
<1>2. PICK old \in View : old = view[p]
  OBVIOUS
<1>3. args[p].batch = <<>>
  BY DEF QueryRead, CallInv, InHand
<1>4. /\ view'[p].query = q /\ view'[p].drawn = lastNumber
      /\ collected'[p] = IF q.filters = old.query.filters
                         THEN collected[p] \cup Selected(scopeOf[p], q)
                         ELSE Selected(scopeOf[p], q)
      /\ rows' = rows /\ kind' = kind /\ scopeOf' = scopeOf
  BY <1>1, <1>2 DEF QueryRead, tableVars, rigid
<1>5. ASSUME Atomic, Faithful(q),
             NEW r \in Requested(scopeOf[p], [q EXCEPT !.min = 0], rows)
      PROVE  r \in collected'[p]
  <2>1. /\ r \in rows /\ InScope(scopeOf[p], r)
        /\ Matches(Meaning([q EXCEPT !.min = 0]), r)
    BY DEF Requested
  <2>2. r.sequenceNumber \in 1..lastNumber /\ lastNumber \in Nat /\ q.min \in Nat
    BY <2>1 DEF NumbersAreDrawn, SqlQuery
  <2>3. CASE r.sequenceNumber > q.min
    <3>1. Matches(Meaning(q), r)
      BY <2>1, <2>3, MinimumTakesAway, WithoutMinimum
    <3>2. r \in Selected(scopeOf[p], q)
      BY <1>5, <2>1, <3>1, SelectedIsRequested DEF Requested
    <3>3. QED
      BY <1>4, <3>2
  <2>4. CASE ~(r.sequenceNumber > q.min)
    <3>1. q.filters = old.query.filters /\ q.min <= old.drawn
      BY <1>1, <1>2, <1>3, <2>2, <2>4 DEF ReadsOn
    <3>2. [q EXCEPT !.min = 0] = [old.query EXCEPT !.min = 0]
      BY <3>1 DEF View, SqlQuery
    <3>3. Faithful(old.query)
      BY <1>5, <3>1 DEF Faithful
    <3>4. r.sequenceNumber <= old.drawn
      BY <2>2, <2>4, <3>1 DEF View
    <3>5. r \in collected[p]
      BY <1>2, <1>5, <3>2, <3>3, <3>4 DEF Gathered
    <3>6. QED
      BY <1>4, <3>1, <3>5
  <2>5. QED
    BY <2>3, <2>4
<1>6. Atomic' = Atomic /\ Faithful(q)' = Faithful(q)
  BY <1>4 DEF Atomic, Faithful, Pooled
<1>7. QED
  BY <1>4, <1>5, <1>6 DEF Gathered

(* What has been gathered is not outrun by other calls.                    *)
LEMMA StepKeepsGathered ==
  ASSUME SqlInv, NEW p \in Proc, ReadsOn(p), Gathered(p), [Next]_vars
  PROVE  Gathered(p)'
<1> USE DEF SqlInv, TypeInv, SqlTypeOK
<1>1. CASE QueryRead(p)
  BY <1>1, ReadingGathers
<1>2. CASE ~QueryRead(p)
  <2>1. view'[p] = view[p] /\ collected'[p] = collected[p]
    BY <1>2, OwnSteps
       DEF CallStep, QueryCall, AppendCall, AppendReturnsEarly, Connect, QueryFails,
           ExecuteAtOnce, StatementStart, InsertRow, Commit, Refused, StatementFails,
           NotifyStart, HandlerSettles, NotifyEnd, callVars
  <2>2. PICK v \in View : v = view[p]
    OBVIOUS
  <2>3. /\ rows \subseteq rows' /\ (Atomic => \A r \in rows' \ rows : r.sequenceNumber > lastNumber)
        /\ kind' = kind /\ scopeOf' = scopeOf
    BY RowsGrow, StoresStay
  <2>4. v.drawn <= lastNumber /\ v.drawn \in Nat /\ lastNumber \in Nat
    BY <2>2 DEF KnowledgeInv, Known, View
  <2>5. TypeInv'
    BY StepKeepsTypes
  <2>6. \A r \in rows' : r.sequenceNumber \in Nat
    BY <2>5 DEF Row
  <2>7. ASSUME Atomic, Faithful(v.query),
               NEW r \in Requested(scopeOf[p], [v.query EXCEPT !.min = 0], rows'),
               r.sequenceNumber <= v.drawn
        PROVE  r \in collected[p]
    <3>1. r \in rows'
      BY DEF Requested
    <3>2. r \in rows
      BY <2>3, <2>4, <2>6, <2>7, <3>1
    <3>3. r \in Requested(scopeOf[p], [v.query EXCEPT !.min = 0], rows)
      BY <3>2 DEF Requested
    <3>4. QED
      BY <2>2, <2>7, <3>3 DEF Gathered
  <2>8. Atomic' = Atomic /\ Faithful(v.query)' = Faithful(v.query)
    BY <2>3 DEF Atomic, Faithful, Pooled
  <2>9. QED
    BY <2>1, <2>2, <2>3, <2>7, <2>8 DEF Gathered
<1>3. QED
  BY <1>1, <1>2

(* Reading on from the maximum of the last result gathers everything D1    *)
(* had committed when it was asked.                                        *)
THEOREM PollingIsComplete == Spec => []PollingMissesNothing
<1>1. ASSUME Init PROVE PollInv
  <2>1. \A p \in Proc : args[p] = NoArgs /\ view[p] = NoView
    BY <1>1 DEF Init
  <2>2. ASSUME NEW p \in Proc PROVE ReadsOn(p) /\ Gathered(p)
    BY <2>1 DEF ReadsOn, Gathered, NoArgs, NoView, NoQuery, Faithful
  <2>3. QED
    BY <2>2 DEF PollInv
<1>2. SqlInv /\ PollInv /\ [Next]_vars => PollInv'
  <2> SUFFICES ASSUME SqlInv, PollInv, [Next]_vars, NEW p \in Proc
               PROVE  ReadsOn(p)' /\ Gathered(p)'
    BY DEF PollInv
  <2>1. QED
    BY StepKeepsReadsOn, StepKeepsGathered DEF PollInv
<1>3. PollInv => PollingMissesNothing
  BY DEF PollInv, Gathered, PollingMissesNothing
<1>4. QED
  BY <1>1, <1>2, <1>3, SqlInvariant, PTL DEF Spec

-----------------------------------------------------------------------------
(* The refinement of the shared table with atomic appends.                 *)

(* An append() is under way with what its caller has seen: nobody reads    *)
(* between the call and its end.                                           *)
DecidedOnView == \A p \in Proc : args[p].batch # <<>> => args[p].basis = view[p]

(* No step changes what the caller of a running append() has read.         *)
LEMMA StepKeepsDecidedOnView ==
  ASSUME SqlInv, DecidedOnView, [Next]_vars
  PROVE  DecidedOnView'
<1>1. SUFFICES ASSUME NEW p \in Proc, args'[p].batch # <<>>
               PROVE  args'[p].basis = view'[p]
  BY DEF DecidedOnView
<1> USE DEF SqlInv, TypeInv, SqlTypeOK
<1>2. CASE ~CallStep(p)
  BY <1>1, <1>2, OwnSteps DEF DecidedOnView
<1>3. CASE CallStep(p)
  <2>1. CASE QueryCall(p)
    <3>1. PICK q : StartCall(p, "querying", [NoArgs EXCEPT !.query = q])
      BY <2>1 DEF QueryCall
    <3>2. args'[p] = [NoArgs EXCEPT !.query = q]
      BY <3>1 DEF StartCall
    <3>3. QED
      BY <1>1, <3>2 DEF NoArgs
  <2>2. CASE AppendCall(p)
    BY <2>2 DEF AppendCall, StartCall, AppendArgs
  <2>3. CASE QueryRead(p) \/ QueryFails(p) \/ Refused(p) \/ StatementFails(p)
             \/ NotifyEnd(p)
    BY <1>1, <2>3 DEF QueryRead, QueryFails, Refused, StatementFails, NotifyEnd, Settle,
       NoArgs
  <2>4. CASE AppendReturnsEarly(p) \/ Connect(p) \/ ExecuteAtOnce(p)
             \/ StatementStart(p) \/ InsertRow(p) \/ Commit(p) \/ HandlerSettles(p)
    BY <1>1, <2>4 DEF AppendReturnsEarly, Connect, ExecuteAtOnce, StatementStart,
       InsertRow, Commit, HandlerSettles, callVars, DecidedOnView
  <2>5. CASE NotifyStart(p)
    <3>1. view'[p] = view[p] /\ (args' = args \/ args'[p] = NoArgs)
      BY <2>5 DEF NotifyStart, Settle
    <3>2. QED
      BY <1>1, <3>1 DEF NoArgs, DecidedOnView
  <2>6. QED
    BY <1>3, <2>1, <2>2, <2>3, <2>4, <2>5 DEF CallStep
<1>4. QED
  BY <1>2, <1>3

(* What the mapping makes of a caller that has no append() under way.      *)
NothingAsked == [batch |-> <<>>, conditional |-> FALSE, decided |-> FALSE]

(* Queries select the same in the shared table as everywhere else.         *)
LEMMA SharedQueries ==
  ASSUME NEW q, NEW r
  PROVE  Shared!Matches(q, r) <=> Matches(q, r)
BY DEF Shared!Matches, Matches

(* A function that changes at one place is the EXCEPT of the old one.      *)
LEMMA ChangedAtOnePlace ==
  ASSUME NEW D, NEW f, NEW g, f = [x \in D |-> f[x]], g = [x \in D |-> g[x]],
         NEW p \in D, \A r \in D \ {p} : g[r] = f[r]
  PROVE  g = [f EXCEPT ![p] = g[p]]
OBVIOUS

(* The three mapped variables are functions on the callers.                *)
LEMMA MappedFunctions ==
  /\ Seen = [x \in Proc |-> Seen[x]] /\ Seen' = [x \in Proc |-> Seen'[x]]
  /\ Asked = [x \in Proc |-> Asked[x]] /\ Asked' = [x \in Proc |-> Asked'[x]]
  /\ Drafted = [x \in Proc |-> Drafted[x]] /\ Drafted' = [x \in Proc |-> Drafted'[x]]
BY DEF Seen, Asked, Drafted

(* What the mapping makes of a call that is not touched stays.             *)
LEMMA UntouchedIsMapped ==
  ASSUME NEW p \in Proc, UNCHANGED <<kind, scopeOf>>,
         pc'[p] = pc[p], args'[p] = args[p], view'[p] = view[p],
         snapshot'[p] = snapshot[p], inserted'[p] = inserted[p]
  PROVE  Seen'[p] = Seen[p] /\ Asked'[p] = Asked[p] /\ Drafted'[p] = Drafted[p]
<1>1. ContextHolds(p, snapshot[p])' = ContextHolds(p, snapshot[p])
  BY DEF ContextHolds, ContextMax, Where, Pooled
<1>2. \A q : Faithful(q)' = Faithful(q)
  BY DEF Faithful, Pooled, Atomic
<1>3. Seen'[p] = Seen[p]
  BY <1>2 DEF Seen
<1>4. Asked'[p] = Asked[p]
  BY <1>1, <1>2 DEF Asked, Asking, At
<1>5. Drafted'[p] = Drafted[p]
  BY DEF Drafted, At
<1>6. QED
  BY <1>3, <1>4, <1>5

(* What a step of one call changes in the shared table's variables.        *)
LEMMA MappedCall ==
  ASSUME SqlInv, NEW p \in Proc, CallStep(p)
  PROVE  /\ Seen' = [Seen EXCEPT ![p] = Seen'[p]]
         /\ Asked' = [Asked EXCEPT ![p] = Asked'[p]]
         /\ Drafted' = [Drafted EXCEPT ![p] = Drafted'[p]]
         /\ Atomic' = Atomic /\ UNCHANGED <<kind, scopeOf>>
<1>1. kind' = kind /\ scopeOf' = scopeOf
  BY StoresStay DEF Next
<1>2. \A r \in Proc \ {p} : /\ Seen'[r] = Seen[r] /\ Asked'[r] = Asked[r]
                           /\ Drafted'[r] = Drafted[r]
  BY <1>1, OthersStay, UntouchedIsMapped DEF SqlInv
<1>3. PICK v, w : v = Seen /\ w = Seen'
  OBVIOUS
<1>4. PICK b, c : b = Asked /\ c = Asked'
  OBVIOUS
<1>5. PICK d, e : d = Drafted /\ e = Drafted'
  OBVIOUS
<1>6. w = [v EXCEPT ![p] = w[p]]
  BY <1>2, <1>3, MappedFunctions, ChangedAtOnePlace
<1>7. c = [b EXCEPT ![p] = c[p]]
  BY <1>2, <1>4, MappedFunctions, ChangedAtOnePlace
<1>8. e = [d EXCEPT ![p] = e[p]]
  BY <1>2, <1>5, MappedFunctions, ChangedAtOnePlace
<1>9. Atomic' = Atomic
  BY <1>1 DEF Atomic
<1>10. QED
  BY <1>1, <1>3, <1>4, <1>5, <1>6, <1>7, <1>8, <1>9

(* Steps that show nothing.                                                *)
LEMMA NothingMoves ==
  ASSUME UNCHANGED <<kind, scopeOf, rows, lastNumber>>,
         \A p \in Proc : /\ Seen'[p] = Seen[p] /\ Asked'[p] = Asked[p]
                         /\ Drafted'[p] = Drafted[p]
  PROVE  UNCHANGED Shared!absVars
<1>1. Seen' = Seen /\ Asked' = Asked /\ Drafted' = Drafted
  <2>1. PICK v, w : v = Seen /\ w = Seen'
    OBVIOUS
  <2>2. PICK b, c : b = Asked /\ c = Asked'
    OBVIOUS
  <2>3. PICK d, e : d = Drafted /\ e = Drafted'
    OBVIOUS
  <2>4. v = w
    BY <2>1, MappedFunctions
  <2>5. b = c
    BY <2>2, MappedFunctions
  <2>6. d = e
    BY <2>3, MappedFunctions
  <2>7. QED
    BY <2>1, <2>2, <2>3, <2>4, <2>5, <2>6
<1>2. Atomic' = Atomic
  BY DEF Atomic
<1>3. QED
  BY <1>1, <1>2 DEF Shared!absVars, Shared!rigid

-----------------------------------------------------------------------------
(* Every step of a call is a step of the shared table or none at all.      *)

LEMMA TypesOfCalls ==
  ASSUME SqlInv
  PROVE  /\ pc \in [Proc -> Label] /\ args \in [Proc -> ArgsType]
         /\ view \in [Proc -> View] /\ snapshot \in [Proc -> SUBSET Row]
         /\ inserted \in [Proc -> Seq(Row)]
         /\ scopeOf \in [Proc \cup Subscription -> Scope]
         /\ lastNumber \in Nat
BY DEF SqlInv, TypeInv, SqlTypeOK, ArgsType

(* The stores stay when a call moves.                                      *)
LEMMA SameStores ==
  ASSUME NEW p \in Proc, CallStep(p)
  PROVE  UNCHANGED <<kind, scopeOf>> /\ Atomic' = Atomic /\ UNCHANGED Shared!rigid
<1>1. kind' = kind /\ scopeOf' = scopeOf
  BY StoresStay DEF Next
<1>2. Atomic' = Atomic
  BY <1>1 DEF Atomic
<1>3. QED
  BY <1>1, <1>2 DEF Shared!rigid

(* What the mapping makes of the caller's view is kept with it.            *)
LEMMA SeenStays ==
  ASSUME NEW p \in Proc, UNCHANGED <<kind, scopeOf>>, view'[p] = view[p]
  PROVE  Seen'[p] = Seen[p]
<1>1. \A q : Faithful(q)' = Faithful(q)
  BY DEF Faithful, Pooled, Atomic
<1>2. QED
  BY <1>1 DEF Seen

(* A read of what the mapping shows.                                       *)
LEMMA MeaningIsQuery ==
  ASSUME NEW q \in SqlQuery
  PROVE  Meaning(q) \in Shared!EventQuery
<1>1. q.min \in Nat /\ q.filters \in Seq(SUBSET EventType)
  BY DEF SqlQuery, Filter
<1>2. \A i \in DOMAIN q.filters : q.filters[i] \in SUBSET EventType
  BY <1>1
<1>3. UNION {q.filters[i] : i \in DOMAIN q.filters} \in SUBSET EventType
  BY <1>2
<1>4. QED
  BY <1>1, <1>3 DEF Meaning, Shared!EventQuery

(* The query of a caller that has read nothing asks for everything.        *)
LEMMA NothingMeant == Meaning(NoQuery) = [types |-> {}, min |-> 0]
<1>1. DOMAIN <<>> = {}
  OBVIOUS
<1>2. UNION {NoQuery.filters[i] : i \in DOMAIN NoQuery.filters} = {}
  BY <1>1 DEF NoQuery
<1>3. QED
  BY <1>1, <1>2 DEF Meaning, NoQuery

(* The SELECT of a query is a read of the shared table.                    *)
LEMMA QueriesAreReads ==
  ASSUME SqlInv, NEW p \in Proc, QueryRead(p)
  PROVE  Shared!Read(p)
<1>1. CallStep(p)
  BY DEF CallStep
<1>2. UNCHANGED <<kind, scopeOf>> /\ Atomic' = Atomic /\ UNCHANGED Shared!rigid
  BY <1>1, SameStores
<1>3. PICK q \in SqlQuery : q = args[p].query
  BY TypesOfCalls DEF ArgsType
<1>4. /\ pc[p] = "querying" /\ pc'[p] = "idle" /\ UNCHANGED <<rows, lastNumber>>
      /\ view'[p] = [query |-> q, events |-> Selected(scopeOf[p], q),
                     max |-> Largest(Selected(scopeOf[p], q)), drawn |-> lastNumber]
  BY <1>3, TypesOfCalls DEF QueryRead, Settle, Goto, At, tableVars
<1>5. /\ Asked[p] = NothingAsked /\ Asked'[p] = Asked[p] /\ Drafted'[p] = Drafted[p]
  BY <1>4 DEF Asked, Asking, NothingAsked, Drafted, At
<1>6. /\ Seen' = [Seen EXCEPT ![p] = Seen'[p]] /\ Asked' = Asked /\ Drafted' = Drafted
  BY <1>1, <1>5, MappedCall, MappedFunctions
<1>7. \/ Seen'[p] = [query |-> [types |-> {}, min |-> 0], events |-> {}, drawn |-> 0]
      \/ /\ Seen'[p].query = Meaning(q) /\ Seen'[p].drawn = lastNumber
         /\ Seen'[p].events = Requested(scopeOf[p], q, rows)
  <2>1. view'[p].query = q /\ (Faithful(view[p].query)' <=> Faithful(q))
    BY <1>2, <1>4 DEF Faithful, Pooled, Atomic
  <2>2. CASE Faithful(q)
    <3>1. Selected(scopeOf[p], q) = Requested(scopeOf[p], q, rows)
      BY <2>2, SelectedIsRequested
    <3>2. Seen'[p] = [query |-> Meaning(q), events |-> Selected(scopeOf[p], q),
                      drawn |-> lastNumber]
      BY <1>4, <2>1, <2>2 DEF Seen
    <3>3. QED
      BY <3>1, <3>2
  <2>3. CASE ~Faithful(q)
    <3>1. Seen'[p] = [query |-> Meaning(NoQuery), events |-> {}, drawn |-> 0]
      BY <1>4, <2>1, <2>3 DEF Seen
    <3>2. QED
      BY <3>1, NothingMeant
  <2>4. QED
    BY <2>2, <2>3
<1>8. Shared!Answer(p, Meaning(q)) = Requested(scopeOf[p], q, rows)
  BY SharedQueries DEF Shared!Answer, Requested, InScope
<1>9. Meaning(q) \in Shared!EventQuery
  BY MeaningIsQuery
<1>10. QED
  BY <1>2, <1>4, <1>5, <1>6, <1>7, <1>8, <1>9
     DEF Shared!Read, Shared!NoRequest, Shared!NothingSeen, NothingAsked

(* A call of append() asks.                                                *)
LEMMA AppendAsks ==
  ASSUME SqlInv, NEW p \in Proc, AppendCall(p)
  PROVE  Shared!Ask(p)
<1>1. CallStep(p) /\ UNCHANGED <<rows, lastNumber, view, inserted, snapshot>>
  BY DEF CallStep, AppendCall, tableVars, stmtVars
<1>2. UNCHANGED <<kind, scopeOf>> /\ Atomic' = Atomic /\ UNCHANGED Shared!rigid
  BY <1>1, SameStores
<1>3. PICK b \in Batch \ {<<>>}, conditional \in BOOLEAN :
        /\ pc[p] = "idle" /\ pc'[p] \in {"connecting", "executing"}
        /\ args'[p] = AppendArgs(p, b, conditional)
  BY TypesOfCalls DEF AppendCall, StartCall, Goto, At
<1>4. b \in Seq(EventType) \ {<<>>}
  BY SqlAssumption
<1>5. /\ Asked[p] = NothingAsked
      /\ Asked'[p].batch = b /\ Asked'[p].conditional \in BOOLEAN
      /\ Asked'[p].decided = FALSE
      /\ Drafted'[p] = Drafted[p]
  <2>1. Asked[p] = NothingAsked /\ Drafted'[p] = Drafted[p]
    BY <1>3 DEF Asked, Asking, NothingAsked, Drafted, At
  <2>2. args'[p].batch = b /\ Asking(p)'
    BY <1>3 DEF AppendArgs, Asking
  <2>3. Asked'[p] = [batch |-> b,
                     conditional |-> args'[p].conditional /\ Faithful(args[p].query)',
                     decided |-> FALSE]
    BY <1>3, <2>2 DEF Asked, At
  <2>4. QED
    BY <2>1, <2>3
<1>6. /\ Asked' = [Asked EXCEPT ![p] = Asked'[p]] /\ Seen' = Seen /\ Drafted' = Drafted
  BY <1>1, <1>2, <1>5, SeenStays, MappedCall, MappedFunctions
<1>7. QED
  BY <1>1, <1>2, <1>4, <1>5, <1>6 DEF Shared!Ask, Shared!NoRequest, NothingAsked

(* A call that ends leaves nothing asked.                                  *)
LEMMA AbortsAreAborts ==
  ASSUME SqlInv, NEW p \in Proc, Refused(p) \/ StatementFails(p)
  PROVE  Shared!Abort(p) \/ UNCHANGED Shared!absVars
<1>1. /\ CallStep(p) /\ UNCHANGED <<rows, lastNumber, view>>
      /\ pc'[p] = "idle" /\ pc[p] \in {"executing", "inserting", "committed"}
  BY TypesOfCalls DEF CallStep, Refused, StatementFails, Settle, Goto, At, tableVars
<1>2. UNCHANGED <<kind, scopeOf>> /\ Atomic' = Atomic /\ UNCHANGED Shared!rigid
  BY <1>1, SameStores
<1>3. Asked'[p] = NothingAsked /\ Drafted'[p] = <<>> /\ Seen' = Seen
  <2>1. Asked'[p] = NothingAsked /\ Drafted'[p] = <<>>
    BY <1>1 DEF Asked, Asking, NothingAsked, Drafted, At
  <2>2. Seen' = Seen
    BY <1>1, <1>2, SeenStays, MappedCall, MappedFunctions
  <2>3. QED
    BY <2>1, <2>2
<1>4. /\ Asked' = [Asked EXCEPT ![p] = NothingAsked]
      /\ Drafted' = [Drafted EXCEPT ![p] = <<>>]
  BY <1>1, <1>3, MappedCall
<1>5. CASE Asked[p] = NothingAsked
  <2>1. pc[p] # "inserting"
    BY <1>5 DEF Asked, Asking, NothingAsked, SqlInv, CallInv, InHand
  <2>2. Drafted[p] = <<>>
    BY <2>1 DEF Drafted, At
  <2>3. Asked' = Asked /\ Drafted' = Drafted
    BY <1>4, <1>5, <2>2, MappedFunctions
  <2>4. QED
    BY <1>1, <1>2, <1>3, <2>3 DEF Shared!absVars
<1>6. CASE Asked[p] # NothingAsked
  BY <1>1, <1>2, <1>3, <1>4, <1>6
     DEF Shared!Abort, Shared!Over, Shared!NoRequest, NothingAsked
<1>7. QED
  BY <1>5, <1>6

(* What the check finds, in the terms of the shared table.                 *)
LEMMA CheckDecides ==
  ASSUME SqlInv, DecidedOnView, NEW p \in Proc, pc[p] = "executing",
         ContextHolds(p, rows)
  PROVE  /\ Asked[p] = [batch |-> args[p].batch,
                        conditional |-> args[p].conditional /\ Faithful(args[p].query),
                        decided |-> FALSE]
         /\ Asked[p].batch = args[p].batch /\ Asked[p].decided = FALSE
         /\ Asked[p] # NothingAsked /\ Drafted[p] = <<>>
         /\ Shared!Asked(p) /\ Shared!DecisionHolds(p)
<1>1. args[p].batch # <<>>
  BY DEF SqlInv, CallInv, InHand
<1>2. /\ Asked[p] = [batch |-> args[p].batch,
                     conditional |-> args[p].conditional /\ Faithful(args[p].query),
                     decided |-> FALSE]
      /\ Asked[p].batch = args[p].batch /\ Asked[p].decided = FALSE
      /\ Asked[p] # NothingAsked /\ Drafted[p] = <<>>
  BY <1>1 DEF Asked, Asking, NothingAsked, Drafted, At
<1>3. Shared!Asked(p)
  BY <1>2 DEF Shared!Asked, Shared!NoRequest, NothingAsked
<1>4. ASSUME args[p].conditional, Faithful(args[p].query)
      PROVE  IF Atomic THEN Shared!Answer(p, Seen[p].query) = Seen[p].events
             ELSE \A r \in Shared!Answer(p, Seen[p].query) :
                    r.sequenceNumber <= Seen[p].drawn
  <2>1. /\ args[p].query = args[p].basis.query /\ args[p].expected = args[p].basis.max
        /\ args[p].basis = view[p]
    BY <1>1, <1>4 DEF SqlInv, CallInv, InHand, DecidedOnView
  <2>2. PICK q \in SqlQuery : q = args[p].query
    BY TypesOfCalls DEF ArgsType
  <2>3. /\ Seen[p].query = Meaning(q) /\ Seen[p].events = args[p].basis.events
        /\ Seen[p].drawn = args[p].basis.drawn
    BY <1>4, <2>1, <2>2 DEF Seen
  <2>4. Shared!Answer(p, Meaning(q)) = Requested(scopeOf[p], q, rows)
    BY SharedQueries DEF Shared!Answer, Requested, InScope
  <2>5. /\ ContextMax(p, rows) = args[p].basis.max
        /\ \A r \in Requested(scopeOf[p], q, rows) :
             r.sequenceNumber <= ContextMax(p, rows)
    BY <1>4, <2>1, <2>2, CheckBounds DEF ContextHolds, SqlInv
  <2>6. \A r \in rows : r.sequenceNumber \in Nat
    BY DEF SqlInv, TypeInv, SqlTypeOK, Row
  <2>7. args[p].basis.drawn \in Nat /\ args[p].basis.max \in 0..args[p].basis.drawn
    BY ToldMaximum
  <2>8. \A r \in Requested(scopeOf[p], q, rows) : r \in rows
    BY DEF Requested
  <2>9. \A r \in Requested(scopeOf[p], q, rows) :
          r.sequenceNumber <= args[p].basis.drawn
    BY <2>5, <2>6, <2>7, <2>8
  <2>10. ASSUME Atomic
         PROVE  Requested(scopeOf[p], q, rows) = args[p].basis.events
    <3>1. Known(p, args[p].basis)
      BY DEF SqlInv, KnowledgeInv
    <3>2. \A r : r \in args[p].basis.events <=>
                   /\ r \in Requested(scopeOf[p], q, rows)
                   /\ r.sequenceNumber <= args[p].basis.drawn
      BY <1>4, <2>1, <2>2, <2>10, <3>1 DEF Known
    <3>3. QED
      BY <2>9, <3>2
  <2>11. QED
    BY <2>3, <2>4, <2>9, <2>10
<1>5. Shared!DecisionHolds(p)
  <2>1. PICK checked \in BOOLEAN :
          checked = (args[p].conditional /\ Faithful(args[p].query))
    OBVIOUS
  <2>2. Asked[p] = [batch |-> args[p].batch, conditional |-> checked, decided |-> FALSE]
    BY <1>2, <2>1, Zenon
  <2>3. Asked[p].conditional = checked
    BY <2>2
  <2>4. QED
    BY <1>4, <2>1, <2>3, Zenon DEF Shared!DecisionHolds
<1>6. QED
  BY <1>2, <1>3, <1>5

(* The statement of D1 is an append at once.                               *)
LEMMA D1AppendsAtOnce ==
  ASSUME SqlInv, DecidedOnView, NEW p \in Proc, ExecuteAtOnce(p)
  PROVE  Shared!AppendAtOnce(p)
<1>1. CallStep(p) /\ UNCHANGED <<view, args>>
  BY DEF CallStep, ExecuteAtOnce
<1>2. UNCHANGED <<kind, scopeOf>> /\ Atomic' = Atomic /\ UNCHANGED Shared!rigid
  BY <1>1, SameStores
<1>3. /\ Atomic /\ pc[p] = "executing" /\ pc'[p] = "committed"
      /\ ContextHolds(p, rows)
  BY TypesOfCalls DEF ExecuteAtOnce, Goto, At
<1>4. /\ Asked[p].batch = args[p].batch /\ Drafted[p] = <<>>
      /\ Shared!Asked(p) /\ Shared!DecisionHolds(p)
  BY <1>3, CheckDecides
<1>5. Asked'[p] = NothingAsked /\ Drafted'[p] = <<>>
  BY <1>3 DEF Asked, Asking, NothingAsked, Drafted, At
<1>6. /\ Asked' = [Asked EXCEPT ![p] = NothingAsked]
      /\ Drafted' = [Drafted EXCEPT ![p] = <<>>]
      /\ Seen' = Seen
  BY <1>1, <1>2, <1>5, SeenStays, MappedCall, MappedFunctions
<1>7. Shared!Over(p)
  BY <1>6 DEF Shared!Over, Shared!NoRequest, NothingAsked
<1>8. Shared!RowsOf(p, lastNumber) =
        [i \in DOMAIN args[p].batch |->
           [sequenceNumber |-> lastNumber + i, scope |-> scopeOf[p],
            eventType |-> args[p].batch[i]]]
  BY <1>4 DEF Shared!RowsOf
<1>9. /\ rows' = rows \cup {Shared!RowsOf(p, lastNumber)[i] :
                              i \in DOMAIN Shared!RowsOf(p, lastNumber)}
      /\ lastNumber' = lastNumber + Len(Shared!RowsOf(p, lastNumber))
  BY <1>8 DEF ExecuteAtOnce
<1>10. QED
  BY <1>2, <1>3, <1>4, <1>6, <1>7, <1>9 DEF Shared!AppendAtOnce

(* The statement of Postgres decides with the rows it starts with, or has  *)
(* not been decided and never will be.                                     *)
LEMMA StatementsDecide ==
  ASSUME SqlInv, DecidedOnView, NEW p \in Proc, StatementStart(p)
  PROVE  Shared!Decide(p) \/ UNCHANGED Shared!absVars
<1>1. CallStep(p) /\ UNCHANGED <<rows, lastNumber, view, args>>
  BY DEF CallStep, StatementStart, tableVars
<1>2. UNCHANGED <<kind, scopeOf>> /\ Atomic' = Atomic /\ UNCHANGED Shared!rigid
  BY <1>1, SameStores
<1>3. /\ ~Atomic /\ pc[p] = "executing" /\ pc'[p] = "inserting"
      /\ snapshot'[p] = rows /\ inserted'[p] = <<>>
  BY TypesOfCalls DEF StatementStart, Goto, At
<1>4. args[p].batch # <<>>
  BY <1>3 DEF SqlInv, CallInv, InHand
<1>5. ContextHolds(p, snapshot[p])' <=> ContextHolds(p, rows)
  BY <1>1, <1>2, <1>3 DEF ContextHolds, ContextMax, Where, Pooled
<1>6. PICK checked \in BOOLEAN :
        checked = (args[p].conditional /\ Faithful(args[p].query))
  OBVIOUS
<1>7. Faithful(args[p].query)' = Faithful(args[p].query)
  BY <1>1, <1>2 DEF Faithful, Pooled, Atomic
<1>8. /\ Asked[p] = [batch |-> args[p].batch, conditional |-> checked, decided |-> FALSE]
      /\ Drafted[p] = <<>>
  <2>1. Asking(p) /\ ~At(p, "inserting")
    BY <1>3, <1>4 DEF Asking, At
  <2>2. Asked[p] = [batch |-> args[p].batch,
                    conditional |-> args[p].conditional /\ Faithful(args[p].query),
                    decided |-> FALSE]
    BY <1>3, <1>4 DEF Asked, Asking, At
  <2>3. QED
    BY <1>6, <2>1, <2>2, Zenon DEF Drafted
<1>9. PICK decided \in BOOLEAN : decided = ContextHolds(p, rows)
  BY DEF ContextHolds
<1>10. /\ Asked'[p] = [batch |-> args[p].batch, conditional |-> checked,
                      decided |-> decided]
       /\ Drafted'[p] = <<>>
  <2>1. Asking(p)' /\ At(p, "inserting")' /\ args'[p] = args[p]
    BY <1>1, <1>3, <1>4 DEF Asking, At
  <2>2. Asked'[p] = [batch |-> args'[p].batch,
                     conditional |-> args'[p].conditional /\ Faithful(args[p].query)',
                     decided |-> At(p, "inserting")' /\ ContextHolds(p, snapshot[p])']
    BY <2>1 DEF Asked
  <2>3. (args'[p].conditional /\ Faithful(args[p].query)') = checked
    BY <1>6, <1>7, <2>1, Zenon
  <2>4. (At(p, "inserting")' /\ ContextHolds(p, snapshot[p])') = decided
    <3>1. ContextHolds(p, snapshot[p])' = decided
      BY <1>5, <1>9 DEF ContextHolds
    <3>2. QED
      BY <1>9, <2>1, <3>1
  <2>5. QED
    BY <1>3, <2>1, <2>2, <2>3, <2>4, Zenon DEF Drafted
<1>11. /\ Asked' = [Asked EXCEPT ![p] = Asked'[p]]
       /\ Drafted' = Drafted /\ Seen' = Seen
  BY <1>1, <1>2, <1>8, <1>10, SeenStays, MappedCall, MappedFunctions
<1>12. CASE decided
  <2>1. Shared!Asked(p) /\ Shared!DecisionHolds(p)
    BY <1>3, <1>9, <1>12, CheckDecides
  <2>2. decided = TRUE
    BY <1>9, <1>12
  <2>3. Asked'[p] = [Asked[p] EXCEPT !.decided = TRUE]
    <3>1. PICK no, yes : no = FALSE /\ yes = TRUE
      OBVIOUS
    <3>2. Asked[p] = [batch |-> args[p].batch, conditional |-> checked, decided |-> no]
      BY <1>8, <3>1, Zenon
    <3>3. Asked'[p] = [batch |-> args[p].batch, conditional |-> checked, decided |-> yes]
      BY <1>10, <2>2, <3>1, Zenon
    <3>4. Asked'[p] = [Asked[p] EXCEPT !.decided = yes]
      BY <3>2, <3>3
    <3>5. QED
      BY <3>1, <3>4, Zenon
  <2>4. Asked' = [Asked EXCEPT ![p].decided = TRUE]
    BY <1>11, <2>3
  <2>5. QED
    BY <1>1, <1>2, <1>3, <1>11, <2>1, <2>4 DEF Shared!Decide
<1>13. CASE ~decided
  <2>1. Asked'[p] = Asked[p]
    BY <1>8, <1>10, <1>13
  <2>2. Asked' = Asked
    BY <1>11, <2>1, MappedFunctions
  <2>3. QED
    BY <1>1, <1>2, <1>11, <2>2 DEF Shared!absVars
<1>14. QED
  BY <1>12, <1>13

(* What a statement that has succeeded in its check shows.                 *)
LEMMA Deciding ==
  ASSUME NEW p \in Proc, pc[p] = "inserting", args[p].batch # <<>>,
         ContextHolds(p, snapshot[p])
  PROVE  /\ Asked[p].batch = args[p].batch /\ Asked[p].decided = TRUE
         /\ Drafted[p] = inserted[p]
<1>1. Asking(p) /\ At(p, "inserting")
  BY DEF Asking, At
<1>2. Asked[p] = [batch |-> args[p].batch,
                  conditional |-> args[p].conditional /\ Faithful(args[p].query),
                  decided |-> TRUE]
  BY <1>1, Zenon DEF Asked, ContextHolds
<1>3. Drafted[p] = inserted[p]
  BY <1>1 DEF Drafted
<1>4. QED
  BY <1>2, <1>3

(* A row that is inserted draws the next number and nothing else.          *)
LEMMA InsertsDraw ==
  ASSUME SqlInv, NEW p \in Proc, InsertRow(p)
  PROVE  Shared!Draw(p)
<1>1. CallStep(p) /\ UNCHANGED <<rows, view, args, pc, snapshot>>
  BY DEF CallStep, InsertRow, callVars
<1>2. UNCHANGED <<kind, scopeOf>> /\ Atomic' = Atomic /\ UNCHANGED Shared!rigid
  BY <1>1, SameStores
<1>3. /\ pc[p] = "inserting" /\ ContextHolds(p, snapshot[p])
      /\ Len(inserted[p]) < Len(args[p].batch) /\ lastNumber' = lastNumber + 1
      /\ inserted'[p] = Append(inserted[p], NewRow(p, lastNumber + 1))
  BY TypesOfCalls DEF InsertRow, At
<1>4. args[p].batch # <<>>
  BY <1>3 DEF SqlInv, CallInv, InHand
<1>5. /\ Asked[p].batch = args[p].batch /\ Asked[p].decided = TRUE
      /\ Drafted[p] = inserted[p]
  BY <1>3, <1>4, Deciding
<1>6. Asked'[p] = Asked[p]
  <2>1. ContextHolds(p, snapshot[p])' = ContextHolds(p, snapshot[p])
    BY <1>1, <1>2 DEF ContextHolds, ContextMax, Where, Pooled
  <2>2. Faithful(args[p].query)' = Faithful(args[p].query)
    BY <1>1, <1>2 DEF Faithful, Pooled, Atomic
  <2>3. QED
    BY <1>1, <2>1, <2>2 DEF Asked, Asking, At
<1>7. Drafted'[p] = Append(Drafted[p], NewRow(p, lastNumber + 1))
  BY <1>1, <1>3, <1>5 DEF Drafted, At
<1>8. /\ Asked' = Asked /\ Seen' = Seen
      /\ Drafted' = [Drafted EXCEPT ![p] = Append(@, NewRow(p, lastNumber + 1))]
  BY <1>1, <1>2, <1>6, <1>7, SeenStays, MappedCall, MappedFunctions
<1>9. /\ NewRow(p, lastNumber + 1) =
           [sequenceNumber |-> lastNumber + 1, scope |-> scopeOf[p],
            eventType |-> Asked[p].batch[Len(Drafted[p]) + 1]]
      /\ Len(Drafted[p]) + 1 <= Len(Asked[p].batch)
  <2>1. Len(inserted[p]) \in Nat /\ Len(args[p].batch) \in Nat
    BY TypesOfCalls, LenProperties DEF ArgsType
  <2>2. QED
    BY <1>3, <1>5, <2>1 DEF NewRow
<1>10. QED
  BY <1>1, <1>2, <1>3, <1>5, <1>8, <1>9 DEF Shared!Draw

(* The commit of a statement shows all its rows at once.                   *)
LEMMA CommitsCommit ==
  ASSUME SqlInv, NEW p \in Proc, Commit(p)
  PROVE  Shared!Commit(p)
<1>1. CallStep(p) /\ UNCHANGED <<lastNumber, view, args>>
  BY DEF CallStep, Commit
<1>2. UNCHANGED <<kind, scopeOf>> /\ Atomic' = Atomic /\ UNCHANGED Shared!rigid
  BY <1>1, SameStores
<1>3. /\ pc[p] = "inserting" /\ pc'[p] = "committed"
      /\ Len(inserted[p]) = Len(args[p].batch)
      /\ rows' = rows \cup {inserted[p][i] : i \in DOMAIN inserted[p]}
  BY TypesOfCalls DEF Commit, Goto, At
<1>4. args[p].batch # <<>>
  BY <1>3 DEF SqlInv, CallInv, InHand
<1>5. ContextHolds(p, snapshot[p])
  <2>1. args[p].batch \in Seq(EventType) /\ inserted[p] \in Seq(Row)
    BY TypesOfCalls DEF ArgsType
  <2>2. inserted[p] # <<>>
    BY <1>3, <1>4, <2>1, EmptySeq
  <2>3. QED
    BY <1>3, <2>2 DEF SqlInv, CallInv, InHand, At
<1>6. /\ Asked[p].batch = args[p].batch /\ Asked[p].decided = TRUE
      /\ Drafted[p] = inserted[p]
  BY <1>3, <1>4, <1>5, Deciding
<1>7. Asked'[p] = NothingAsked /\ Drafted'[p] = <<>>
  BY <1>3 DEF Asked, Asking, NothingAsked, Drafted, At
<1>8. /\ Asked' = [Asked EXCEPT ![p] = NothingAsked]
      /\ Drafted' = [Drafted EXCEPT ![p] = <<>>]
      /\ Seen' = Seen
  BY <1>1, <1>2, <1>7, SeenStays, MappedCall, MappedFunctions
<1>9. QED
  BY <1>1, <1>2, <1>3, <1>6, <1>8
     DEF Shared!Commit, Shared!Over, Shared!NoRequest, NothingAsked

(* The other steps of a call show nothing.                                 *)
LEMMA OtherStepsStutter ==
  ASSUME SqlInv, NEW p \in Proc,
         \/ QueryCall(p) \/ AppendReturnsEarly(p) \/ Connect(p) \/ QueryFails(p)
         \/ NotifyStart(p) \/ HandlerSettles(p) \/ NotifyEnd(p)
  PROVE  UNCHANGED Shared!absVars
<1>1. CallStep(p) /\ UNCHANGED <<rows, lastNumber, view>>
  BY DEF CallStep, QueryCall, AppendReturnsEarly, Connect, QueryFails, NotifyStart,
     HandlerSettles, NotifyEnd, tableVars, callVars
<1>2. UNCHANGED <<kind, scopeOf>>
  BY <1>1, SameStores
<1>3. Seen'[p] = Seen[p]
  BY <1>1, <1>2, SeenStays
<1>4. Asked'[p] = Asked[p] /\ Drafted'[p] = Drafted[p]
  <2>1. CASE Connect(p)
    <3>1. /\ pc[p] = "connecting" /\ args' = args
          /\ pc'[p] = IF args[p].batch = <<>> THEN "querying" ELSE "executing"
      BY <2>1, TypesOfCalls DEF Connect, Goto, At
    <3>2. Faithful(args[p].query)' = Faithful(args[p].query)
      BY <1>2, <3>1 DEF Faithful, Pooled, Atomic
    <3>3. QED
      BY <3>1, <3>2 DEF Asked, Asking, Drafted, At
  <2>2. CASE AppendReturnsEarly(p) \/ HandlerSettles(p)
    BY <1>1, <1>2, <2>2, UntouchedIsMapped DEF AppendReturnsEarly, HandlerSettles,
       callVars, stmtVars
  <2>3. CASE QueryCall(p)
    <3>1. PICK q : StartCall(p, "querying", [NoArgs EXCEPT !.query = q])
      BY <2>3 DEF QueryCall
    <3>2. pc[p] = "idle" /\ args'[p].batch = <<>> /\ pc'[p] # "inserting"
      BY <3>1, TypesOfCalls DEF StartCall, Goto, At, NoArgs
    <3>3. QED
      BY <3>2 DEF Asked, Asking, Drafted, At
  <2>4. CASE QueryFails(p) \/ NotifyStart(p) \/ NotifyEnd(p)
    <3>1. /\ pc[p] \in {"querying", "committed", "notifying"}
          /\ pc'[p] \in {"idle", "notifying"}
      BY <2>4, TypesOfCalls DEF QueryFails, NotifyStart, NotifyEnd, Settle, Goto, At
    <3>2. QED
      BY <3>1 DEF Asked, Asking, Drafted, At
  <2>5. QED
    BY <2>1, <2>2, <2>3, <2>4
<1>5. \A r \in Proc : /\ Seen'[r] = Seen[r] /\ Asked'[r] = Asked[r]
                      /\ Drafted'[r] = Drafted[r]
  <2>1. /\ Seen' = [Seen EXCEPT ![p] = Seen[p]]
        /\ Asked' = [Asked EXCEPT ![p] = Asked[p]]
        /\ Drafted' = [Drafted EXCEPT ![p] = Drafted[p]]
    BY <1>1, <1>3, <1>4, MappedCall
  <2>2. QED
    BY <2>1, MappedFunctions
<1>6. QED
  BY <1>1, <1>2, <1>5, NothingMoves

(* The stores start as an empty table.                                     *)
LEMMA StoresStartAsTable == Init => Shared!AbsInit
<1> SUFFICES ASSUME Init PROVE Shared!AbsInit
  OBVIOUS
<1>1. \A p \in Proc : pc[p] = "idle" /\ view[p] = NoView
  BY DEF Init
<1>2. \A p \in Proc :
        /\ Seen[p] = [query |-> [types |-> {}, min |-> 0], events |-> {}, drawn |-> 0]
        /\ Asked[p] = NothingAsked /\ Drafted[p] = <<>>
  <2> SUFFICES ASSUME NEW p \in Proc
               PROVE  /\ Seen[p] = [query |-> [types |-> {}, min |-> 0], events |-> {},
                                    drawn |-> 0]
                      /\ Asked[p] = NothingAsked /\ Drafted[p] = <<>>
    OBVIOUS
  <2>1. /\ view[p].query = NoQuery /\ view[p].events = {} /\ view[p].drawn = 0
        /\ pc[p] = "idle"
    BY <1>1 DEF NoView
  <2>2. Seen[p] = [query |-> Meaning(NoQuery), events |-> {}, drawn |-> 0]
    BY <2>1 DEF Seen
  <2>3. Asked[p] = NothingAsked /\ Drafted[p] = <<>>
    BY <2>1 DEF Asked, Asking, NothingAsked, Drafted, At
  <2>4. QED
    BY <2>2, <2>3, NothingMeant
<1>3. /\ Seen = [p \in Proc |-> Shared!NothingSeen]
      /\ Asked = [p \in Proc |-> Shared!NoRequest] /\ Drafted = [p \in Proc |-> <<>>]
  BY <1>2, MappedFunctions DEF Shared!NothingSeen, Shared!NoRequest, NothingAsked
<1>4. /\ (~Atomic) \in BOOLEAN /\ rows = {} /\ lastNumber = 0
      /\ \A p \in Proc : scopeOf[p] \in Scope
  BY SqlAssumption DEF Init
<1>5. QED
  BY <1>3, <1>4 DEF Shared!AbsInit

(* Every step of the stores is a step of the shared table or a stutter.    *)
LEMMA StoreStepsAreTableSteps ==
  ASSUME SqlInv, DecidedOnView, [Next]_vars
  PROVE  [Shared!AbsNext]_(Shared!absVars)
<1>1. ASSUME NEW p \in Proc, CallStep(p)
      PROVE  [Shared!AbsNext]_(Shared!absVars)
  <2>1. CASE QueryRead(p)
    BY <2>1, QueriesAreReads DEF Shared!AbsNext
  <2>2. CASE AppendCall(p)
    BY <2>2, AppendAsks DEF Shared!AbsNext
  <2>3. CASE ExecuteAtOnce(p)
    BY <2>3, D1AppendsAtOnce DEF Shared!AbsNext
  <2>4. CASE StatementStart(p)
    BY <2>4, StatementsDecide DEF Shared!AbsNext
  <2>5. CASE InsertRow(p)
    BY <2>5, InsertsDraw DEF Shared!AbsNext
  <2>6. CASE Commit(p)
    BY <2>6, CommitsCommit DEF Shared!AbsNext
  <2>7. CASE Refused(p) \/ StatementFails(p)
    BY <2>7, AbortsAreAborts DEF Shared!AbsNext
  <2>8. CASE \/ QueryCall(p) \/ AppendReturnsEarly(p) \/ Connect(p) \/ QueryFails(p)
             \/ NotifyStart(p) \/ HandlerSettles(p) \/ NotifyEnd(p)
    BY <2>8, OtherStepsStutter
  <2>9. QED
    BY <1>1, <2>1, <2>2, <2>3, <2>4, <2>5, <2>6, <2>7, <2>8 DEF CallStep
<1>2. ASSUME UNCHANGED <<rigid, tableVars, callVars, stmtVars>>
      PROVE  UNCHANGED Shared!absVars
  BY <1>2, UntouchedIsMapped, NothingMoves DEF rigid, tableVars, callVars, stmtVars
<1>3. ASSUME NEW s \in Subscription, SubscriptionStep(s)
      PROVE  UNCHANGED Shared!absVars
  BY <1>2, <1>3 DEF SubscriptionStep, Subscribe, ChannelJoins, Unsubscribe, RealtimeRow
<1>4. ASSUME NEW c \in Scope, CloseNotifier(c)
      PROVE  UNCHANGED Shared!absVars
  BY <1>2, <1>4 DEF CloseNotifier
<1>5. CASE UNCHANGED vars
  BY <1>2, <1>5 DEF vars
<1>6. QED
  BY <1>1, <1>3, <1>4, <1>5 DEF Next

(* The stores implement the shared table: what a conditional append() does *)
(* to the rows that all callers see, it does at one instant, after a check *)
(* at one instant that found nothing numbered after its caller had read,   *)
(* and in D1 at the same instant, with the events its caller has read.     *)
THEOREM StoresImplementTable == Spec => ImplementsTable
<1>1. Init => Shared!AbsInit
  BY StoresStartAsTable
<1>2. Init => DecidedOnView
  BY DEF Init, DecidedOnView, NoArgs
<1>3. SqlInv /\ DecidedOnView /\ [Next]_vars => DecidedOnView'
  BY StepKeepsDecidedOnView
<1>4. SqlInv /\ DecidedOnView /\ [Next]_vars => [Shared!AbsNext]_(Shared!absVars)
  BY StoreStepsAreTableSteps
<1>5. QED
  BY <1>1, <1>2, <1>3, <1>4, SqlInvariant, PTL DEF Spec, ImplementsTable, Shared!AbsSpec
=============================================================================
