--------------------------- MODULE SqlDeliveryProofs ---------------------------
(***************************************************************************)
(* What the subscriptions of the stores over an SQL table receive: every   *)
(* row at most once, committed and of their scope, and over Realtime       *)
(* everything from the moment the channel has joined.                      *)
(***************************************************************************)
EXTENDS SqlEventStoreProofs

(* The rows of a sequence, and that it repeats none.                       *)
Within(seq) == {seq[i] : i \in DOMAIN seq}
Single(seq) == \A i, j \in DOMAIN seq : i # j => seq[i] # seq[j]

(* The empty sequence.                                                     *)
LEMMA NothingWithin == Within(<<>>) = {} /\ Single(<<>>)
BY EmptySeq DEF Within, Single

(* What a concatenation holds.                                             *)
LEMMA ConcatWithin ==
  ASSUME NEW S, NEW s \in Seq(S), NEW t \in Seq(S)
  PROVE  /\ s \o t \in Seq(S)
         /\ \A r : r \in Within(s \o t) <=> r \in Within(s) \/ r \in Within(t)
         /\ Single(s) /\ Single(t) /\ (\A r \in Within(t) : r \notin Within(s))
              => Single(s \o t)
<1>1. /\ Len(s) \in Nat /\ Len(t) \in Nat /\ s \o t \in Seq(S)
      /\ DOMAIN s = 1..Len(s) /\ DOMAIN t = 1..Len(t)
      /\ DOMAIN (s \o t) = 1..Len(s) + Len(t)
  BY ConcatProperties, LenProperties
<1>2. PICK st : st = s \o t
  OBVIOUS
<1>3. /\ \A i \in 1..Len(s) : i \in DOMAIN st /\ st[i] = s[i]
      /\ \A i \in 1..Len(t) : Len(s) + i \in DOMAIN st /\ st[Len(s) + i] = t[i]
  <2>1. \A i \in 1..Len(s) + Len(t) : st[i] = IF i <= Len(s) THEN s[i] ELSE t[i - Len(s)]
    BY <1>2, ConcatProperties
  <2>2. \A i \in 1..Len(t) : Len(s) + i \in 1..Len(s) + Len(t) /\ ~(Len(s) + i <= Len(s))
                            /\ (Len(s) + i) - Len(s) = i
    BY <1>1
  <2>3. QED
    BY <1>1, <1>2, <2>1, <2>2
<1>4. \A i \in DOMAIN st : i \in 1..Len(s) \/ \E j \in 1..Len(t) : i = Len(s) + j
  <2> SUFFICES ASSUME NEW i \in DOMAIN st, i \notin 1..Len(s)
               PROVE  \E j \in 1..Len(t) : i = Len(s) + j
    OBVIOUS
  <2>1. i - Len(s) \in 1..Len(t) /\ i = Len(s) + (i - Len(s))
    BY <1>1, <1>2
  <2>2. QED
    BY <2>1
<1>5. ASSUME NEW r PROVE r \in Within(st) <=> r \in Within(s) \/ r \in Within(t)
  BY <1>1, <1>3, <1>4 DEF Within
<1>6. ASSUME Single(s), Single(t), \A r \in Within(t) : r \notin Within(s)
      PROVE  Single(st)
  <2>1. \A i \in 1..Len(s), j \in 1..Len(t) : s[i] # t[j]
    BY <1>1, <1>6 DEF Within
  <2>2. ASSUME NEW i \in DOMAIN st, NEW j \in DOMAIN st, i # j PROVE st[i] # st[j]
    <3>1. CASE i \in 1..Len(s) /\ j \in 1..Len(s)
      BY <1>1, <1>3, <1>6, <2>2, <3>1 DEF Single
    <3>2. CASE i \in 1..Len(s) /\ j \notin 1..Len(s)
      BY <1>3, <1>4, <2>1, <3>2
    <3>3. CASE i \notin 1..Len(s) /\ j \in 1..Len(s)
      BY <1>3, <1>4, <2>1, <3>3
    <3>4. CASE i \notin 1..Len(s) /\ j \notin 1..Len(s)
      <4>1. PICK k \in 1..Len(t), l \in 1..Len(t) : i = Len(s) + k /\ j = Len(s) + l
        BY <1>4, <3>4
      <4>2. k # l
        BY <2>2, <4>1
      <4>3. st[i] = t[k] /\ st[j] = t[l]
        BY <1>3, <4>1
      <4>4. QED
        BY <1>1, <1>6, <4>2, <4>3 DEF Single
    <3>5. QED
      BY <3>1, <3>2, <3>3, <3>4
  <2>3. QED
    BY <2>2 DEF Single
<1>7. QED
  BY <1>1, <1>2, <1>5, <1>6

(* What a sequence holds after an append.                                  *)
LEMMA AppendWithin ==
  ASSUME NEW S, NEW s \in Seq(S), NEW e \in S
  PROVE  /\ \A r : r \in Within(Append(s, e)) <=> r \in Within(s) \/ r = e
         /\ Single(s) /\ e \notin Within(s) => Single(Append(s, e))
<1>1. Append(s, e) = s \o <<e>> /\ <<e>> \in Seq(S)
  BY AppendIsConcat
<1>2. Within(<<e>>) = {e} /\ Single(<<e>>)
  <2>1. DOMAIN <<e>> = {1} /\ <<e>>[1] = e
    OBVIOUS
  <2>2. QED
    BY <2>1 DEF Within, Single
<1>3. QED
  BY <1>1, <1>2, ConcatWithin

(* What the rest of a sequence holds.                                      *)
LEMMA TailWithin ==
  ASSUME NEW S, NEW s \in Seq(S), s # <<>>
  PROVE  /\ Head(s) \in Within(s)
         /\ \A r : r \in Within(s) <=> r = Head(s) \/ r \in Within(Tail(s))
         /\ Single(s) => Single(Tail(s)) /\ Head(s) \notin Within(Tail(s))
<1>1. /\ Len(s) \in Nat /\ Len(s) > 0 /\ DOMAIN s = 1..Len(s) /\ Head(s) = s[1]
      /\ Tail(s) \in Seq(S) /\ Len(Tail(s)) = Len(s) - 1
      /\ DOMAIN Tail(s) = 1..Len(s) - 1
      /\ \A i \in 1..Len(s) - 1 : Tail(s)[i] = s[i + 1]
  <2>1. /\ Tail(s) \in Seq(S) /\ Len(Tail(s)) = Len(s) - 1
        /\ \A i \in 1..Len(Tail(s)) : Tail(s)[i] = s[i + 1]
    BY HeadTailProperties
  <2>2. Len(s) \in Nat /\ Len(s) > 0 /\ DOMAIN s = 1..Len(s)
    BY EmptySeq, LenProperties
  <2>3. DOMAIN Tail(s) = 1..Len(Tail(s)) /\ Head(s) = s[1]
    BY <2>1, LenProperties
  <2>4. QED
    BY <2>1, <2>2, <2>3
<1>2. \A i \in DOMAIN s : i = 1 \/ (i - 1 \in DOMAIN Tail(s) /\ s[i] = Tail(s)[i - 1])
  BY <1>1
<1>3. \A i \in DOMAIN Tail(s) : i + 1 \in DOMAIN s /\ Tail(s)[i] = s[i + 1] /\ i + 1 # 1
  BY <1>1
<1>4. 1 \in DOMAIN s
  BY <1>1
<1>5. ASSUME NEW r PROVE r \in Within(s) <=> r = Head(s) \/ r \in Within(Tail(s))
  <2>1. ASSUME r \in Within(s) PROVE r = Head(s) \/ r \in Within(Tail(s))
    <3>1. PICK i \in DOMAIN s : r = s[i]
      BY <2>1 DEF Within
    <3>2. QED
      BY <1>1, <1>2, <3>1 DEF Within
  <2>2. ASSUME r = Head(s) \/ r \in Within(Tail(s)) PROVE r \in Within(s)
    BY <1>1, <1>3, <1>4, <2>2 DEF Within
  <2>3. QED
    BY <2>1, <2>2
<1>6. ASSUME Single(s) PROVE Single(Tail(s)) /\ Head(s) \notin Within(Tail(s))
  <2>1. \A i, j \in DOMAIN Tail(s) : i # j => i + 1 # j + 1
    BY <1>1
  <2>2. Single(Tail(s))
    BY <1>3, <1>6, <2>1 DEF Single
  <2>3. \A i \in DOMAIN Tail(s) : Tail(s)[i] # s[1]
    BY <1>3, <1>4, <1>6 DEF Single
  <2>4. QED
    BY <1>1, <2>2, <2>3 DEF Within
<1>7. Head(s) \in Within(s)
  BY <1>1, <1>4 DEF Within
<1>8. QED
  BY <1>5, <1>6, <1>7

-----------------------------------------------------------------------------
(* The rows of the statements: no two calls insert the same row, a row is  *)
(* not in the table before its commit, and it stays there after it.        *)
RowsBooked ==
  /\ \A p \in Proc : Single(inserted[p])
  /\ \A p \in Proc : \A r \in Within(inserted[p]) : r.scope = scopeOf[p]
  /\ \A p, q \in Proc : p # q => \A r \in Within(inserted[p]) : r \notin Within(inserted[q])
  /\ \A p \in Proc : pc[p] = "inserting" => \A r \in Within(inserted[p]) : r \notin rows
  /\ \A p \in Proc : pc[p] = "committed" => \A r \in Within(inserted[p]) : r \in rows

(* The rows of the subscriptions: handled once, and under way on a joined  *)
(* channel or about to be handed on by notify(), but never both.           *)
RowsDelivered ==
  /\ \A s \in Subscription : Single(delivered[s])
  /\ \A s \in Subscription : \A r \in Within(delivered[s]) :
       r \in rows /\ r.scope = scopeOf[s]
  /\ \A s \in Subscription : Single(channel[s])
  /\ \A s \in Subscription : \A r \in Within(channel[s]) :
       r \in rows /\ r \notin Within(delivered[s])
  /\ ~Realtime => /\ joined = {}
                  /\ \A s \in Subscription : channel[s] = <<>>
                  /\ \A p \in Proc : pc[p] = "committed" =>
                       \A r \in Within(inserted[p]) : \A s \in Subscription :
                         r \notin Within(delivered[s])

DeliveryInv == SqlInv /\ RowsBooked /\ RowsDelivered

(* Numbers in use have been drawn.                                         *)
LEMMA BookedNumbers ==
  ASSUME TypeInv
  PROVE  /\ lastNumber \in Nat
         /\ \A p \in Proc : \A r \in Within(inserted[p]) : r.sequenceNumber \in 1..lastNumber
         /\ \A r \in rows : r.sequenceNumber \in 1..lastNumber
BY DEF TypeInv, SqlTypeOK, NumbersAreDrawn, Within

(* The steps of a call that neither insert nor commit nor notify: its rows *)
(* stay or are forgotten, and it does not begin to wait for a commit or a  *)
(* notification with them.                                                 *)
Quiet(p) ==
  /\ UNCHANGED <<kind, scopeOf, rows, joined, channel, before, delivered>>
  /\ \A q \in Proc \ {p} : pc'[q] = pc[q] /\ inserted'[q] = inserted[q]
  /\ \/ inserted'[p] = <<>>
     \/ /\ inserted'[p] = inserted[p]
        /\ pc'[p] = pc[p] \/ pc'[p] \notin {"inserting", "committed"}

(* Which steps of a call are quiet.                                        *)
LEMMA QuietSteps ==
  ASSUME TypeInv, NEW p \in Proc, CallStep(p)
  PROVE  \/ Quiet(p) \/ ExecuteAtOnce(p) \/ InsertRow(p) \/ Commit(p)
         \/ NotifyStart(p) /\ ~Realtime
<1>1. \A q \in Proc \ {p} : pc'[q] = pc[q] /\ inserted'[q] = inserted[q]
  BY OthersStay
<1> USE DEF TypeInv, SqlTypeOK, rigid, tableVars, channelVars
<1>2. CASE QueryCall(p) \/ AppendCall(p)
  <2>1. pc'[p] \notin {"inserting", "committed"} /\ inserted' = inserted
    BY <1>2 DEF QueryCall, AppendCall, StartCall, Goto, stmtVars
  <2>2. QED
    BY <1>1, <1>2, <2>1 DEF QueryCall, AppendCall, Quiet
<1>3. CASE AppendReturnsEarly(p) \/ HandlerSettles(p)
  <2>1. pc' = pc /\ inserted' = inserted
    BY <1>3 DEF AppendReturnsEarly, HandlerSettles, callVars, stmtVars
  <2>2. QED
    BY <1>1, <1>3, <2>1 DEF AppendReturnsEarly, HandlerSettles, Quiet
<1>4. CASE Connect(p)
  <2>1. pc'[p] \notin {"inserting", "committed"} /\ inserted' = inserted
    BY <1>4 DEF Connect, Goto, stmtVars
  <2>2. QED
    BY <1>1, <1>4, <2>1 DEF Connect, Quiet
<1>5. CASE QueryRead(p) \/ QueryFails(p) \/ Refused(p) \/ StatementFails(p) \/ NotifyEnd(p)
  <2>1. inserted'[p] = <<>>
    BY <1>5 DEF QueryRead, QueryFails, Refused, StatementFails, NotifyEnd, Settle
  <2>2. QED
    BY <1>1, <1>5, <2>1
       DEF QueryRead, QueryFails, Refused, StatementFails, NotifyEnd, Quiet
<1>6. CASE StatementStart(p)
  <2>1. inserted'[p] = <<>>
    BY <1>6 DEF StatementStart
  <2>2. QED
    BY <1>1, <1>6, <2>1 DEF StatementStart, Quiet
<1>7. CASE NotifyStart(p) /\ Realtime
  <2>1. inserted'[p] = <<>>
    BY <1>7 DEF NotifyStart, Settle
  <2>2. QED
    BY <1>1, <1>7, <2>1 DEF NotifyStart, Quiet
<1>8. QED
  BY <1>2, <1>3, <1>4, <1>5, <1>6, <1>7 DEF CallStep

(* Quiet steps leave the rows where they are.                              *)
LEMMA QuietKeepsRows ==
  ASSUME TypeInv, RowsBooked, RowsDelivered, NEW p \in Proc, Quiet(p)
  PROVE  RowsBooked' /\ RowsDelivered'
<1>1. \A q \in Proc : \A r : r \in Within(inserted'[q]) => r \in Within(inserted[q])
  BY NothingWithin DEF Quiet
<1>2. \A q \in Proc : Single(inserted[q]) => Single(inserted'[q])
  BY NothingWithin DEF Quiet
<1>3. \A q \in Proc : pc'[q] \in {"inserting", "committed"} /\ Within(inserted'[q]) # {}
                        => pc'[q] = pc[q]
  BY NothingWithin DEF Quiet
<1>4. rows' = rows /\ scopeOf' = scopeOf /\ delivered' = delivered /\ channel' = channel
      /\ joined' = joined /\ Realtime' = Realtime
  BY DEF Quiet, Realtime
<1>5. RowsBooked'
  <2>1. \A q \in Proc : Single(inserted'[q])
    BY <1>2 DEF RowsBooked
  <2>2. \A q \in Proc : \A r \in Within(inserted'[q]) : r.scope = scopeOf'[q]
    BY <1>1, <1>4 DEF RowsBooked
  <2>3. \A q, w \in Proc : q # w =>
          \A r \in Within(inserted'[q]) : r \notin Within(inserted'[w])
    BY <1>1 DEF RowsBooked
  <2>4. \A q \in Proc : pc'[q] = "inserting" => \A r \in Within(inserted'[q]) : r \notin rows'
    BY <1>1, <1>3, <1>4 DEF RowsBooked
  <2>5. \A q \in Proc : pc'[q] = "committed" => \A r \in Within(inserted'[q]) : r \in rows'
    BY <1>1, <1>3, <1>4 DEF RowsBooked
  <2>6. QED
    BY <2>1, <2>2, <2>3, <2>4, <2>5 DEF RowsBooked
<1>6. ~Realtime => \A q \in Proc : pc'[q] = "committed" =>
        \A r \in Within(inserted'[q]) : \A s \in Subscription : r \notin Within(delivered[s])
  BY <1>1, <1>3 DEF RowsDelivered
<1>7. RowsDelivered'
  BY <1>4, <1>6 DEF RowsDelivered
<1>8. QED
  BY <1>5, <1>7

(* A row that a statement inserts is new to everybody.                     *)
LEMMA InsertKeepsRows ==
  ASSUME TypeInv, RowsBooked, RowsDelivered, NEW p \in Proc, InsertRow(p)
  PROVE  RowsBooked' /\ RowsDelivered'
<1> USE DEF TypeInv, SqlTypeOK
<1>1. PICK row \in Row : /\ row = NewRow(p, lastNumber + 1)
                         /\ inserted' = [inserted EXCEPT ![p] = Append(inserted[p], row)]
  <2>1. lastNumber + 1 \in Nat /\ scopeOf[p] \in Scope
    BY BookedNumbers
  <2>2. args[p].batch \in Seq(EventType) /\ Len(inserted[p]) < Len(args[p].batch)
    BY DEF InsertRow
  <2>3. inserted[p] \in Seq(Row)
    OBVIOUS
  <2>4. Len(inserted[p]) \in Nat /\ Len(args[p].batch) \in Nat
    BY <2>2, <2>3, LenProperties
  <2>5. Len(inserted[p]) + 1 \in 1..Len(args[p].batch)
    BY <2>2, <2>4
  <2>6. args[p].batch[Len(inserted[p]) + 1] \in EventType
    BY <2>2, <2>5, ElementOfSeq
  <2>7. NewRow(p, lastNumber + 1) \in Row
    BY <2>1, <2>6 DEF NewRow, Row
  <2>8. QED
    BY <2>7 DEF InsertRow
<1>2. row.sequenceNumber = lastNumber + 1 /\ row.scope = scopeOf[p]
  BY <1>1 DEF NewRow
<1>3. /\ row \notin rows
      /\ \A q \in Proc : row \notin Within(inserted[q])
  <2>1. lastNumber + 1 \notin 1..lastNumber
    BY BookedNumbers
  <2>2. QED
    BY <1>2, <2>1, BookedNumbers
<1>4. /\ pc[p] = "inserting" /\ pc' = pc /\ rows' = rows /\ scopeOf' = scopeOf
      /\ delivered' = delivered /\ channel' = channel /\ joined' = joined
      /\ Realtime' = Realtime
  BY DEF InsertRow, At, callVars, rigid, channelVars, Realtime
<1>5. /\ \A q \in Proc : q # p => inserted'[q] = inserted[q]
      /\ \A r : r \in Within(inserted'[p]) <=> r \in Within(inserted[p]) \/ r = row
      /\ Single(inserted'[p])
  <2>1. inserted[p] \in Seq(Row) /\ inserted'[p] = Append(inserted[p], row)
    BY <1>1
  <2>2. Single(inserted[p]) /\ row \notin Within(inserted[p])
    BY <1>3 DEF RowsBooked
  <2>3. QED
    BY <1>1, <2>1, <2>2, AppendWithin
<1>6. RowsBooked'
  <2>1. \A q \in Proc : Single(inserted'[q])
    BY <1>5 DEF RowsBooked
  <2>2. \A q \in Proc : \A r \in Within(inserted'[q]) : r.scope = scopeOf'[q]
    BY <1>2, <1>4, <1>5 DEF RowsBooked
  <2>3. ASSUME NEW q \in Proc, NEW w \in Proc, q # w, NEW r \in Within(inserted'[q])
        PROVE  r \notin Within(inserted'[w])
    <3>1. \A x \in Within(inserted[q]) : x \notin Within(inserted[w])
      BY <2>3 DEF RowsBooked
    <3>2. CASE q = p
      BY <1>3, <1>5, <2>3, <3>1, <3>2
    <3>3. CASE w = p
      BY <1>3, <1>5, <2>3, <3>1, <3>3
    <3>4. CASE q # p /\ w # p
      BY <1>5, <2>3, <3>1, <3>4
    <3>5. QED
      BY <3>2, <3>3, <3>4
  <2>4. \A q \in Proc : pc'[q] = "inserting" => \A r \in Within(inserted'[q]) : r \notin rows'
    BY <1>3, <1>4, <1>5 DEF RowsBooked
  <2>5. \A q \in Proc : pc'[q] = "committed" => \A r \in Within(inserted'[q]) : r \in rows'
    BY <1>4, <1>5 DEF RowsBooked
  <2>6. QED
    BY <2>1, <2>2, <2>3, <2>4, <2>5 DEF RowsBooked
<1>7. ~Realtime => \A q \in Proc : pc'[q] = "committed" =>
        \A r \in Within(inserted'[q]) : \A s \in Subscription : r \notin Within(delivered[s])
  BY <1>4, <1>5 DEF RowsDelivered
<1>8. RowsDelivered'
  BY <1>4, <1>7 DEF RowsDelivered
<1>9. QED
  BY <1>6, <1>8

(* So are the rows of D1's single statement.                               *)
LEMMA ExecuteKeepsRows ==
  ASSUME TypeInv, CallInv, RowsBooked, RowsDelivered, NEW p \in Proc, ExecuteAtOnce(p),
         TypeInv'
  PROVE  RowsBooked' /\ RowsDelivered'
<1>1. PICK batch \in Seq(EventType) : batch = args[p].batch
  BY DEF TypeInv, SqlTypeOK
<1>2. PICK records : /\ records = [i \in DOMAIN batch |->
                          [sequenceNumber |-> lastNumber + i, scope |-> scopeOf[p],
                           eventType |-> batch[i]]]
                     /\ inserted' = [inserted EXCEPT ![p] = records]
                     /\ rows' = rows \cup {records[i] : i \in DOMAIN records}
  BY <1>1 DEF ExecuteAtOnce
<1>3. DOMAIN batch = 1..Len(batch) /\ Len(batch) \in Nat /\ lastNumber \in Nat
  BY <1>1, LenProperties, BookedNumbers
<1>4. Single(records)
  BY <1>2, <1>3 DEF Single
<1>5. \A r \in Within(records) : r.sequenceNumber > lastNumber /\ r.scope = scopeOf[p]
  BY <1>2, <1>3 DEF Within
<1>6. /\ \A r \in Within(records) : r \notin rows
      /\ \A q \in Proc : \A r \in Within(records) : r \notin Within(inserted[q])
  BY <1>3, <1>5, BookedNumbers
<1>7. /\ inserted'[p] = records /\ \A q \in Proc : q # p => inserted'[q] = inserted[q]
      /\ pc'[p] = "committed" /\ \A q \in Proc : q # p => pc'[q] = pc[q]
      /\ rows' = rows \cup Within(records)
  BY <1>2 DEF ExecuteAtOnce, Goto, TypeInv, SqlTypeOK, Within
<1>8. /\ scopeOf' = scopeOf /\ delivered' = delivered /\ channel' = channel
      /\ joined' = joined /\ Realtime' = Realtime /\ Atomic /\ ~Realtime
  BY DEF ExecuteAtOnce, rigid, channelVars, Realtime, Atomic
<1>9. \A q \in Proc : pc[q] # "inserting"
  BY <1>8 DEF CallInv, InHand, At
<1>10. RowsBooked'
  <2>1. \A q \in Proc : Single(inserted'[q])
    BY <1>4, <1>7 DEF RowsBooked
  <2>2. \A q \in Proc : \A r \in Within(inserted'[q]) : r.scope = scopeOf'[q]
    BY <1>5, <1>7, <1>8 DEF RowsBooked
  <2>3. \A q, w \in Proc : q # w =>
          \A r \in Within(inserted'[q]) : r \notin Within(inserted'[w])
    BY <1>6, <1>7 DEF RowsBooked
  <2>4. \A q \in Proc : pc'[q] = "inserting" => \A r \in Within(inserted'[q]) : r \notin rows'
    BY <1>7, <1>9
  <2>5. \A q \in Proc : pc'[q] = "committed" => \A r \in Within(inserted'[q]) : r \in rows'
    BY <1>7 DEF RowsBooked
  <2>6. QED
    BY <2>1, <2>2, <2>3, <2>4, <2>5 DEF RowsBooked
<1>11. RowsDelivered'
  <2>1. \A s \in Subscription : \A r \in Within(delivered[s]) : r \in rows
    BY DEF RowsDelivered
  <2>2. \A q \in Proc : pc'[q] = "committed" =>
          \A r \in Within(inserted'[q]) : \A s \in Subscription : r \notin Within(delivered[s])
    BY <1>6, <1>7, <1>8, <2>1 DEF RowsDelivered
  <2>3. QED
    BY <1>7, <1>8, <2>2 DEF RowsDelivered
<1>12. QED
  BY <1>10, <1>11

(* A commit brings a statement's rows into the table and onto the channels *)
(* that have joined, where none of them is yet.                            *)
LEMMA CommitKeepsRows ==
  ASSUME TypeInv, RowsBooked, RowsDelivered, NEW p \in Proc, Commit(p)
  PROVE  RowsBooked' /\ RowsDelivered'
<1>1. PICK records \in Seq(Row) : records = inserted[p]
  BY DEF TypeInv, SqlTypeOK
<1>2. /\ pc[p] = "inserting" /\ inserted' = inserted
      /\ rows' = rows \cup Within(records)
      /\ pc'[p] = "committed" /\ \A q \in Proc : q # p => pc'[q] = pc[q]
      /\ scopeOf' = scopeOf /\ delivered' = delivered /\ joined' = joined
      /\ Realtime' = Realtime
  BY <1>1 DEF Commit, At, Goto, TypeInv, SqlTypeOK, stmtVars, rigid, Realtime, Within
<1>3. /\ Single(records) /\ \A r \in Within(records) : r \notin rows
      /\ \A q \in Proc : q # p => \A r \in Within(records) : r \notin Within(inserted[q])
  BY <1>1, <1>2 DEF RowsBooked
<1>4. \A s \in Subscription : \A r \in Within(records) :
        r \notin Within(delivered[s]) /\ r \notin Within(channel[s])
  BY <1>3 DEF RowsDelivered
<1>5. ASSUME NEW s \in Subscription
      PROVE  /\ Single(channel'[s])
             /\ \A r \in Within(channel'[s]) :
                  r \in Within(channel[s]) \/ (r \in Within(records) /\ s \in joined)
             /\ s \notin joined => channel'[s] = channel[s]
  <2>1. channel[s] \in Seq(Row) /\ Single(channel[s])
    BY DEF TypeInv, SqlTypeOK, RowsDelivered
  <2>2. channel'[s] = IF s \in joined THEN channel[s] \o records ELSE channel[s]
    BY <1>1 DEF Commit, Broadcast
  <2>3. QED
    BY <1>3, <1>4, <2>1, <2>2, ConcatWithin
<1>6. RowsBooked'
  <2>1. \A q \in Proc : pc'[q] = "inserting" => \A r \in Within(inserted'[q]) : r \notin rows'
    BY <1>1, <1>2, <1>3 DEF RowsBooked
  <2>2. \A q \in Proc : pc'[q] = "committed" => \A r \in Within(inserted'[q]) : r \in rows'
    BY <1>1, <1>2 DEF RowsBooked
  <2>3. QED
    BY <1>2, <2>1, <2>2 DEF RowsBooked
<1>7. RowsDelivered'
  <2>1. \A s \in Subscription : \A r \in Within(channel'[s]) :
          r \in rows' /\ r \notin Within(delivered'[s])
    BY <1>2, <1>4, <1>5 DEF RowsDelivered
  <2>2. ~Realtime => \A q \in Proc : pc'[q] = "committed" =>
          \A r \in Within(inserted'[q]) : \A s \in Subscription : r \notin Within(delivered[s])
    BY <1>1, <1>2, <1>4 DEF RowsDelivered
  <2>3. ~Realtime => \A s \in Subscription : channel'[s] = <<>>
    BY <1>5 DEF RowsDelivered
  <2>4. QED
    BY <1>2, <1>5, <2>1, <2>2, <2>3 DEF RowsDelivered
<1>8. QED
  BY <1>6, <1>7

(* notify() hands a committed batch to the subscriptions of its scope,     *)
(* which have not had it.                                                  *)
LEMMA NotifyKeepsRows ==
  ASSUME TypeInv, RowsBooked, RowsDelivered, NEW p \in Proc, NotifyStart(p), ~Realtime
  PROVE  RowsBooked' /\ RowsDelivered'
<1>1. PICK records \in Seq(Row) : records = inserted[p]
  BY DEF TypeInv, SqlTypeOK
<1>2. /\ pc[p] = "committed" /\ inserted' = inserted /\ rows' = rows
      /\ pc'[p] = "notifying" /\ \A q \in Proc : q # p => pc'[q] = pc[q]
      /\ scopeOf' = scopeOf /\ channel' = channel /\ joined' = joined
      /\ Realtime' = Realtime
  BY DEF NotifyStart, At, Goto, TypeInv, SqlTypeOK, stmtVars, rigid, tableVars,
         channelVars, Realtime
<1>3. \A q \in Proc : pc'[q] \in {"inserting", "committed"} => q # p /\ pc'[q] = pc[q]
  BY <1>2
<1>4. /\ Single(records)
      /\ \A r \in Within(records) : r \in rows /\ r.scope = scopeOf[p]
      /\ \A q \in Proc : q # p => \A r \in Within(inserted[q]) : r \notin Within(records)
  BY <1>1, <1>2 DEF RowsBooked
<1>5. \A s \in Subscription : \A r \in Within(records) : r \notin Within(delivered[s])
  BY <1>1, <1>2 DEF RowsDelivered
<1>6. ASSUME NEW s \in Subscription
      PROVE  /\ Single(delivered'[s])
             /\ \A r \in Within(delivered'[s]) :
                  \/ r \in Within(delivered[s])
                  \/ r \in Within(records) /\ scopeOf[s] = scopeOf[p]
  <2>1. delivered[s] \in Seq(Row) /\ Single(delivered[s])
    BY DEF TypeInv, SqlTypeOK, RowsDelivered
  <2>2. delivered'[s] = IF s \in Listeners(p) THEN delivered[s] \o records ELSE delivered[s]
    BY <1>1 DEF NotifyStart
  <2>3. s \in Listeners(p) => scopeOf[s] = scopeOf[p]
    BY DEF Listeners
  <2>4. QED
    BY <1>4, <1>5, <2>1, <2>2, <2>3, ConcatWithin
<1>7. RowsBooked'
  BY <1>2, <1>3 DEF RowsBooked
<1>8. RowsDelivered'
  <2>1. \A s \in Subscription : \A r \in Within(delivered'[s]) :
          r \in rows' /\ r.scope = scopeOf'[s]
    BY <1>2, <1>4, <1>6 DEF RowsDelivered
  <2>2. \A s \in Subscription : channel'[s] = <<>>
    BY <1>2 DEF RowsDelivered
  <2>3. ASSUME NEW q \in Proc, pc'[q] = "committed", NEW r \in Within(inserted'[q]),
               NEW s \in Subscription
        PROVE  r \notin Within(delivered'[s])
    <3>1. q # p /\ pc[q] = "committed" /\ r \in Within(inserted[q])
      BY <1>2, <1>3, <2>3
    <3>2. r \notin Within(delivered[s]) /\ r \notin Within(records)
      BY <1>4, <3>1 DEF RowsDelivered
    <3>3. QED
      BY <1>6, <3>2
  <2>4. joined' = {}
    BY <1>2 DEF RowsDelivered
  <2>5. QED
    BY <1>2, <1>6, <2>1, <2>2, <2>3, <2>4, NothingWithin DEF RowsDelivered
<1>9. QED
  BY <1>7, <1>8

(* A channel hands on the row it has carried for longest.                  *)
LEMMA RealtimeKeepsRows ==
  ASSUME TypeInv, RowsBooked, RowsDelivered, NEW s \in Subscription, RealtimeRow(s)
  PROVE  RowsBooked' /\ RowsDelivered'
<1>1. PICK queue \in Seq(Row) : queue = channel[s] /\ queue # <<>>
  BY DEF RealtimeRow, TypeInv, SqlTypeOK
<1>2. /\ pc' = pc /\ inserted' = inserted /\ rows' = rows /\ scopeOf' = scopeOf
      /\ joined' = joined /\ Realtime' = Realtime
      /\ channel'[s] = Tail(queue)
      /\ \A u \in Subscription : u # s => channel'[u] = channel[u]
      /\ \A u \in Subscription : u # s => delivered'[u] = delivered[u]
  BY <1>1 DEF RealtimeRow, callVars, stmtVars, tableVars, rigid, TypeInv, SqlTypeOK, Realtime
<1>3. Realtime
  BY <1>1 DEF RowsDelivered
<1>4. /\ Head(queue) \in Row /\ Single(queue)
      /\ \A r \in Within(queue) : r \in rows /\ r \notin Within(delivered[s])
  BY <1>1, HeadTailProperties DEF RowsDelivered
<1>5. /\ Head(queue) \in Within(queue) /\ Single(Tail(queue))
      /\ Head(queue) \notin Within(Tail(queue))
      /\ \A r : r \in Within(queue) <=> r = Head(queue) \/ r \in Within(Tail(queue))
  BY <1>1, <1>4, TailWithin
<1>6. /\ Single(delivered'[s])
      /\ \A r \in Within(delivered'[s]) :
           \/ r \in Within(delivered[s])
           \/ r = Head(queue) /\ r.scope = scopeOf[s]
  <2>1. delivered[s] \in Seq(Row) /\ Single(delivered[s])
    BY DEF TypeInv, SqlTypeOK, RowsDelivered
  <2>2. \/ delivered'[s] = delivered[s]
        \/ delivered'[s] = Append(delivered[s], Head(queue)) /\ Head(queue).scope = scopeOf[s]
    BY <1>1 DEF RealtimeRow, InScope, TypeInv, SqlTypeOK
  <2>3. Head(queue) \notin Within(delivered[s])
    BY <1>4, <1>5
  <2>4. /\ Single(Append(delivered[s], Head(queue)))
        /\ \A r : r \in Within(Append(delivered[s], Head(queue)))
                     <=> r \in Within(delivered[s]) \/ r = Head(queue)
    BY <1>4, <2>1, <2>3, AppendWithin
  <2>5. QED
    BY <2>1, <2>2, <2>4
<1>7. RowsBooked'
  BY <1>2 DEF RowsBooked
<1>8. RowsDelivered'
  <2>1. \A u \in Subscription : Single(delivered'[u]) /\ Single(channel'[u])
    BY <1>2, <1>5, <1>6 DEF RowsDelivered
  <2>2. \A u \in Subscription : \A r \in Within(delivered'[u]) :
          r \in rows' /\ r.scope = scopeOf'[u]
    BY <1>2, <1>4, <1>5, <1>6 DEF RowsDelivered
  <2>3. ASSUME NEW u \in Subscription, NEW r \in Within(channel'[u])
        PROVE  r \in rows' /\ r \notin Within(delivered'[u])
    <3>1. CASE u = s
      <4>1. r \in Within(queue) /\ r # Head(queue)
        BY <1>2, <1>5, <2>3, <3>1
      <4>2. QED
        BY <1>2, <1>4, <1>6, <3>1, <4>1
    <3>2. CASE u # s
      BY <1>2, <2>3, <3>2 DEF RowsDelivered
    <3>3. QED
      BY <3>1, <3>2
  <2>4. QED
    BY <1>2, <1>3, <2>1, <2>2, <2>3 DEF RowsDelivered
<1>9. QED
  BY <1>7, <1>8

(* Every step keeps the rows apart.                                        *)
LEMMA StepKeepsRows ==
  ASSUME DeliveryInv, [Next]_vars
  PROVE  DeliveryInv'
<1> USE DEF DeliveryInv, SqlInv
<1>1. SqlInv'
  BY SqlInvariant
<1>2. ASSUME UNCHANGED <<kind, scopeOf, rows, pc, inserted, delivered>>,
             NEW s \in Subscription,
             \/ UNCHANGED <<joined, channel>>
             \/ Realtime /\ channel' = channel
             \/ joined' \subseteq joined /\ channel' = [channel EXCEPT ![s] = <<>>]
      PROVE  RowsBooked' /\ RowsDelivered'
  <2>1. Realtime' = Realtime
    BY <1>2 DEF Realtime
  <2>2. \A u \in Subscription : channel'[u] \in {channel[u], <<>>}
    BY <1>2 DEF TypeInv, SqlTypeOK
  <2>3. ~Realtime => joined' = {}
    BY <1>2 DEF RowsDelivered
  <2>4. QED
    BY <1>2, <2>1, <2>2, <2>3, NothingWithin DEF RowsBooked, RowsDelivered
<1>3. ASSUME UNCHANGED <<kind, scopeOf, rows, pc, inserted, delivered, joined, channel>>
      PROVE  RowsBooked' /\ RowsDelivered'
  <2>1. Realtime' = Realtime
    BY <1>3 DEF Realtime
  <2>2. QED
    BY <1>3, <2>1 DEF RowsBooked, RowsDelivered
<1>4. CASE UNCHANGED vars
  BY <1>1, <1>3, <1>4 DEF vars, rigid, tableVars, callVars, stmtVars, channelVars
<1>5. ASSUME NEW p \in Proc, CallStep(p) PROVE RowsBooked' /\ RowsDelivered'
  BY <1>1, <1>5, QuietSteps, QuietKeepsRows, InsertKeepsRows, ExecuteKeepsRows,
     CommitKeepsRows, NotifyKeepsRows
<1>6. ASSUME NEW s \in Subscription, SubscriptionStep(s) PROVE RowsBooked' /\ RowsDelivered'
  <2>1. CASE Subscribe(s)
    BY <1>3, <2>1 DEF Subscribe, rigid, tableVars, callVars, stmtVars, channelVars
  <2>2. CASE ChannelJoins(s)
    BY <1>2, <2>2 DEF ChannelJoins, rigid, tableVars, callVars, stmtVars
  <2>3. CASE Unsubscribe(s)
    BY <1>2, <2>3 DEF Unsubscribe, rigid, tableVars, callVars, stmtVars
  <2>4. QED
    BY <1>6, <2>1, <2>2, <2>3, RealtimeKeepsRows DEF SubscriptionStep
<1>7. ASSUME NEW c \in Scope, CloseNotifier(c) PROVE RowsBooked' /\ RowsDelivered'
  BY <1>3, <1>7 DEF CloseNotifier, rigid, tableVars, callVars, stmtVars, channelVars
<1>8. QED
  BY <1>1, <1>4, <1>5, <1>6, <1>7 DEF Next

(* Nothing has been inserted, sent or received.                            *)
LEMMA InitRows == Init => DeliveryInv
<1> SUFFICES ASSUME Init PROVE DeliveryInv
  OBVIOUS
<1>1. SqlInv
  BY SqlInvariant
<1>2. /\ \A p \in Proc : inserted[p] = <<>>
      /\ \A s \in Subscription : delivered[s] = <<>> /\ channel[s] = <<>>
      /\ joined = {}
  BY DEF Init
<1>3. QED
  BY <1>1, <1>2, NothingWithin DEF DeliveryInv, RowsBooked, RowsDelivered

(* A subscription receives no event twice, none that is not committed, and *)
(* none of another scope, from notify() and from Realtime alike.           *)
THEOREM NothingIsDeliveredTwice == Spec => []DeliveredOnce
<1>1. DeliveryInv => DeliveredOnce
  <2> SUFFICES ASSUME DeliveryInv, NEW s \in Subscription, NEW i \in DOMAIN delivered[s]
               PROVE  /\ delivered[s][i] \in rows /\ InScope(scopeOf[s], delivered[s][i])
                      /\ \A j \in DOMAIN delivered[s] :
                           i < j => delivered[s][i] # delivered[s][j]
    BY DEF DeliveredOnce
  <2>1. delivered[s] \in Seq(Row) /\ Single(delivered[s])
    BY DEF DeliveryInv, SqlInv, TypeInv, SqlTypeOK, RowsDelivered
  <2>2. DOMAIN delivered[s] = 1..Len(delivered[s]) /\ Len(delivered[s]) \in Nat
    BY <2>1, LenProperties
  <2>3. \A j \in DOMAIN delivered[s] : i < j => i # j
    BY <2>2
  <2>4. delivered[s][i] \in Within(delivered[s])
    BY DEF Within
  <2>5. QED
    BY <2>1, <2>3, <2>4 DEF Single, DeliveryInv, RowsDelivered, InScope
<1>2. DeliveryInv /\ [Next]_vars => DeliveryInv'
  BY StepKeepsRows
<1>3. QED
  BY <1>1, <1>2, InitRows, PTL DEF Spec

-----------------------------------------------------------------------------
(* Every row committed since a channel has joined is on its way or has     *)
(* been handled.                                                           *)
Reached(s, r) ==
  r.scope = scopeOf[s] => r \in Within(channel[s]) \/ r \in Within(delivered[s])

JoinedInv == \A s \in joined : \A r \in rows \ before[s] : Reached(s, r)

(* Calls lose nothing on the way to the subscriptions.                     *)
LEMMA CallStepKeepsJoined ==
  ASSUME DeliveryInv, JoinedInv, NEW p \in Proc, CallStep(p)
  PROVE  JoinedInv'
<1> USE DEF DeliveryInv, SqlInv
<1>1. joined \subseteq Subscription
  BY DEF TypeInv, SqlTypeOK
<1>2. CASE Quiet(p)
  BY <1>2 DEF Quiet, JoinedInv, Reached
<1>3. CASE ~Realtime /\ joined' = joined
  <2>1. joined' = {}
    BY <1>3 DEF RowsDelivered
  <2>2. QED
    BY <2>1 DEF JoinedInv
<1>4. CASE ExecuteAtOnce(p)
  <2>1. ~Realtime /\ joined' = joined
    BY <1>4 DEF ExecuteAtOnce, Atomic, Realtime, channelVars
  <2>2. QED
    BY <1>3, <2>1
<1>5. CASE InsertRow(p)
  BY <1>5 DEF InsertRow, JoinedInv, Reached, channelVars, rigid
<1>6. CASE NotifyStart(p) /\ ~Realtime
  BY <1>3, <1>6 DEF NotifyStart, channelVars
<1>7. CASE Commit(p)
  <2>1. PICK records \in Seq(Row) : records = inserted[p]
    BY DEF TypeInv, SqlTypeOK
  <2>2. /\ rows' = rows \cup Within(records) /\ joined' = joined /\ before' = before
        /\ scopeOf' = scopeOf /\ delivered' = delivered
    BY <1>7, <2>1 DEF Commit, Within, rigid
  <2>3. ASSUME NEW s \in joined
        PROVE  \A r : r \in Within(channel'[s]) <=> r \in Within(channel[s]) \/ r \in Within(records)
    <3>1. channel[s] \in Seq(Row)
      BY <1>1 DEF TypeInv, SqlTypeOK
    <3>2. channel'[s] = channel[s] \o records
      BY <1>1, <1>7, <2>1 DEF Commit, Broadcast
    <3>3. QED
      BY <3>1, <3>2, ConcatWithin
  <2>4. QED
    BY <2>2, <2>3 DEF JoinedInv, Reached
<1>8. QED
  BY <1>2, <1>4, <1>5, <1>6, <1>7, QuietSteps

(* Channels lose nothing until they are left.                              *)
LEMMA SubscriptionsKeepJoined ==
  ASSUME DeliveryInv, JoinedInv, NEW s \in Subscription, SubscriptionStep(s)
  PROVE  JoinedInv'
<1> USE DEF DeliveryInv, SqlInv
<1>1. rows' = rows /\ scopeOf' = scopeOf
  BY DEF SubscriptionStep, Subscribe, ChannelJoins, Unsubscribe, RealtimeRow, tableVars, rigid
<1>2. joined \subseteq Subscription /\ before \in [Subscription -> SUBSET Row]
      /\ channel \in [Subscription -> Seq(Row)] /\ delivered \in [Subscription -> Seq(Row)]
  BY DEF TypeInv, SqlTypeOK
<1>3. CASE Subscribe(s)
  BY <1>1, <1>3 DEF Subscribe, JoinedInv, Reached, channelVars
<1>4. CASE ChannelJoins(s)
  <2>1. joined' = joined \cup {s} /\ channel' = channel /\ delivered' = delivered
        /\ before'[s] = rows /\ \A u \in joined : u # s => before'[u] = before[u]
    BY <1>2, <1>4 DEF ChannelJoins
  <2>2. QED
    BY <1>1, <2>1 DEF JoinedInv, Reached
<1>5. CASE Unsubscribe(s)
  <2>1. joined' = joined \ {s} /\ delivered' = delivered
        /\ \A u \in joined \ {s} : before'[u] = before[u] /\ channel'[u] = channel[u]
    BY <1>2, <1>5 DEF Unsubscribe
  <2>2. QED
    BY <1>1, <2>1 DEF JoinedInv, Reached
<1>6. CASE RealtimeRow(s)
  <2>1. PICK queue \in Seq(Row) : queue = channel[s] /\ queue # <<>>
    BY <1>2, <1>6 DEF RealtimeRow
  <2>2. /\ joined' = joined /\ before' = before /\ channel'[s] = Tail(queue)
        /\ \A u \in joined : u # s => channel'[u] = channel[u] /\ delivered'[u] = delivered[u]
        /\ delivered'[s] = IF Head(queue).scope = scopeOf[s]
                           THEN Append(delivered[s], Head(queue)) ELSE delivered[s]
    BY <1>2, <1>6, <2>1 DEF RealtimeRow, InScope
  <2>3. /\ Head(queue) \in Row
        /\ \A r : r \in Within(queue) <=> r = Head(queue) \/ r \in Within(Tail(queue))
    BY <2>1, HeadTailProperties, TailWithin
  <2>4. \A r : r \in Within(Append(delivered[s], Head(queue)))
                 <=> r \in Within(delivered[s]) \/ r = Head(queue)
    BY <1>2, <2>3, AppendWithin
  <2>5. \A r : Reached(s, r) => Reached(s, r)'
    BY <1>1, <2>1, <2>2, <2>3, <2>4 DEF Reached
  <2>6. \A u \in joined : u # s => \A r : Reached(u, r) => Reached(u, r)'
    BY <1>1, <2>2 DEF Reached
  <2>7. QED
    BY <1>1, <2>2, <2>5, <2>6 DEF JoinedInv
<1>7. QED
  BY <1>3, <1>4, <1>5, <1>6 DEF SubscriptionStep

(* From the moment its channel has joined until it leaves, every row of    *)
(* its scope that is committed has been handled by a Realtime subscription *)
(* or is under way, also when the answer of the append was lost.           *)
THEOREM JoinedChannelsAreComplete == Spec => []JoinedChannelsMissNothing
<1>1. Init => JoinedInv
  BY DEF Init, JoinedInv
<1>2. ASSUME DeliveryInv, JoinedInv, [Next]_vars PROVE JoinedInv'
  <2>1. ASSUME NEW c \in Scope, CloseNotifier(c) PROVE JoinedInv'
    BY <1>2, <2>1 DEF CloseNotifier, JoinedInv, Reached, channelVars, rigid, tableVars
  <2>2. CASE UNCHANGED vars
    BY <1>2, <2>2 DEF vars, JoinedInv, Reached, channelVars, rigid, tableVars
  <2>3. QED
    BY <1>2, <2>1, <2>2, CallStepKeepsJoined, SubscriptionsKeepJoined DEF Next
<1>3. DeliveryInv /\ JoinedInv => JoinedChannelsMissNothing
  <2> SUFFICES ASSUME DeliveryInv, JoinedInv, NEW s \in joined, NEW r \in rows \ before[s],
                      InScope(scopeOf[s], r)
               PROVE  \/ \E i \in DOMAIN channel[s] : channel[s][i] = r
                      \/ \E i \in DOMAIN delivered[s] : delivered[s][i] = r
    BY DEF JoinedChannelsMissNothing
  <2>1. r \in Within(channel[s]) \/ r \in Within(delivered[s])
    BY DEF JoinedInv, Reached, InScope
  <2>2. QED
    BY <2>1 DEF Within
<1>4. DeliveryInv /\ [Next]_vars => DeliveryInv'
  BY StepKeepsRows
<1>5. QED
  BY <1>1, <1>2, <1>3, <1>4, InitRows, PTL DEF Spec
=============================================================================
