--------------------------- MODULE MCSqlEventStore ---------------------------
(* Small instances of the stores over a table.  The second caller belongs  *)
(* to the tenant of the first one or to another.  The lists of filters are *)
(* one filter, an empty one, two, and (asked for before anything else is   *)
(* read) none at all.                                                      *)
EXTENDS SqlEventStore

CONSTANTS a, b, c1, c2, s1, t1, t2

MCDeployment == {f \in [Proc \cup Subscription -> Scope] :
                   \A x \in DOMAIN f : x # c2 => f[x] = t1}

(* The first caller reads, decides and reads on; the others get in between. *)
MCCalls == [p \in Proc |-> IF p = c1 THEN 3 ELSE 1]
MCTwice == [p \in Proc |-> 2]

MCFilters    == {<<{a}>>}
MCAllFilters == {<<{}>>, <<{a}>>}
MCTwoFilters == {<<{a}, {b}>>, <<{a}, {}>>}
MCBatch      == {<<a>>}
MCBatches    == {<<>>, <<a, b>>}

(* Left out is what no later step and no property depends on: the outcome  *)
(* of a call that is over; what a caller has gathered, which only the      *)
(* property about D1 reads; the last result of a caller that makes no      *)
(* other call; what an unconditional append() was decided on and what its  *)
(* statement reads; and the arguments of an append() that is committed.    *)
Call(p) ==
  IF pc[p] \in {"committed", "notifying"} THEN inserted[p]
  ELSE IF args[p].conditional THEN <<args[p], snapshot[p], inserted[p]>>
  ELSE <<args[p].query, args[p].batch, inserted[p]>>

Result(p) ==
  IF Atomic THEN <<view[p], collected[p]>>
  ELSE IF calls[p] = MaxCalls[p] THEN <<>> ELSE view[p]

MCView == <<rigid, tableVars, pc, calls, poolVars, handling, subVars, channelVars,
            delivered, [p \in Proc |-> <<Call(p), Result(p)>>]>>
=============================================================================
