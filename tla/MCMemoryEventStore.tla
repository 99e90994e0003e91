-------------------------- MODULE MCMemoryEventStore --------------------------
(* Small instances of the in-memory store.  Events have two types; the     *)
(* queries are an unfiltered one (whose result is the live array), one per *)
(* type, and one that loads only events after the first.                   *)
EXTENDS MemoryEventStore, TLC

CONSTANTS a, b

Filtered(types, min) == [types |-> types, min |-> min]

MCQuery     == {AllEvents, Filtered({a}, 1)}
MCOneQuery  == {Filtered({a}, 0)}
MCNoQuery   == {}
MCBatch     == {<<a>>, <<b>>}
MCBatches   == {<<>>, <<a>>, <<a, b>>}
MCOneBatch  == {<<a>>}

(* Callers without a role of their own are interchangeable.                *)
SymmetricCallers == Permutations(Proc \ (Workflow \cup Saver))
=============================================================================
