--------------------------- MODULE MCReadWriteLock ---------------------------
(* The lock on its own, used by four calls: enough for two readers granted *)
(* together while a writer and a later reader wait behind them.            *)
EXTENDS ReadWriteLock
CONSTANTS p1, p2, p3, p4
=============================================================================
