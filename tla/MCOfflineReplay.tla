--------------------------- MODULE MCOfflineReplay ---------------------------
(* Two releases in a row: the second transaction was computed for the      *)
(* package set the first one produces.                                     *)
EXTENDS OfflineReplay

CONSTANTS t1, t2
MCBaseline == [t \in Txs |-> IF t = t1 THEN Base ELSE t1]
=============================================================================
