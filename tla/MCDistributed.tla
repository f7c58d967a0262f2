--------------------------- MODULE MCDistributed ---------------------------
(* Model-checking instance of Distributed: one layer of two tasks.           *)
EXTENDS Distributed

CONSTANTS t1, t2, n1, n2

MCLayers == <<<<t1, t2>>>>

(* Both tasks go to one node, or to one node each.                           *)
OneNode == <<n1>>

TwoNodes == <<n1, n2>>

OneTask == <<<<t1>>>>
=============================================================================
