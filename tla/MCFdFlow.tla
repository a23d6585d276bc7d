------------------------------ MODULE MCFdFlow ------------------------------
(***************************************************************************)
(* Small instances of FdFlow.                                              *)
(***************************************************************************)
EXTENDS FdFlow, TLC

CONSTANTS p1, p2, t1, t1b, t2, secret, q, k, l, a, e

(* p1 has the threads t1 and t1b, its child p2 has t2.                     *)
Threads == [t \in Tids |-> IF t = t2 THEN p2 ELSE p1]
Symmetry == Permutations({t1, t1b}) \cup Permutations({k, l})
============================================================================
