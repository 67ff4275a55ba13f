---------------------------- MODULE MCReconciler ----------------------------
(***************************************************************************)
(* Small instances of Reconciler for TLC.                                  *)
(***************************************************************************)
EXTENDS ReconcilerProperties

AllNodes == {Node}
AnyNodes == SUBSET Node

OneBatch == [n \in Node |-> 0]          \* Batched, one batch
OnePerBatch == [n \in Node |-> n - 1]   \* Serial: one node per batch
ThreeThenOne == [n \in Node |-> IF n <= 3 THEN 0 ELSE 1]
=============================================================================
