---------------------------- MODULE MCReconciler ----------------------------
(* Bounded instances of the reconcile loop. *)
EXTENDS Reconciler, TLC
=============================================================================
