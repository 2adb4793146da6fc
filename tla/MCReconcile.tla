---------------------------- MODULE MCReconcile ----------------------------
(* One packet from Teleport, which may fail, and two to it. *)
EXTENDS Reconcile, TLC

CONSTANTS out, in1, in2

MCUnits == out :> 2 @@ in1 :> 1 @@ in2 :> 1
=============================================================================
