---------------------------- MODULE MCReconcile ----------------------------
(* Instances of Reconcile for TLC: two devices contend for two managed     *)
(* addresses on a hub with one peer of its own, which may straddle the     *)
(* boundary of the managed range.                                          *)
EXTENDS Reconcile, TLC

Symmetry == Permutations(Keys) \union Permutations(Managed)
=============================================================================
