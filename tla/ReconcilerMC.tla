---------------------------- MODULE ReconcilerMC ----------------------------
(* Instances of the reconciler for TLC. *)
EXTENDS Reconciler, TLC

SymmetricVariants == Permutations(Variants)
=============================================================================
