----------------------------- MODULE MCTenants -----------------------------
(* The life of a tenant for TLC. *)
EXTENDS Tenants, TLC

Symmetry == Permutations(Workers)
=============================================================================
