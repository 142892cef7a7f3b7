---------------------------- MODULE MCKeystores ----------------------------
(* Small instances of Keystores.                                           *)
EXTENDS Keystores, TLC

Symmetry == Permutations(Tenants)
=============================================================================
