------------------------------ MODULE MCClaims ------------------------------
(* The claim model for TLC: acquisitions are interchangeable.              *)
EXTENDS Claims, TLC

Symmetry == Permutations(Incs)
=============================================================================
