---------------------------- MODULE MCResolution ----------------------------
(***************************************************************************)
(* Resolution for TLC: the access points are interchangeable.              *)
(***************************************************************************)
EXTENDS Resolution, TLC

Symmetry == Permutations(APs)
=============================================================================
