---------------------------- MODULE MCGpsdServer ----------------------------
(***************************************************************************)
(* GpsdServer for TLC: the clients are interchangeable.                    *)
(***************************************************************************)
EXTENDS GpsdServer, TLC

Symmetry == Permutations(Clients)
=============================================================================
