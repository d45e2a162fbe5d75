----------------------------- MODULE MCReports -----------------------------
(***************************************************************************)
(* Reports for TLC, with four clock units to a millisecond.                *)
(***************************************************************************)
EXTENDS Reports

MCInstants == {4, 5, 6, 7, 8}
MCClock == {0, 5, 6, 13, 16}
=============================================================================
