----------------------------- MODULE MCWifiScan -----------------------------
(***************************************************************************)
(* WifiScan for TLC.  BSSIDs are symmetric: the code only compares them.   *)
(***************************************************************************)
EXTENDS WifiScan

Symmetry == Permutations(BSSIDs)

MCSignals == {-80, -40}
MCNoSignal == -127
=============================================================================
