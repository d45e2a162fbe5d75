----------------------------- MODULE MCPollLoop -----------------------------
(***************************************************************************)
(* PollLoop for TLC.  The access points are interchangeable, but the run   *)
(* checks liveness, for which TLC's symmetry reduction is unsound.         *)
(***************************************************************************)
EXTENDS PollLoop
=============================================================================
