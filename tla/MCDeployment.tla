---------------------------- MODULE MCDeployment ----------------------------
(***************************************************************************)
(* Deployment for TLC: an operator who sets one of the options to a value  *)
(* that is refused or wraps around.                                        *)
(***************************************************************************)
EXTENDS Deployment

MCEdits == {<<"wifi_interval", 7>>, <<"wifi_interval", 1>>}
MCNames == <<"key 1", "key 2", "key 3">>
=============================================================================
