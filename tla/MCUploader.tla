----------------------------- MODULE MCUploader -----------------------------
(***************************************************************************)
(* Uploader for TLC.                                                       *)
(***************************************************************************)
EXTENDS Uploader
=============================================================================
