----------------------------- MODULE MCSelfmod ------------------------------
(* Instances of Selfmod for TLC. *)
EXTENDS Selfmod
=============================================================================
