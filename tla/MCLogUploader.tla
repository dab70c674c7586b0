--------------------------- MODULE MCLogUploader ----------------------------
(* Instances of LogUploader for TLC. *)
EXTENDS LogUploader
MCRecords == 1 .. MaxRecords
=============================================================================
