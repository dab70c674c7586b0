----------------------------- MODULE MCStreamer -----------------------------
(* Instances of Streamer for TLC. *)
EXTENDS Streamer
CONSTANTS v1, v2, desktop, window
MCViewers == {v1, v2}
MCScreens == {desktop, window}
=============================================================================
