---------------------------- MODULE MCTaskWorker ----------------------------
(* Instances of TaskWorker for TLC: two tasks, each dispatched up to twice  *)
(* (a redelivery or a second local task of the same millisecond).           *)
EXTENDS TaskWorker
CONSTANTS a, b
MCTaskIds == {a, b}
=============================================================================
