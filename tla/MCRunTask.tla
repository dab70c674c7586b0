----------------------------- MODULE MCRunTask -----------------------------
(* An instance of RunTask for TLC: caps small enough that every one of them *)
(* (iterations, steps, budget, checkpoint) is reached.                      *)
EXTENDS RunTask
CONSTANTS a, b
MCTaskIds == {a}
=============================================================================
