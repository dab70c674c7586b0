---------------------------- MODULE MCWsSession -----------------------------
(* Instances of WsSession for TLC. *)
EXTENDS WsSession
MCFrames == {1, 2}

\* The hypothesis of PausesDouble (SessionProofs), for the powers TLC can compute.
ASSUME SmallPowersOfTwo ==
  2 ^ 0 = 1 /\ \A n \in 0 .. 29 : 2 ^ n \in Nat /\ 2 ^ (n + 1) = 2 * 2 ^ n
=============================================================================
