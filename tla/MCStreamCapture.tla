--------------------------- MODULE MCStreamCapture ----------------------------
(***************************************************************************)
(* A small capture for TLC: with one permit in the pool two frames, one    *)
(* trouble and an abandoned handler that holds the permit the next one     *)
(* waits for; with two permits one frame and two handlers at work at the   *)
(* same time.                                                              *)
(***************************************************************************)
EXTENDS StreamCapture

MCLength == [n \in PoolSizes |-> IF n = 1 THEN 2 ELSE 1]
MCTroubles == [n \in PoolSizes |-> IF n = 1 THEN 1 ELSE 0]
=============================================================================
