---------------------------- MODULE MCPipelineRun ----------------------------
(* PipelineRun on two generations of a recording and at most two workers,  *)
(* one of which may be configured to claim two runs at a poll.             *)
EXTENDS PipelineRun

Ones == [w \in Workers |-> 1]
OneTakesTwo == [Ones EXCEPT ![CHOOSE w \in Workers : TRUE] = 2]
=============================================================================
