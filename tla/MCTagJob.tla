------------------------------- MODULE MCTagJob -------------------------------
(* TagJob on two workers (MCTagJob.cfg) and on one (MCTagJobSkip.cfg).     *)
EXTENDS TagJob

(* No hard budget, one of time only, and one of a provider call and time;  *)
(* one of a call only does nothing the last does not.                      *)
MCBudgets == {[calls |-> 0, wall |-> FALSE], [calls |-> 0, wall |-> TRUE],
              [calls |-> 1, wall |-> TRUE]}

(* A budget of time only, whose jobs publish before they complete.         *)
TimeOnly == {[calls |-> 0, wall |-> TRUE]}
=============================================================================
