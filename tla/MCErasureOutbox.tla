--------------------------- MODULE MCErasureOutbox ----------------------------
(* Two processes; an erasure request meets a reconciler of either process, *)
(* an attempt to index or the retention sweep.                             *)
EXTENDS ErasureOutbox, TLC

MCHome == [a \in {"dsar", "near", "sweep", "index"} |-> "p1"] @@ ("far" :> "p2")
MCTeams == {{"dsar", "far"}, {"dsar", "near", "index"}, {"sweep", "near", "index"}}
=============================================================================
