--------------------------- MODULE ReceptionPipeline ---------------------------
(***************************************************************************)
(* The automation of an accepted reception                                 *)
(* (services/reception_pipeline.py): merge, segmentation, tagging, ready.  *)
(* A run has a lease of 15 minutes, which a heartbeat renews, and keeps    *)
(* the stage it has reached.  The stages themselves do not look at the     *)
(* lease: they are transactions of other services, guarded by the version  *)
(* of the reception or by nothing, and the run's row is written after.     *)
(*                                                                         *)
(* A claim draws a new token; a runner has one claim at a time, so the     *)
(* token is the runner.                                                    *)
(***************************************************************************)
EXTENDS ReceptionAudio

Untouched == <<alive, art, op, owed, lost, blind, troubles>>

Owns(n) == run.status = "running" /\ run.owner = n

(* _claim                                                                  *)
RunClaimable == run.status # "ready" /\ ~(run.status = "running" /\ run.live)

ClaimRun(n) ==
  /\ n \in Runners /\ At(n, "idle")
  /\ RunClaimable
  /\ run' = [run EXCEPT !.status = "running", !.owner = n, !.live = TRUE]
  /\ visit' = [visit EXCEPT !.status = "processing"]
  /\ Goto(n, "advance")
  /\ UNCHANGED <<disk, fresh, disturbed, Untouched>>

(* The stage the row of the run names, in a session that is closed before  *)
(* the stage begins.                                                       *)
AdvanceMerge(n) ==
  /\ n \in Runners /\ At(n, "advance") /\ run.stage = "merge"
  /\ IF visit.physical /\ visit.audio = NoPath
       THEN IF visit.timeline = Empty
              THEN Goto(n, "fail") /\ UNCHANGED fresh
              ELSE /\ Becomes(n, "prepare", visit.timeline, NoPath, NoPath)
                   /\ fresh' = fresh \cup {n}
       ELSE Goto(n, "checkpoint") /\ UNCHANGED fresh
  /\ UNCHANGED <<visit, disk, run, disturbed, Untouched>>

AdvanceSegmentation(n) ==
  /\ n \in Runners /\ At(n, "advance") /\ run.stage = "segmentation"
  /\ IF visit.units # Empty
       THEN Goto(n, "checkpoint") /\ UNCHANGED fresh
       ELSE IF visit.timeline = Empty
              THEN Goto(n, "fail") /\ UNCHANGED fresh
              ELSE /\ Becomes(n, "segment", visit.timeline, NoPath, NoPath)
                   /\ fresh' = fresh \cup {n}
  /\ UNCHANGED <<visit, disk, run, disturbed, Untouched>>

(* Mutant: the inputs are not compared again after the provider answered.  *)
InputsUnchangedUnchecked(n) == TRUE

InputsUnchanged(n) == n \in fresh /\ visit.units = Empty /\ visit.timeline = wk[n].want

(* segment_reception, after the provider has answered.                     *)
Segment(n) ==
  /\ n \in Runners /\ At(n, "segment")
  /\ IF InputsUnchanged(n)
       THEN /\ visit' = [visit EXCEPT !.units = wk[n].want]
            /\ fresh' = {}
            /\ Rest(n, "checkpoint")
       ELSE Rest(n, "fail") /\ UNCHANGED <<visit, fresh>>
  /\ UNCHANGED <<disk, run, disturbed, Untouched>>

(* derive: one transaction under the lock of the reception.  A reception   *)
(* without units has nothing to tag, which is no error.                    *)
AdvanceTagging(n) ==
  /\ n \in Runners /\ At(n, "advance") /\ run.stage = "tagging"
  /\ visit' = [visit EXCEPT !.tags = visit.units]
  /\ Goto(n, "checkpoint")
  /\ UNCHANGED <<disk, run, fresh, disturbed, Untouched>>

NextStage(stage) ==
  CASE stage = "merge" -> "segmentation" [] stage = "segmentation" -> "tagging"
    [] stage = "tagging" -> "ready" [] OTHER -> stage

(* _mark_checkpoint                                                        *)
Checkpoint(n) ==
  /\ n \in Runners /\ At(n, "checkpoint")
  /\ IF Owns(n)
       THEN /\ run' = [run EXCEPT !.stage = NextStage(run.stage), !.live = TRUE]
            /\ Rest(n, "advance")
       ELSE Rest(n, "fail") /\ UNCHANGED run
  /\ UNCHANGED <<visit, disk, fresh, disturbed, Untouched>>

(* _mark_ready                                                             *)
MarkReady(n) ==
  /\ n \in Runners /\ At(n, "advance") /\ run.stage = "ready"
  /\ IF Owns(n)
       THEN /\ visit' = [visit EXCEPT !.status = "ready"]
            /\ fresh' = {}
            /\ run' = [run EXCEPT !.status = "ready", !.owner = NoOwner, !.live = FALSE]
            /\ Rest(n, "idle")
       ELSE Rest(n, "fail") /\ UNCHANGED <<visit, fresh, run>>
  /\ UNCHANGED <<disk, disturbed, Untouched>>

(* _mark_failed                                                            *)
MarkFailed(n) ==
  /\ n \in Runners /\ At(n, "fail")
  /\ IF run.owner = n
       THEN /\ run' = [run EXCEPT !.status = "failed", !.owner = NoOwner, !.live = FALSE]
            /\ visit' = [visit EXCEPT !.status = IF @ = "processing" THEN "needs_review"
                                                 ELSE @]
       ELSE UNCHANGED <<run, visit>>
  /\ Rest(n, "idle")
  /\ UNCHANGED <<disk, fresh, disturbed, Untouched>>

Busy(a) == wk[a].at \notin {"off", "idle", "done"}

(* The heartbeat of a runner whose lease ran out before anybody took over. *)
RenewRun(n) ==
  /\ n \in Runners /\ Busy(n) /\ Owns(n) /\ ~run.live
  /\ run' = [run EXCEPT !.live = TRUE]
  /\ UNCHANGED <<visit, disk, wk, fresh, disturbed, Untouched>>

(* The lease runs out: the runner is dead, or it is stalled.               *)
ExpireRun ==
  /\ run.status = "running" /\ run.live
  /\ IF Busy(run.owner)
       THEN troubles < MaxTroubles /\ troubles' = troubles + 1
       ELSE UNCHANGED troubles
  /\ run' = [run EXCEPT !.live = FALSE]
  /\ UNCHANGED <<visit, alive, disk, art, op, wk, fresh, owed, lost, blind, disturbed>>

RunnerStep(n) ==
  \/ AdvanceMerge(n) \/ AdvanceSegmentation(n) \/ Segment(n) \/ AdvanceTagging(n)
  \/ Checkpoint(n) \/ MarkReady(n) \/ MarkFailed(n)
=============================================================================
