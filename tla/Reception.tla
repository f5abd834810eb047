------------------------------ MODULE Reception -------------------------------
(***************************************************************************)
(* One reception with everybody who changes it at the same time: users who *)
(* merge its recordings or queue and cancel audio operations, the          *)
(* automation that merges, segments and tags it, the workers and the       *)
(* reconciler of audio operations, and the erasure of its recordings       *)
(* (services/reception_erasure.py).                                        *)
(***************************************************************************)
EXTENDS ReceptionPipeline, AudioOperation

(* Mutant: an erasure leaves the automation where it is.                   *)
RunKept == run

RunReset ==
  [status |-> "pending", live |-> FALSE, stage |-> "merge", owner |-> NoOwner]

(* Mutant: the files a merge has replaced are not erased.                  *)
ListedUnlessRetired == {p \in Paths : art[p] \in {"READY", "ATTACHED"}}

(* A row names the encrypted file from READY on, and the file it was going *)
(* to be encrypted from before that.                                       *)
Listed == {p \in Paths : art[p] \in {"READY", "ATTACHED", "RETIRED", "ORPHANED"}}
Unlisted == {p \in Paths \ Held : art[p] \in {"PREPARING", "FAILED"} /\ disk[p] # Empty}

(* invalidate_receptions_for_recording: the rows of a reception that loses *)
(* a recording of its timeline.                                            *)
Files == Listed \cup ({visit.audio} \cap Paths)

Invalidate(r) ==
  /\ visit' = [visit EXCEPT !.timeline = Without[@][r], !.units = Empty, !.tags = Empty,
                            !.audio = NoPath, !.status = "needs_review"]
  /\ lost' = lost \cup Unlisted
  /\ art' = [p \in Paths |-> "none"]
  /\ op' = NoOperation
  /\ run' = RunReset
  /\ fresh' = {}
  /\ disturbed' = FALSE

(* A request of the person concerned: one transaction deletes the          *)
(* recording and puts the files into the outbox.                           *)
Erase(r) ==
  /\ r \in alive \cap Erasable
  /\ alive' = alive \ {r}
  /\ IF r \in Uses[visit.timeline]
       THEN Invalidate(r) /\ owed' = owed \cup Files
       ELSE UNCHANGED <<visit, owed, lost, art, op, run, fresh, disturbed>>
  /\ UNCHANGED <<disk, wk, blind, troubles>>

(* erase_reception_artifacts, when the outbox is drained.                  *)
EraseFiles ==
  /\ owed # {}
  /\ disk' = Emptied(owed)
  /\ owed' = {}
  /\ UNCHANGED <<visit, alive, art, run, op, wk, fresh, lost, blind, disturbed, troubles>>

(* The retention sweep (core/retention.py) has no outbox: it deletes the   *)
(* files inside the transaction, under the lock of the reception, and      *)
(* commits last.                                                           *)
Sweep(r) ==
  /\ r \in alive \cap Erasable
  /\ alive' = alive \ {r}
  /\ IF r \in Uses[visit.timeline]
       THEN Invalidate(r) /\ disk' = Emptied(Files)
       ELSE UNCHANGED <<visit, disk, lost, art, op, run, fresh, disturbed>>
  /\ UNCHANGED <<wk, owed, blind, troubles>>

(* Files are gone, and a deletion, the commit or the process fails.        *)
SweepRollsBack(r) ==
  /\ r \in alive \cap Erasable /\ r \in Uses[visit.timeline]
  /\ troubles < MaxTroubles /\ troubles' = troubles + 1
  /\ \E ps \in SUBSET Files :
       /\ disk' = Emptied(ps)
       /\ blind' = blind \cup ({visit.audio} \cap ps)
  /\ UNCHANGED <<visit, alive, art, run, op, wk, fresh, owed, lost, disturbed>>

-----------------------------------------------------------------------------
UserStep(u) == Submit(u) \/ Ask(u) \/ Cancel(u)

Recovery ==
  \/ ExpireRun \/ ExpireOperation \/ ReconcileStale \/ EraseFiles
  \/ \E p \in Paths : Reclaim(p)

Mishap(a) ==
  \/ Abort(a) \/ AbortEncrypting(a) \/ RetireFails(a) \/ Crash(a)
  \/ CommitMergeUnacknowledged(a) \/ CommitOperationUnacknowledged(a)

Next ==
  \/ \E u \in Users : UserStep(u)
  \/ \E n \in Runners : ClaimRun(n) \/ RenewRun(n) \/ RunnerStep(n)
  \/ \E w \in Workers : Claim(w) \/ RenewOperation(w) \/ WorkerStep(w)
  \/ \E a \in Actors : MergeStep(a) \/ Mishap(a)
  \/ \E r \in Recordings : Erase(r) \/ Sweep(r) \/ SweepRollsBack(r)
  \/ Recovery

Spec == Init /\ [][Next]_vars

(* Work that was begun goes on, the reconciler polls every five seconds    *)
(* and time passes for a lease nobody renews.  Nobody has to claim the     *)
(* automation, and nobody has to ask for anything.                         *)
Work(a) == MergeStep(a) \/ Claim(a) \/ WorkerStep(a)

Fairness ==
  /\ \A a \in Actors : WF_vars(Work(a))
  /\ WF_vars(ExpireOperation /\ ~Alive(op.owner)) /\ WF_vars(ReconcileStale)
  /\ WF_vars(EraseFiles) /\ WF_vars(\E p \in Paths : Reclaim(p))

FairSpec == Spec /\ Fairness

-----------------------------------------------------------------------------
(* The merged audio of a reception exists and plays its timeline, however  *)
(* merges, operations, erasures, sweeps and reclaims overlap, with two     *)
(* exceptions (blind): the commit that published it was not acknowledged   *)
(* (receptions.py:454), or a retention sweep deleted it in a transaction   *)
(* that was rolled back (retention.py:355).                                *)
MergedAudioPlays ==
  visit.audio # NoPath =>
    \/ disk[visit.audio] = visit.timeline
    \/ disk[visit.audio] = Empty /\ visit.audio \in blind

(* Units and tags are those of the timeline the reception has now, and all *)
(* recordings on it exist: a segmentation that was under way, or an        *)
(* attempt that lost its lease, never leaves units of another timeline.    *)
DerivedFromTimeline ==
  /\ visit.units \in {Empty, visit.timeline} /\ visit.tags \in {Empty, visit.units}
  /\ Uses[visit.timeline] \subseteq alive

(* Every file is the merged audio, named by a row, owed by an erasure, in  *)
(* the hands of somebody at work, or lost with the one who held it: no     *)
(* conflict, cancellation, takeover or retry leaves audio behind.          *)
FilesAreAccountedFor ==
  \A p \in Paths :
    disk[p] # Empty =>
      \/ p = visit.audio \/ art[p] \in Kept
      \/ p \in owed \cup lost \cup Held

(* At most one generation is being prepared, for an operation at work.     *)
OneGeneration ==
  \A p \in InWork :
    /\ op.status \in {"assembling", "verifying"}
    /\ \A q \in InWork : q = p

(* A reception is reported ready with units of its timeline that are       *)
(* tagged, although its stages do not look at the lease; only a merge in   *)
(* the middle of an automation can take them away.                         *)
ReadyIsEarned ==
  visit.status = "ready" =>
    \/ visit.timeline # Empty /\ visit.units = visit.timeline /\ visit.tags = visit.units
    \/ disturbed

(* An operation that was accepted ends, whatever happens to its workers,   *)
(* where there are any.                                                    *)
Staffed == \E w \in Workers : ~At(w, "off")

OperationsEnd ==
  (op.status \in Active \cup {"queued"} /\ Staffed) ~>
    op.status \in {"none", "succeeded", "failed", "cancelled"}

(* Again and again nothing is left but the merged audio, and files that    *)
(* nobody can know of: every other file is deleted or becomes it.          *)
Tidy == \A p \in Paths : disk[p] # Empty => p \in {visit.audio} \cup lost

LeftoversGo == []<>Tidy
=============================================================================
