---------------------------- MODULE AudioOperation -----------------------------
(***************************************************************************)
(* An asynchronous merge (services/reception_audio_operations.py): a user  *)
(* plans it and queues it, a worker of any process claims it under a lease *)
(* that a heartbeat renews, and the transaction of the merge publishes it. *)
(* Before the file of a physical merge is written its path is registered   *)
(* in a row PREPARING of reception_audio_artifacts, so that a reconciler   *)
(* can delete what a dead worker left.                                     *)
(*                                                                         *)
(* The row of an artifact outlives its operation, and a new operation is   *)
(* accepted only when the one before has ended: op is the latest one.  The *)
(* stages slicing, assembling and encrypting, which only the progress bar  *)
(* tells apart, are one.                                                   *)
(***************************************************************************)
EXTENDS ReceptionAudio

Elsewhere == <<alive, run, owed, lost, blind>>

(* create_plan and create_operation.  A plan holds every mapped recording; *)
(* in mode "physical" it may not change their timeline, in "both" it may.  *)
Ask(u) ==
  /\ u \in Users /\ At(u, "idle")
  /\ op.status \in {"none", "succeeded", "failed", "cancelled"}
  /\ \E t \in Timelines \ {Empty}, physical \in BOOLEAN :
       /\ Uses[t] = Uses[visit.timeline]
       /\ op' = [NoOperation EXCEPT !.status = "queued", !.want = t, !.physical = physical]
  /\ fresh' = fresh \cup {Operation}
  /\ Rest(u, "done")
  /\ UNCHANGED <<visit, disk, art, disturbed, troubles, Elsewhere>>

(* cancel_operation                                                        *)
Cancel(u) ==
  /\ u \in Users /\ At(u, "idle")
  /\ op.status \in Active \cup {"queued"}
  /\ op' = [op EXCEPT !.cancel = TRUE,
                      !.status = IF @ \in {"queued", "claimed", "probing"} THEN "cancelled"
                                 ELSE @]
  /\ Rest(u, "done")
  /\ UNCHANGED <<visit, disk, art, fresh, disturbed, troubles, Elsewhere>>

-----------------------------------------------------------------------------
(* run_operation                                                           *)

Claim(w) ==
  /\ w \in Workers /\ At(w, "idle") /\ op.status = "queued"
  /\ op' = [op EXCEPT !.status = "claimed", !.owner = w, !.live = TRUE, !.attempts = @ + 1]
  /\ Goto(w, "probe")
  /\ UNCHANGED <<visit, disk, art, fresh, disturbed, troubles, Elsewhere>>

Leads(w, status) == op.owner = w /\ op.status = status

(* _load_claimed and the stage "probing".  The worker keeps the version    *)
(* and the plan it has read.                                               *)
Probe(w) ==
  /\ w \in Workers /\ At(w, "probe")
  /\ IF Leads(w, "claimed")
       THEN /\ op' = [op EXCEPT !.status = "probing", !.live = TRUE]
            /\ Becomes(w, IF op.cancel THEN "cancel" ELSE "slice", op.want, NoPath, NoPath)
            /\ fresh' = IF Operation \in fresh THEN fresh \cup {w} ELSE fresh \ {w}
       ELSE Rest(w, "fail") /\ UNCHANGED <<op, fresh>>
  /\ UNCHANGED <<visit, disk, art, disturbed, troubles, Elsewhere>>

(* The stages up to "assembling" and _register_preparing_artifact, or for  *)
(* a logical merge the stage "verifying".                                  *)
Slice(w) ==
  /\ w \in Workers /\ At(w, "slice")
  /\ IF Leads(w, "probing")
       THEN IF op.physical
              THEN \E p \in Free :
                     /\ \A q \in Free : p <= q
                     /\ op' = [op EXCEPT !.status = "assembling", !.live = TRUE]
                     /\ art' = [art EXCEPT ![p] = "PREPARING"]
                     /\ Becomes(w, "prepare", wk[w].want, p, NoPath)
              ELSE /\ op' = [op EXCEPT !.status = "verifying", !.live = TRUE]
                   /\ Goto(w, "commit")
                   /\ UNCHANGED art
       ELSE Rest(w, "fail") /\ UNCHANGED <<op, art>>
  /\ UNCHANGED <<visit, disk, fresh, disturbed, troubles, Elsewhere>>

(* on_physical_stage: encrypting and verifying.                            *)
Verify(w) ==
  /\ w \in Workers /\ At(w, "verify")
  /\ IF Leads(w, "assembling")
       THEN /\ op' = [op EXCEPT !.status = "verifying", !.live = TRUE]
            /\ Goto(w, "register")
            /\ UNCHANGED disk
       ELSE /\ disk' = Emptied({wk[w].file})
            /\ Rest(w, "fail")
            /\ UNCHANGED op
  /\ UNCHANGED <<visit, art, fresh, disturbed, troubles, Elsewhere>>

(* _mark_artifact_ready                                                    *)
Register(w) ==
  /\ w \in Workers /\ At(w, "register")
  /\ IF Leads(w, "verifying") /\ disk[wk[w].file] # Empty /\ art[wk[w].file] = "PREPARING"
       THEN /\ art' = [art EXCEPT ![wk[w].file] = "READY"]
            /\ Goto(w, "commit")
            /\ UNCHANGED disk
       ELSE /\ disk' = Emptied({wk[w].file})
            /\ Rest(w, "fail")
            /\ UNCHANGED art
  /\ UNCHANGED <<visit, op, fresh, disturbed, troubles, Elsewhere>>

Attached(p) ==
  [q \in Paths |-> IF q = p THEN "ATTACHED"
                   ELSE IF art[q] = "ATTACHED" /\ p # visit.audio THEN "RETIRED"
                   ELSE art[q]]

(* _publish_in_session, a hook inside the transaction of the merge.        *)
Publishable(w) ==
  /\ Current(w) /\ Leads(w, "verifying") /\ ~op.cancel
  /\ wk[w].file # NoPath => art[wk[w].file] = "READY" /\ disk[wk[w].file] # Empty

Succeed ==
  op' = [op EXCEPT !.status = "succeeded", !.owner = NoOwner, !.live = FALSE]

CommitOperation(w) ==
  /\ w \in Workers /\ At(w, "commit")
  /\ IF Publishable(w)
       THEN Publish(w) /\ art' = Attached(wk[w].file) /\ Succeed
            /\ Retiring(w) /\ UNCHANGED disk
       ELSE /\ disk' = Emptied({wk[w].file})
            /\ Rest(w, IF Current(w) /\ Leads(w, "verifying") /\ op.cancel
                         THEN "cancel" ELSE "fail")
            /\ UNCHANGED <<visit, fresh, disturbed, art, op>>
  /\ UNCHANGED <<troubles, Elsewhere>>

CommitOperationUnacknowledged(w) ==
  /\ w \in Workers /\ At(w, "commit") /\ troubles < MaxTroubles
  /\ Publishable(w)
  /\ Unacknowledged(w) /\ art' = Attached(wk[w].file) /\ Succeed
  /\ lost' = lost \cup {p \in {visit.audio} \cap Paths : art'[p] \notin Kept}
  /\ UNCHANGED <<alive, run, owed>>

-----------------------------------------------------------------------------
(* The ends that are not a success.                                        *)

InWork == {p \in Paths : art[p] \in {"PREPARING", "READY"}}

(* Mutant: an attempt that ends leaves the rows of its files as they are.  *)
DisownedNever == art

Disowned ==
  [p \in Paths |-> IF art[p] = "PREPARING" THEN "FAILED"
                   ELSE IF art[p] = "READY" THEN "ORPHANED" ELSE art[p]]

(* _fail_operation and _cancel_claimed; the files are deleted afterwards.  *)
End(w) ==
  /\ w \in Workers /\ (At(w, "fail") \/ At(w, "cancel"))
  /\ IF op.owner = w /\ (At(w, "cancel") \/ op.status \notin {"succeeded", "cancelled"})
       THEN /\ op' = [op EXCEPT !.status = IF At(w, "fail") THEN "failed" ELSE "cancelled",
                                !.owner = NoOwner, !.live = FALSE]
            /\ art' = Disowned
            /\ \E p \in IF InWork = {} THEN {NoPath} ELSE InWork :
                 Becomes(w, "unlink", Empty, p, NoPath)
       ELSE Rest(w, "idle") /\ UNCHANGED <<op, art>>
  /\ UNCHANGED <<visit, disk, fresh, disturbed, troubles, Elsewhere>>

Unlink(w) ==
  /\ w \in Workers /\ At(w, "unlink")
  /\ disk' = Emptied({wk[w].file})
  /\ Rest(w, "idle")
  /\ UNCHANGED <<visit, art, op, fresh, disturbed, troubles, Elsewhere>>

-----------------------------------------------------------------------------
(* The reconciler of every process, every five seconds.                    *)

Alive(w) == wk[w].at \notin {"off", "idle"}

RenewOperation(w) ==
  /\ w \in Workers /\ Alive(w) /\ op.owner = w /\ op.status \in Active /\ ~op.live
  /\ op' = [op EXCEPT !.live = TRUE]
  /\ UNCHANGED <<visit, disk, art, wk, fresh, disturbed, troubles, Elsewhere>>

ExpireOperation ==
  /\ op.status \in Active /\ op.live
  /\ IF Alive(op.owner)
       THEN troubles < MaxTroubles /\ troubles' = troubles + 1
       ELSE UNCHANGED troubles
  /\ op' = [op EXCEPT !.live = FALSE]
  /\ UNCHANGED <<visit, disk, art, wk, fresh, disturbed, Elsewhere>>

(* Mutant: a worker that died at the last stage is left alone.             *)
StaleBeforeVerifying == op.status \in Active \ {"verifying"} /\ ~op.live

Stale == op.status \in Active /\ ~op.live

(* Mutant: one attempt too many.                                           *)
ExhaustedLate == op.attempts > MaxAttempts

Exhausted == op.attempts >= MaxAttempts

(* reconcile_stale.  It deletes the files at once, if that succeeds.       *)
ReconcileStale ==
  /\ Stale
  /\ op' = IF Exhausted
             THEN [op EXCEPT !.status = "failed"]
             ELSE [op EXCEPT !.status = "queued", !.owner = NoOwner]
  /\ art' = Disowned
  /\ disk' \in {disk, Emptied(InWork)}
  /\ UNCHANGED <<visit, wk, fresh, disturbed, troubles, Elsewhere>>

(* Mutant: rows of failed attempts are not looked at again.                *)
ReclaimableUnlessFailed(p) == art[p] \in {"RETIRED", "ORPHANED"} /\ p # visit.audio

(* reconcile_artifacts.  A row that the pointer names is never touched.    *)
Reclaimable(p) ==
  /\ art[p] \in Kept /\ p # visit.audio
  /\ p \in InWork => ~(op.status \in Active /\ op.live)

Reclaim(p) ==
  /\ Reclaimable(p)
  /\ disk' = Emptied({p})
  /\ art' = [art EXCEPT ![p] = IF @ = "PREPARING" THEN "FAILED"
                               ELSE IF @ = "READY" THEN "ORPHANED" ELSE "none"]
  /\ UNCHANGED <<visit, op, wk, fresh, disturbed, troubles, Elsewhere>>

WorkerStep(w) ==
  \/ Probe(w) \/ Slice(w) \/ Verify(w) \/ Register(w)
  \/ CommitOperation(w) \/ End(w) \/ Unlink(w)
=============================================================================
