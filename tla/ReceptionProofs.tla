---------------------------- MODULE ReceptionProofs ----------------------------
(***************************************************************************)
(* What holds of a reception for every number of users, runners, workers,  *)
(* recordings, paths and mishaps.                                          *)
(***************************************************************************)
EXTENDS Reception, TLAPS

(* A queued operation has an attempt left.                                 *)
Counted == op.status = "queued" => op.attempts < MaxAttempts

(* A runner that still has the lease is in the stage of the row.           *)
Earned(n) ==
  Owns(n) =>
    /\ wk[n].at \in {"prepare", "assemble", "commit", "retire"} => run.stage = "merge"
    /\ At(n, "segment") => run.stage = "segmentation"
    /\ At(n, "checkpoint") /\ run.stage = "segmentation" => visit.units # Empty \/ disturbed
    /\ At(n, "checkpoint") /\ run.stage = "tagging" => visit.tags # Empty \/ disturbed

(* What has been earned by one runner, and what it is about to write.      *)
Standing(n) == Earned(n) /\ (At(n, "segment") => wk[n].want # Empty)

(* A stage is passed with what it was to make, or a merge took it.         *)
Progress ==
  /\ \A n \in Runners : Standing(n)
  /\ run.stage \in {"tagging", "ready"} => visit.units # Empty \/ disturbed
  /\ run.stage = "ready" => visit.tags # Empty \/ disturbed
  /\ ReadyIsEarned

-----------------------------------------------------------------------------
(* Types.                                                                  *)

(* Every actor is a user, a runner or a worker, of one kind only.          *)
LEMMA Kinds ==
  /\ Users \subseteq Actors /\ Runners \subseteq Actors /\ Workers \subseteq Actors
  /\ \A a \in Actors : a \notin Workers => a \in Users \cup Runners
  /\ \A a \in Users \cup Runners : a \notin Workers
  /\ NoOwner \notin Actors /\ Operation \notin Actors /\ NoPath \notin Paths
BY ReceptionConstants DEF Actors

(* Any phase is one an actor can rest in.                                  *)
LEMMA RestTypes ==
  ASSUME TypeOK, NEW a \in Actors, NEW phase \in Phases, Rest(a, phase)
  PROVE  wk' \in [Actors -> Works]
BY ReceptionConstants DEF TypeOK, Rest, Resting, Works

(* A change of phase keeps the type.                                       *)
LEMMA GotoTypes ==
  ASSUME TypeOK, NEW a \in Actors, NEW phase \in Phases, Goto(a, phase)
  PROVE  wk' \in [Actors -> Works]
BY DEF TypeOK, Goto, Works

(* Where failed and successful merges lead is a phase.                     *)
LEMMA EndTypes ==
  ASSUME NEW a PROVE Failed(a) \in Phases /\ Merged(a) \in Phases
BY DEF Failed, Merged, Phases

(* Files that are deleted leave typed paths.                               *)
LEMMA EmptiedTypes ==
  ASSUME TypeOK, NEW ps PROVE Emptied(ps) \in [Paths -> Timelines]
BY ReceptionConstants DEF TypeOK, Emptied

(* What an actor holds is typed.                                           *)
LEMMA FileTypes ==
  ASSUME TypeOK, NEW a \in Actors
  PROVE  /\ wk[a] \in Works /\ wk[a].at \in Phases /\ wk[a].want \in Timelines
         /\ wk[a].file \in Paths \cup {NoPath} /\ wk[a].old \in Paths \cup {NoPath}
BY DEF TypeOK, Works

(* The reception and its mode after a merge is published.                  *)
LEMMA RelaidTypes ==
  ASSUME TypeOK, NEW t \in Timelines, NEW p \in Paths \cup {NoPath}
  PROVE  Relaid(t, p) \in Visits
<1>1. visit \in Visits BY DEF TypeOK
<1>2. Empty \in Timelines BY ReceptionConstants
<1>3. CASE Changed(t) BY <1>1, <1>2, <1>3 DEF Relaid, Visits
<1>4. CASE ~Changed(t) BY <1>1, <1>4 DEF Relaid, Visits
<1> QED BY <1>3, <1>4

(* A published merge leaves a typed reception.                             *)
LEMMA PublishTypes ==
  ASSUME TypeOK, NEW a \in Actors, Publish(a)
  PROVE  visit' \in Visits /\ fresh' \in SUBSET (Actors \cup {Operation})
         /\ disturbed' \in BOOLEAN
<1>1. visit' \in Visits BY RelaidTypes, FileTypes DEF Publish
<1>2. fresh' \in SUBSET (Actors \cup {Operation}) BY DEF Publish
<1>3. disturbed' \in BOOLEAN
  <2>1. disturbed \in BOOLEAN BY DEF TypeOK
  <2> QED BY <2>1 DEF Publish
<1> QED BY <1>1, <1>2, <1>3

(* An actor with typed fields is typed.                                    *)
LEMMA BecomesTypes ==
  ASSUME TypeOK, NEW a \in Actors, NEW phase \in Phases, NEW want \in Timelines,
         NEW file \in Paths \cup {NoPath}, NEW old \in Paths \cup {NoPath},
         Becomes(a, phase, want, file, old)
  PROVE  wk' \in [Actors -> Works]
BY DEF TypeOK, Becomes, Works

(* So is one that is about to delete the file it replaced.                 *)
LEMMA RetiringTypes ==
  ASSUME TypeOK, NEW a \in Actors, Retiring(a) PROVE wk' \in [Actors -> Works]
<1>1. visit.audio \in Paths \cup {NoPath} BY DEF TypeOK, Visits
<1> QED BY <1>1, FileTypes, BecomesTypes DEF Retiring, Phases

(* No operation is one of the operations.                                  *)
LEMMA NoOperationTypes == NoOperation \in Operations
<1>1. 0 \in 0..MaxAttempts BY ReceptionConstants
<1> QED BY <1>1, ReceptionConstants DEF NoOperation, Operations

(* The initial state is typed.                                             *)
LEMMA TypeInit == ASSUME Init PROVE TypeOK
<1>1. wk \in [Actors -> Works]
  <2>1. PICK team \in Teams :
          wk = [a \in Actors |-> Resting(IF a \in team THEN "idle" ELSE "off")]
        BY DEF Init
  <2> QED BY <2>1, ReceptionConstants DEF Resting, Works, Phases
<1>2. visit \in Visits BY ReceptionConstants DEF Init, Visits
<1>3. op \in Operations BY ReceptionConstants DEF Init, NoOperation, Operations
<1>4. run \in Runs BY DEF Init, Runs
<1>5. troubles \in 0..MaxTroubles BY ReceptionConstants DEF Init
<1>6. art \in [Paths -> ArtifactStates] BY DEF Init, ArtifactStates
<1>7. disk \in [Paths -> Timelines] BY ReceptionConstants DEF Init
<1> QED BY <1>1, <1>2, <1>3, <1>4, <1>5, <1>6, <1>7 DEF Init, TypeOK

(* The steps of a merge.                                                   *)
LEMMA TypeMerge ==
  ASSUME TypeOK, NEW a \in Actors, MergeStep(a)
  PROVE  TypeOK'
<1>1. CASE Prepare(a)
  <2>1. wk' \in [Actors -> Works]
    <3>1. CASE Goto(a, "assemble") BY <3>1, GotoTypes DEF Phases
    <3>2. CASE Rest(a, Failed(a)) BY <3>2, RestTypes, EndTypes
    <3> QED BY <1>1, <3>1, <3>2 DEF Prepare
  <2> QED BY <1>1, <2>1 DEF Prepare, TypeOK
<1>2. CASE Assemble(a)
  <2>1. PICK p \in IF a \in Workers THEN {wk[a].file} ELSE Free :
          /\ disk' = [disk EXCEPT ![p] = wk[a].want]
          /\ Becomes(a, IF a \in Workers THEN "verify" ELSE "commit", wk[a].want, p, NoPath)
        BY <1>2 DEF Assemble
  <2>2. p \in Paths \cup {NoPath} BY <2>1, FileTypes DEF Free
  <2>3. wk' \in [Actors -> Works]
    BY <2>1, <2>2, FileTypes, BecomesTypes DEF Phases
  <2>4. disk' \in [Paths -> Timelines] BY <2>1, FileTypes DEF TypeOK
  <2> QED BY <1>2, <2>3, <2>4 DEF Assemble, TypeOK
<1>3. CASE CommitMerge(a)
  <2>1. CASE Publish(a) /\ Retiring(a) /\ UNCHANGED disk
    BY <1>3, <2>1, PublishTypes, RetiringTypes DEF CommitMerge, TypeOK
  <2>2. CASE Refuse(a)
    <3>1. wk' \in [Actors -> Works] BY <2>2, RestTypes, EndTypes DEF Refuse
    <3>2. disk' \in [Paths -> Timelines] BY <2>2, EmptiedTypes DEF Refuse
    <3> QED BY <1>3, <2>2, <3>1, <3>2 DEF CommitMerge, Refuse, TypeOK
  <2> QED BY <1>3, <2>1, <2>2 DEF CommitMerge
<1>4. CASE Retire(a)
  <2>1. wk' \in [Actors -> Works] BY <1>4, RestTypes, EndTypes DEF Retire
  <2>2. disk' \in [Paths -> Timelines] BY <1>4, EmptiedTypes DEF Retire
  <2> QED BY <1>4, <2>1, <2>2 DEF Retire, TypeOK
<1> QED BY <1>1, <1>2, <1>3, <1>4 DEF MergeStep

(* The rows of the files after a publication.                              *)
LEMMA AttachedTypes ==
  ASSUME TypeOK, NEW p PROVE Attached(p) \in [Paths -> ArtifactStates]
BY DEF TypeOK, Attached, ArtifactStates, Kept

(* The rows of the files after an attempt has ended.                       *)
LEMMA DisownedTypes ==
  ASSUME TypeOK PROVE Disowned \in [Paths -> ArtifactStates]
BY DEF TypeOK, Disowned, ArtifactStates, Kept

(* An operation that succeeded is an operation.                            *)
LEMMA SucceedTypes ==
  ASSUME TypeOK, Succeed PROVE op' \in Operations
BY DEF TypeOK, Succeed, Operations

(* A commit whose acknowledgement is lost leaves typed state.              *)
LEMMA UnacknowledgedTypes ==
  ASSUME TypeOK, NEW a \in Actors, troubles < MaxTroubles, Unacknowledged(a)
  PROVE  /\ visit' \in Visits /\ fresh' \in SUBSET (Actors \cup {Operation})
         /\ disturbed' \in BOOLEAN /\ disk' \in [Paths -> Timelines]
         /\ blind' \in SUBSET Paths /\ wk' \in [Actors -> Works]
         /\ troubles' \in 0..MaxTroubles
<1>1. visit' \in Visits /\ fresh' \in SUBSET (Actors \cup {Operation}) /\ disturbed' \in BOOLEAN
  BY PublishTypes DEF Unacknowledged
<1>2. disk' \in [Paths -> Timelines] BY EmptiedTypes DEF Unacknowledged
<1>3. blind' \in SUBSET Paths BY DEF TypeOK, Unacknowledged
<1>4. wk' \in [Actors -> Works] BY RestTypes, EndTypes DEF Unacknowledged
<1>5. troubles' \in 0..MaxTroubles BY ReceptionConstants DEF TypeOK, Unacknowledged
<1> QED BY <1>1, <1>2, <1>3, <1>4, <1>5

(* Failures, crashes and lost acknowledgements.                            *)
LEMMA TypeMishap ==
  ASSUME TypeOK, NEW a \in Actors, Mishap(a)
  PROVE  TypeOK'
<1>1. CASE Abort(a)
  <2>1. wk' \in [Actors -> Works] BY <1>1, RestTypes, EndTypes DEF Abort
  <2>2. disk' \in [Paths -> Timelines] BY <1>1, EmptiedTypes DEF Abort
  <2>3. lost' \in SUBSET Paths BY <1>1 DEF Abort, Forgotten, TypeOK
  <2>4. troubles' \in 0..MaxTroubles BY <1>1, ReceptionConstants DEF Abort, TypeOK
  <2> QED BY <1>1, <2>1, <2>2, <2>3, <2>4 DEF Abort, TypeOK
<1>2. CASE Crash(a)
  <2>1. wk' \in [Actors -> Works] BY <1>2, RestTypes DEF Crash, Phases
  <2>2. lost' \in SUBSET Paths BY <1>2 DEF Crash, Forgotten, TypeOK
  <2>3. troubles' \in 0..MaxTroubles BY <1>2, ReceptionConstants DEF Crash, TypeOK
  <2> QED BY <1>2, <2>1, <2>2, <2>3 DEF Crash, TypeOK
<1>3. CASE CommitMergeUnacknowledged(a)
  <2>1. lost' \in SUBSET Paths BY <1>3 DEF CommitMergeUnacknowledged, TypeOK
  <2>2. /\ visit' \in Visits /\ fresh' \in SUBSET (Actors \cup {Operation})
        /\ disturbed' \in BOOLEAN /\ disk' \in [Paths -> Timelines]
        /\ blind' \in SUBSET Paths /\ wk' \in [Actors -> Works] /\ troubles' \in 0..MaxTroubles
    BY <1>3, UnacknowledgedTypes DEF CommitMergeUnacknowledged
  <2> QED BY <1>3, <2>1, <2>2 DEF CommitMergeUnacknowledged, TypeOK
<1>4. CASE CommitOperationUnacknowledged(a)
  <2>1. lost' \in SUBSET Paths BY <1>4 DEF CommitOperationUnacknowledged, TypeOK
  <2>2. /\ visit' \in Visits /\ fresh' \in SUBSET (Actors \cup {Operation})
        /\ disturbed' \in BOOLEAN /\ disk' \in [Paths -> Timelines]
        /\ blind' \in SUBSET Paths /\ wk' \in [Actors -> Works] /\ troubles' \in 0..MaxTroubles
    BY <1>4, UnacknowledgedTypes DEF CommitOperationUnacknowledged
  <2>3. art' \in [Paths -> ArtifactStates] /\ op' \in Operations
    BY <1>4, AttachedTypes, SucceedTypes DEF CommitOperationUnacknowledged
  <2> QED BY <1>4, <2>1, <2>2, <2>3 DEF CommitOperationUnacknowledged, TypeOK
<1>5. CASE AbortEncrypting(a)
  <2>1. wk' \in [Actors -> Works] BY <1>5, RestTypes, EndTypes DEF AbortEncrypting
  <2>2. wk[a].want \in Timelines BY DEF TypeOK, Works
  <2>3. disk' \in [Paths -> Timelines] BY <1>5, <2>2 DEF AbortEncrypting, TypeOK
  <2>4. lost' \in SUBSET Paths
    BY <1>5, FileTypes DEF AbortEncrypting, Free, TypeOK, Works
  <2>5. troubles' \in 0..MaxTroubles BY <1>5, ReceptionConstants DEF AbortEncrypting, TypeOK
  <2> QED BY <1>5, <2>1, <2>3, <2>4, <2>5 DEF AbortEncrypting, TypeOK
<1>6. CASE RetireFails(a)
  <2>1. wk' \in [Actors -> Works] BY <1>6, RestTypes, EndTypes DEF RetireFails
  <2>2. lost' \in SUBSET Paths BY <1>6 DEF RetireFails, Forgotten, TypeOK
  <2>3. troubles' \in 0..MaxTroubles BY <1>6, ReceptionConstants DEF RetireFails, TypeOK
  <2> QED BY <1>6, <2>1, <2>2, <2>3 DEF RetireFails, TypeOK
<1> QED BY <1>1, <1>2, <1>3, <1>4, <1>5, <1>6 DEF Mishap

(* The requests of users.                                                  *)
LEMMA TypeUser ==
  ASSUME TypeOK, NEW u \in Users, UserStep(u)
  PROVE  TypeOK'
<1> u \in Actors BY Kinds
<1>1. CASE Submit(u)
  <2>1. PICK t \in Timelines \ {Empty}, phase \in {"prepare", "commit"} :
          Becomes(u, phase, t, NoPath, NoPath)
        BY <1>1 DEF Submit
  <2>2. wk' \in [Actors -> Works] BY <2>1, BecomesTypes DEF Phases
  <2> QED BY <1>1, <2>2 DEF Submit, TypeOK
<1>2. CASE Ask(u)
  <2>1. PICK t \in Timelines \ {Empty}, physical \in BOOLEAN :
          op' = [NoOperation EXCEPT !.status = "queued", !.want = t, !.physical = physical]
        BY <1>2 DEF Ask
  <2>2. op' \in Operations BY <2>1, NoOperationTypes DEF Operations
  <2>3. wk' \in [Actors -> Works] BY <1>2, RestTypes DEF Ask, Phases
  <2> QED BY <1>2, <2>2, <2>3 DEF Ask, TypeOK, Elsewhere
<1>3. CASE Cancel(u)
  <2>1. op' \in Operations BY <1>3 DEF Cancel, TypeOK, Operations, Active
  <2>2. wk' \in [Actors -> Works] BY <1>3, RestTypes DEF Cancel, Phases
  <2> QED BY <1>3, <2>1, <2>2 DEF Cancel, TypeOK, Elsewhere
<1> QED BY <1>1, <1>2, <1>3 DEF UserStep

(* The steps of the automation.                                            *)
LEMMA TypeRunner ==
  ASSUME TypeOK, NEW n \in Runners, ClaimRun(n) \/ RenewRun(n) \/ RunnerStep(n)
  PROVE  TypeOK'
<1> n \in Actors BY Kinds
<1>0. visit \in Visits /\ run \in Runs /\ visit.timeline \in Timelines /\ NoPath \in Paths \cup {NoPath}
  BY DEF TypeOK, Visits
<1>1. CASE ClaimRun(n)
  <2>1. visit' \in Visits BY <1>0, <1>1 DEF ClaimRun, Visits
  <2>2. run' \in Runs BY <1>0, <1>1 DEF ClaimRun, Runs
  <2>3. wk' \in [Actors -> Works] BY <1>1, GotoTypes DEF ClaimRun, Phases
  <2> QED BY <1>1, <2>1, <2>2, <2>3 DEF ClaimRun, TypeOK, Untouched
<1>2. CASE RenewRun(n)
  <2>1. run' \in Runs BY <1>0, <1>2 DEF RenewRun, Runs
  <2> QED BY <1>2, <2>1 DEF RenewRun, TypeOK, Untouched
<1>3. CASE AdvanceMerge(n)
  <2>1. wk' \in [Actors -> Works]
    <3>1. CASE Goto(n, "fail") BY <3>1, GotoTypes DEF Phases
    <3>2. CASE Becomes(n, "prepare", visit.timeline, NoPath, NoPath)
      BY <1>0, <3>2, BecomesTypes DEF Phases
    <3>3. CASE Goto(n, "checkpoint") BY <3>3, GotoTypes DEF Phases
    <3> QED BY <1>3, <3>1, <3>2, <3>3 DEF AdvanceMerge
  <2>2. fresh' \in SUBSET (Actors \cup {Operation}) BY <1>3 DEF AdvanceMerge, TypeOK
  <2> QED BY <1>3, <2>1, <2>2 DEF AdvanceMerge, TypeOK, Untouched
<1>4. CASE AdvanceSegmentation(n)
  <2>1. wk' \in [Actors -> Works]
    <3>1. CASE Goto(n, "fail") BY <3>1, GotoTypes DEF Phases
    <3>2. CASE Becomes(n, "segment", visit.timeline, NoPath, NoPath)
      BY <1>0, <3>2, BecomesTypes DEF Phases
    <3>3. CASE Goto(n, "checkpoint") BY <3>3, GotoTypes DEF Phases
    <3> QED BY <1>4, <3>1, <3>2, <3>3 DEF AdvanceSegmentation
  <2>2. fresh' \in SUBSET (Actors \cup {Operation}) BY <1>4 DEF AdvanceSegmentation, TypeOK
  <2> QED BY <1>4, <2>1, <2>2 DEF AdvanceSegmentation, TypeOK, Untouched
<1>5. CASE Segment(n)
  <2>1. wk' \in [Actors -> Works] BY <1>5, RestTypes DEF Segment, Phases
  <2>2. visit' \in Visits
    <3>1. [visit EXCEPT !.units = wk[n].want] \in Visits BY <1>0, FileTypes DEF Visits
    <3> QED BY <1>0, <1>5, <3>1 DEF Segment
  <2>3. fresh' \in SUBSET (Actors \cup {Operation}) BY <1>5 DEF Segment, TypeOK
  <2> QED BY <1>5, <2>1, <2>2, <2>3 DEF Segment, TypeOK, Untouched
<1>6. CASE AdvanceTagging(n)
  <2>1. visit' \in Visits BY <1>0, <1>6 DEF AdvanceTagging, Visits
  <2>2. wk' \in [Actors -> Works] BY <1>6, GotoTypes DEF AdvanceTagging, Phases
  <2> QED BY <1>6, <2>1, <2>2 DEF AdvanceTagging, TypeOK, Untouched
<1>7. CASE Checkpoint(n)
  <2>1. run' \in Runs
    <3>1. [run EXCEPT !.stage = NextStage(run.stage), !.live = TRUE] \in Runs
      BY <1>0 DEF Runs, NextStage
    <3> QED BY <1>0, <1>7, <3>1 DEF Checkpoint
  <2>2. wk' \in [Actors -> Works] BY <1>7, RestTypes DEF Checkpoint, Phases
  <2> QED BY <1>7, <2>1, <2>2 DEF Checkpoint, TypeOK, Untouched
<1>8. CASE MarkReady(n)
  <2>1. run' \in Runs
    <3>1. [run EXCEPT !.status = "ready", !.owner = NoOwner, !.live = FALSE] \in Runs
      BY <1>0 DEF Runs
    <3> QED BY <1>0, <1>8, <3>1 DEF MarkReady
  <2>2. visit' \in Visits
    <3>1. [visit EXCEPT !.status = "ready"] \in Visits BY <1>0 DEF Visits
    <3> QED BY <1>0, <1>8, <3>1 DEF MarkReady
  <2>3. wk' \in [Actors -> Works] BY <1>8, RestTypes DEF MarkReady, Phases
  <2>4. fresh' \in SUBSET (Actors \cup {Operation}) BY <1>8 DEF MarkReady, TypeOK
  <2> QED BY <1>8, <2>1, <2>2, <2>3, <2>4 DEF MarkReady, TypeOK, Untouched
<1>9. CASE MarkFailed(n)
  <2>1. run' \in Runs
    <3>1. [run EXCEPT !.status = "failed", !.owner = NoOwner, !.live = FALSE] \in Runs
      BY <1>0 DEF Runs
    <3> QED BY <1>0, <1>9, <3>1 DEF MarkFailed
  <2>2. visit' \in Visits
    <3>1. [visit EXCEPT !.status = IF @ = "processing" THEN "needs_review" ELSE @] \in Visits
      BY <1>0 DEF Visits
    <3> QED BY <1>0, <1>9, <3>1 DEF MarkFailed
  <2>3. wk' \in [Actors -> Works] BY <1>9, RestTypes DEF MarkFailed, Phases
  <2> QED BY <1>9, <2>1, <2>2, <2>3 DEF MarkFailed, TypeOK, Untouched
<1> QED
  BY <1>1, <1>2, <1>3, <1>4, <1>5, <1>6, <1>7, <1>8, <1>9 DEF RunnerStep

(* The steps of the workers; a claim counts an attempt.                    *)
LEMMA TypeWorker ==
  ASSUME TypeOK, Counted, NEW w \in Workers, Claim(w) \/ RenewOperation(w) \/ WorkerStep(w)
  PROVE  TypeOK'
<1> w \in Actors BY Kinds
<1>0. /\ op \in Operations /\ op.want \in Timelines /\ NoPath \in Paths \cup {NoPath}
      /\ NoOwner \in Workers \cup {NoOwner} /\ Empty \in Timelines
  BY ReceptionConstants DEF TypeOK, Operations
<1>1. CASE Claim(w)
  <2>1. op.attempts + 1 \in 0..MaxAttempts
    BY <1>0, <1>1, ReceptionConstants DEF Claim, Counted, Operations
  <2>2. op' \in Operations BY <1>0, <1>1, <2>1 DEF Claim, Operations, Active
  <2>3. wk' \in [Actors -> Works] BY <1>1, GotoTypes DEF Claim, Phases
  <2> QED BY <1>1, <2>2, <2>3 DEF Claim, TypeOK, Elsewhere
<1>2. CASE RenewOperation(w)
  <2>1. op' \in Operations BY <1>0, <1>2 DEF RenewOperation, Operations
  <2> QED BY <1>2, <2>1 DEF RenewOperation, TypeOK, Elsewhere
<1>3. CASE Probe(w)
  <2>1. op' \in Operations
    <3>1. [op EXCEPT !.status = "probing", !.live = TRUE] \in Operations
      BY <1>0 DEF Operations, Active
    <3> QED BY <1>0, <1>3, <3>1 DEF Probe
  <2>2. wk' \in [Actors -> Works]
    <3>1. CASE Leads(w, "claimed")
      BY <1>0, <1>3, <3>1, BecomesTypes DEF Probe, Phases
    <3>2. CASE ~Leads(w, "claimed")
      BY <1>3, <3>2, RestTypes DEF Probe, Phases
    <3> QED BY <3>1, <3>2
  <2>3. fresh' \in SUBSET (Actors \cup {Operation}) BY <1>3 DEF Probe, TypeOK
  <2> QED BY <1>3, <2>1, <2>2, <2>3 DEF Probe, TypeOK, Elsewhere
<1>4. CASE Slice(w)
  <2>1. CASE Leads(w, "probing") /\ op.physical
    <3>1. PICK p \in Free :
            /\ op' = [op EXCEPT !.status = "assembling", !.live = TRUE]
            /\ art' = [art EXCEPT ![p] = "PREPARING"]
            /\ Becomes(w, "prepare", wk[w].want, p, NoPath)
          BY <1>4, <2>1 DEF Slice
    <3>2. op' \in Operations BY <1>0, <3>1 DEF Operations, Active
    <3>3. wk' \in [Actors -> Works]
      BY <1>0, <3>1, FileTypes, BecomesTypes DEF Phases, Free
    <3>4. art' \in [Paths -> ArtifactStates] BY <3>1 DEF TypeOK, ArtifactStates, Kept
    <3> QED BY <1>4, <3>2, <3>3, <3>4 DEF Slice, TypeOK, Elsewhere
  <2>2. CASE Leads(w, "probing") /\ ~op.physical
    <3>1. op' \in Operations BY <1>0, <1>4, <2>2 DEF Slice, Operations, Active
    <3>2. wk' \in [Actors -> Works] BY <1>4, <2>2, GotoTypes DEF Slice, Phases
    <3> QED BY <1>4, <2>2, <3>1, <3>2 DEF Slice, TypeOK, Elsewhere
  <2>3. CASE ~Leads(w, "probing")
    <3>1. wk' \in [Actors -> Works] BY <1>4, <2>3, RestTypes DEF Slice, Phases
    <3> QED BY <1>4, <2>3, <3>1 DEF Slice, TypeOK, Elsewhere
  <2> QED BY <2>1, <2>2, <2>3
<1>5. CASE Verify(w)
  <2>1. CASE Leads(w, "assembling")
    <3>1. op' \in Operations BY <1>0, <1>5, <2>1 DEF Verify, Operations, Active
    <3>2. wk' \in [Actors -> Works] BY <1>5, <2>1, GotoTypes DEF Verify, Phases
    <3> QED BY <1>5, <2>1, <3>1, <3>2 DEF Verify, TypeOK, Elsewhere
  <2>2. CASE ~Leads(w, "assembling")
    <3>1. disk' \in [Paths -> Timelines] BY <1>5, <2>2, EmptiedTypes DEF Verify
    <3>2. wk' \in [Actors -> Works] BY <1>5, <2>2, RestTypes DEF Verify, Phases
    <3> QED BY <1>5, <2>2, <3>1, <3>2 DEF Verify, TypeOK, Elsewhere
  <2> QED BY <2>1, <2>2
<1>6. CASE Register(w)
  <2>1. CASE art' = [art EXCEPT ![wk[w].file] = "READY"] /\ Goto(w, "commit") /\ UNCHANGED disk
    <3>1. art' \in [Paths -> ArtifactStates] BY <2>1 DEF TypeOK, ArtifactStates, Kept
    <3>2. wk' \in [Actors -> Works] BY <2>1, GotoTypes DEF Phases
    <3> QED BY <1>6, <2>1, <3>1, <3>2 DEF Register, TypeOK, Elsewhere
  <2>2. CASE disk' = Emptied({wk[w].file}) /\ Rest(w, "fail") /\ UNCHANGED art
    <3>1. disk' \in [Paths -> Timelines] BY <2>2, EmptiedTypes
    <3>2. wk' \in [Actors -> Works] BY <2>2, RestTypes DEF Phases
    <3> QED BY <1>6, <2>2, <3>1, <3>2 DEF Register, TypeOK, Elsewhere
  <2> QED BY <1>6, <2>1, <2>2 DEF Register
<1>7. CASE CommitOperation(w)
  <2>1. CASE Publishable(w)
    <3>1. visit' \in Visits /\ fresh' \in SUBSET (Actors \cup {Operation}) /\ disturbed' \in BOOLEAN
      BY <1>7, <2>1, PublishTypes DEF CommitOperation
    <3>2. art' \in [Paths -> ArtifactStates] /\ op' \in Operations
      BY <1>7, <2>1, AttachedTypes, SucceedTypes DEF CommitOperation
    <3>3. wk' \in [Actors -> Works] BY <1>7, <2>1, RetiringTypes DEF CommitOperation
    <3> QED BY <1>7, <2>1, <3>1, <3>2, <3>3 DEF CommitOperation, TypeOK, Elsewhere
  <2>2. CASE ~Publishable(w)
    <3>1. disk' \in [Paths -> Timelines] BY <1>7, <2>2, EmptiedTypes DEF CommitOperation
    <3>2. wk' \in [Actors -> Works] BY <1>7, <2>2, RestTypes DEF CommitOperation, Phases
    <3> QED BY <1>7, <2>2, <3>1, <3>2 DEF CommitOperation, TypeOK, Elsewhere
  <2> QED BY <2>1, <2>2
<1>8. CASE End(w)
  <2>1. CASE UNCHANGED <<op, art>> /\ Rest(w, "idle")
    <3>1. wk' \in [Actors -> Works] BY <2>1, RestTypes DEF Phases
    <3> QED BY <1>8, <2>1, <3>1 DEF End, TypeOK, Elsewhere
  <2>2. ASSUME op' = [op EXCEPT !.status = IF At(w, "fail") THEN "failed" ELSE "cancelled",
                                !.owner = NoOwner, !.live = FALSE],
               art' = Disowned,
               NEW p \in IF InWork = {} THEN {NoPath} ELSE InWork,
               Becomes(w, "unlink", Empty, p, NoPath)
        PROVE  TypeOK'
    <3>1. op' \in Operations BY <1>0, <2>2 DEF Operations
    <3>2. art' \in [Paths -> ArtifactStates] BY <2>2, DisownedTypes
    <3>3. p \in Paths \cup {NoPath} BY <2>2 DEF InWork
    <3>4. wk' \in [Actors -> Works] BY <1>0, <2>2, <3>3, BecomesTypes DEF Phases
    <3> QED BY <1>8, <3>1, <3>2, <3>4 DEF End, TypeOK, Elsewhere
  <2> QED BY <1>8, <2>1, <2>2 DEF End
<1>9. CASE Unlink(w)
  <2>1. disk' \in [Paths -> Timelines] BY <1>9, EmptiedTypes DEF Unlink
  <2>2. wk' \in [Actors -> Works] BY <1>9, RestTypes DEF Unlink, Phases
  <2> QED BY <1>9, <2>1, <2>2 DEF Unlink, TypeOK, Elsewhere
<1> QED
  BY <1>1, <1>2, <1>3, <1>4, <1>5, <1>6, <1>7, <1>8, <1>9 DEF WorkerStep

(* Leases that expire, and the reconcilers.                                *)
LEMMA TypeRecovery ==
  ASSUME TypeOK, Recovery
  PROVE  TypeOK'
<1>0. op \in Operations /\ run \in Runs BY DEF TypeOK
<1>1. CASE ExpireRun
  <2>1. run' \in Runs BY <1>0, <1>1 DEF ExpireRun, Runs
  <2>2. troubles' \in 0..MaxTroubles BY <1>1, ReceptionConstants DEF ExpireRun, TypeOK
  <2> QED BY <1>1, <2>1, <2>2 DEF ExpireRun, TypeOK
<1>2. CASE ExpireOperation
  <2>1. op' \in Operations BY <1>0, <1>2 DEF ExpireOperation, Operations
  <2>2. troubles' \in 0..MaxTroubles BY <1>2, ReceptionConstants DEF ExpireOperation, TypeOK
  <2> QED BY <1>2, <2>1, <2>2 DEF ExpireOperation, TypeOK, Elsewhere
<1>3. CASE ReconcileStale
  <2>1. op' \in Operations
    <3>1. [op EXCEPT !.status = "failed"] \in Operations BY <1>0 DEF Operations
    <3>2. [op EXCEPT !.status = "queued", !.owner = NoOwner] \in Operations
      BY <1>0 DEF Operations
    <3> QED BY <1>3, <3>1, <3>2 DEF ReconcileStale
  <2>2. art' \in [Paths -> ArtifactStates] BY <1>3, DisownedTypes DEF ReconcileStale
  <2>3. disk' \in [Paths -> Timelines]
    <3>1. disk \in [Paths -> Timelines] BY DEF TypeOK
    <3> QED BY <1>3, <3>1, EmptiedTypes DEF ReconcileStale
  <2> QED BY <1>3, <2>1, <2>2, <2>3 DEF ReconcileStale, TypeOK, Elsewhere
<1>4. CASE EraseFiles
  <2>1. disk' \in [Paths -> Timelines] BY <1>4, EmptiedTypes DEF EraseFiles
  <2> QED BY <1>4, <2>1 DEF EraseFiles, TypeOK
<1>5. ASSUME NEW p \in Paths, Reclaim(p)
      PROVE  TypeOK'
  <2>1. disk' \in [Paths -> Timelines] BY <1>5, EmptiedTypes DEF Reclaim
  <2>2. art' \in [Paths -> ArtifactStates] BY <1>5 DEF Reclaim, TypeOK, ArtifactStates, Kept
  <2> QED BY <1>5, <2>1, <2>2 DEF Reclaim, TypeOK, Elsewhere
<1> QED BY <1>1, <1>2, <1>3, <1>4, <1>5 DEF Recovery

(* What an erasure or a sweep makes of the rows of the reception.          *)
LEMMA InvalidateTypes ==
  ASSUME TypeOK, NEW r \in Recordings, Invalidate(r)
  PROVE  /\ visit' \in Visits /\ lost' \in SUBSET Paths
         /\ art' \in [Paths -> ArtifactStates] /\ op' \in Operations /\ run' \in Runs
         /\ fresh' = {} /\ disturbed' = FALSE
<1>1. visit \in Visits /\ visit.timeline \in Timelines BY DEF TypeOK, Visits
<1>2. Without[visit.timeline][r] \in Timelines BY <1>1, ReceptionConstants
<1>3. visit' \in Visits
  <2>1. visit' = [visit EXCEPT !.timeline = Without[visit.timeline][r], !.units = Empty,
                               !.tags = Empty, !.audio = NoPath, !.status = "needs_review"]
    BY <1>1 DEF Invalidate, Visits
  <2> QED BY <1>1, <1>2, <2>1, ReceptionConstants DEF Visits
<1>4. lost' \in SUBSET Paths BY DEF Invalidate, Unlisted, TypeOK
<1>5. art' \in [Paths -> ArtifactStates] BY DEF Invalidate, ArtifactStates
<1>6. op' \in Operations BY NoOperationTypes DEF Invalidate
<1>7. run' \in Runs
  <2>1. RunReset \in Runs BY DEF RunReset, Runs
  <2> QED BY <2>1 DEF Invalidate
<1>8. fresh' = {} /\ disturbed' = FALSE BY DEF Invalidate
<1> QED BY <1>3, <1>4, <1>5, <1>6, <1>7, <1>8

(* The erasure of a recording, on request or by the sweep.                 *)
LEMMA TypeErasure ==
  ASSUME TypeOK, NEW r \in Recordings, Erase(r) \/ Sweep(r) \/ SweepRollsBack(r)
  PROVE  TypeOK'
<1>1. CASE r \in Uses[visit.timeline] /\ Erase(r)
  <2>1. owed' \in SUBSET Paths BY <1>1 DEF Erase, Files, Listed, TypeOK
  <2>2. alive' \in SUBSET Recordings /\ UNCHANGED <<disk, wk, blind, troubles>>
    BY <1>1 DEF Erase, TypeOK
  <2> QED BY <1>1, <2>1, <2>2, InvalidateTypes DEF Erase, TypeOK
<1>2. CASE r \in Uses[visit.timeline] /\ Sweep(r)
  <2>1. disk' \in [Paths -> Timelines] BY <1>2, EmptiedTypes DEF Sweep
  <2>2. alive' \in SUBSET Recordings /\ UNCHANGED <<wk, owed, blind, troubles>>
    BY <1>2 DEF Sweep, TypeOK
  <2> QED BY <1>2, <2>1, <2>2, InvalidateTypes DEF Sweep, TypeOK
<1>3. CASE r \notin Uses[visit.timeline] /\ (Erase(r) \/ Sweep(r))
  BY <1>3 DEF Erase, Sweep, TypeOK
<1>4. CASE SweepRollsBack(r)
  <2>1. disk' \in [Paths -> Timelines] /\ blind' \in SUBSET Paths
    <3>1. PICK ps \in SUBSET Files :
            disk' = Emptied(ps) /\ blind' = blind \cup ({visit.audio} \cap ps)
      BY <1>4 DEF SweepRollsBack
    <3>2. ps \subseteq Paths BY DEF Files, Listed
    <3> QED BY <3>1, <3>2, EmptiedTypes DEF TypeOK
  <2>2. troubles' \in 0..MaxTroubles BY <1>4, ReceptionConstants DEF SweepRollsBack, TypeOK
  <2> QED BY <1>4, <2>1, <2>2 DEF SweepRollsBack, TypeOK
<1> QED BY <1>1, <1>2, <1>3, <1>4 DEF SweepRollsBack

(* Types are kept by every step.                                           *)
LEMMA TypeNext ==
  ASSUME TypeOK, Counted, [Next]_vars
  PROVE  TypeOK'
<1>1. CASE UNCHANGED vars BY <1>1 DEF vars, TypeOK
<1> QED
  BY <1>1, TypeUser, TypeRunner, TypeWorker, TypeMerge, TypeMishap, TypeErasure, TypeRecovery
  DEF Next

(* Only the reconciler queues an operation again, if an attempt is left.   *)
LEMMA CountedNext ==
  ASSUME TypeOK, Counted, [Next]_vars
  PROVE  Counted'
<1>0. op.attempts \in 0..MaxAttempts /\ MaxAttempts \in Nat \ {0}
  BY ReceptionConstants DEF TypeOK, Operations
<1>1. CASE UNCHANGED op BY <1>1 DEF Counted
<1>2. ASSUME NEW u \in Users, Ask(u) \/ Cancel(u) PROVE Counted'
  <2>1. CASE Ask(u)
    <3>1. op'.attempts = 0 BY <2>1 DEF Ask, NoOperation
    <3> QED BY <1>0, <3>1 DEF Counted
  <2>2. CASE Cancel(u)
    <3>1. op'.status # "queued" BY <2>2 DEF Cancel, TypeOK, Operations
    <3> QED BY <3>1 DEF Counted
  <2> QED BY <1>2, <2>1, <2>2
<1>3. ASSUME NEW w \in Workers,
             \/ Claim(w) \/ RenewOperation(w) \/ Probe(w) \/ Slice(w) \/ Verify(w)
             \/ CommitOperation(w) \/ CommitOperationUnacknowledged(w) \/ End(w)
      PROVE  Counted'
  <2>1. \/ op' = op \/ op'.status # "queued"
        \/ (op'.status = op.status /\ op'.attempts = op.attempts)
    BY <1>3 DEF Claim, RenewOperation, Probe, Slice, Verify, CommitOperation,
                CommitOperationUnacknowledged, End, Succeed, TypeOK, Operations
  <2> QED BY <2>1 DEF Counted
<1>4. CASE ExpireOperation \/ ReconcileStale
  <2>1. CASE ExpireOperation
    BY <2>1 DEF ExpireOperation, Counted, TypeOK, Operations
  <2>2. CASE ReconcileStale /\ Exhausted
    BY <2>2 DEF ReconcileStale, Counted, TypeOK, Operations
  <2>3. CASE ReconcileStale /\ ~Exhausted
    <3>1. op'.attempts = op.attempts BY <2>3 DEF ReconcileStale, TypeOK, Operations
    <3> QED BY <1>0, <2>3, <3>1 DEF Exhausted, Counted
  <2> QED BY <1>4, <2>1, <2>2, <2>3
<1>5. ASSUME NEW r \in Recordings, Erase(r) \/ Sweep(r) \/ SweepRollsBack(r) PROVE Counted'
  BY <1>1, <1>5 DEF Erase, Sweep, SweepRollsBack, Invalidate, NoOperation, Counted
<1>6. ASSUME NEW a \in Actors,
             \/ MergeStep(a) \/ Abort(a) \/ AbortEncrypting(a) \/ RetireFails(a) \/ Crash(a)
             \/ CommitMergeUnacknowledged(a)
      PROVE  UNCHANGED op
  BY <1>6 DEF MergeStep, Prepare, Assemble, CommitMerge, Retire, Abort, AbortEncrypting,
              RetireFails, Crash, CommitMergeUnacknowledged
<1>7. ASSUME NEW n \in Runners, ClaimRun(n) \/ RenewRun(n) \/ RunnerStep(n)
      PROVE  UNCHANGED op
  BY <1>7 DEF ClaimRun, RenewRun, RunnerStep, AdvanceMerge, AdvanceSegmentation, Segment,
              AdvanceTagging, Checkpoint, MarkReady, MarkFailed, Untouched
<1>8. ASSUME NEW u \in Users, Submit(u) PROVE UNCHANGED op
  BY <1>8 DEF Submit
<1>9. ASSUME NEW w \in Workers, Register(w) \/ Unlink(w) PROVE UNCHANGED op
  BY <1>9 DEF Register, Unlink
<1>10. ASSUME ExpireRun \/ EraseFiles \/ \E p \in Paths : Reclaim(p) PROVE UNCHANGED op
  BY <1>10 DEF ExpireRun, EraseFiles, Reclaim
<1>11. ASSUME UNCHANGED vars PROVE UNCHANGED op BY <1>11 DEF vars
<1>12. ASSUME NEW a \in Actors, CommitOperationUnacknowledged(a) PROVE a \in Workers
  BY <1>12 DEF CommitOperationUnacknowledged
<1> QED
  BY <1>1, <1>2, <1>3, <1>4, <1>5, <1>6, <1>7, <1>8, <1>9, <1>10, <1>11, <1>12
  DEF Next, UserStep, WorkerStep, Mishap, Recovery

(* A reception, its files and everybody at work on them are well typed.    *)
THEOREM ReceptionTypeCorrect == Spec => []TypeOK
<1>1. Init => TypeOK /\ Counted
  <2>1. Init => op.status # "queued" BY DEF Init, NoOperation
  <2> QED BY <2>1, TypeInit DEF Counted
<1>2. TypeOK /\ Counted /\ [Next]_vars => (TypeOK /\ Counted)'
  BY TypeNext, CountedNext
<1> QED BY <1>1, <1>2, PTL DEF Spec

-----------------------------------------------------------------------------
(* Units and tags.                                                         *)

(* A step does one thing with what its actor is doing, and nothing with    *)
(* what the others do.                                                     *)
LEMMA Doing ==
  ASSUME TypeOK, NEW a \in Actors, NEW phase
  PROVE  /\ Goto(a, phase) =>
              /\ wk'[a].at = phase /\ wk'[a].want = wk[a].want
              /\ wk'[a].file = wk[a].file /\ wk'[a].old = wk[a].old
              /\ \A b \in Actors \ {a} : wk'[b] = wk[b]
         /\ Rest(a, phase) =>
              /\ wk'[a].at = phase /\ wk'[a].want = Empty
              /\ wk'[a].file = NoPath /\ wk'[a].old = NoPath
              /\ \A b \in Actors \ {a} : wk'[b] = wk[b]
         /\ \A want, file, old : Becomes(a, phase, want, file, old) =>
              /\ wk'[a].at = phase /\ wk'[a].want = want
              /\ wk'[a].file = file /\ wk'[a].old = old
              /\ \A b \in Actors \ {a} : wk'[b] = wk[b]
BY DEF TypeOK, Goto, Rest, Resting, Becomes, Works

(* The same for a merge that was published.                                *)
LEMMA DoingRetire ==
  ASSUME TypeOK, NEW a \in Actors, Retiring(a)
  PROVE  /\ wk'[a].at = "retire" /\ wk'[a].want = wk[a].want
         /\ wk'[a].file = NoPath /\ wk'[a].old = visit.audio
         /\ \A b \in Actors \ {a} : wk'[b] = wk[b]
BY Doing DEF Retiring

(* What a published merge leaves of the reception.                         *)
LEMMA Published ==
  ASSUME TypeOK, NEW a \in Actors, Publish(a)
  PROVE  /\ visit'.timeline = wk[a].want /\ visit'.audio = wk[a].file
         /\ IF Changed(wk[a].want)
              THEN /\ visit'.units = Empty /\ visit'.tags = Empty
                   /\ visit'.status = "needs_review"
              ELSE /\ visit'.units = visit.units /\ visit'.tags = visit.tags
                   /\ visit'.status = visit.status
         /\ disturbed' = (disturbed \/ (Changed(wk[a].want) /\ run.stage # "merge"))
BY DEF TypeOK, Publish, Relaid, Visits

(* A published merge keeps the units of its timeline only.                 *)
LEMMA DerivedPublish ==
  ASSUME TypeOK, DerivedFromTimeline, NEW a \in Actors, Current(a), Publish(a),
         UNCHANGED alive
  PROVE  DerivedFromTimeline'
<1>1. Uses[wk[a].want] \subseteq alive BY DEF Current
<1> QED BY <1>1, Published DEF DerivedFromTimeline, Changed

(* No step leaves units or tags of another timeline.                       *)
LEMMA DerivedNext ==
  ASSUME TypeOK, DerivedFromTimeline, [Next]_vars
  PROVE  DerivedFromTimeline'
<1> visit \in Visits BY DEF TypeOK
<1>1. CASE UNCHANGED <<visit, alive>> BY <1>1 DEF DerivedFromTimeline
<1>2. ASSUME NEW u \in Users, UserStep(u) PROVE UNCHANGED <<visit, alive>>
  BY <1>2 DEF UserStep, Submit, Ask, Cancel, Elsewhere
<1>3. ASSUME NEW n \in Runners, ClaimRun(n) \/ MarkReady(n) \/ MarkFailed(n)
      PROVE  DerivedFromTimeline'
  <2>1. /\ visit'.timeline = visit.timeline /\ visit'.units = visit.units
        /\ visit'.tags = visit.tags /\ alive' = alive
    BY <1>3 DEF ClaimRun, MarkReady, MarkFailed, Untouched, Visits
  <2> QED BY <2>1 DEF DerivedFromTimeline
<1>4. ASSUME NEW n \in Runners, Segment(n) PROVE DerivedFromTimeline'
  <2>1. CASE InputsUnchanged(n)
    <3>1. /\ visit'.timeline = visit.timeline /\ visit'.units = visit.timeline
          /\ visit'.tags = visit.tags /\ alive' = alive
      BY <1>4, <2>1 DEF Segment, InputsUnchanged, Untouched, Visits
    <3>2. visit.units = Empty BY <2>1 DEF InputsUnchanged
    <3> QED BY <3>1, <3>2 DEF DerivedFromTimeline
  <2>2. CASE ~InputsUnchanged(n) BY <1>1, <1>4, <2>2 DEF Segment, Untouched
  <2> QED BY <2>1, <2>2
<1>5. ASSUME NEW n \in Runners, AdvanceTagging(n) PROVE DerivedFromTimeline'
  <2>1. /\ visit'.timeline = visit.timeline /\ visit'.units = visit.units
        /\ visit'.tags = visit.units /\ alive' = alive
    BY <1>5 DEF AdvanceTagging, Untouched, Visits
  <2> QED BY <2>1 DEF DerivedFromTimeline
<1>6. ASSUME NEW n \in Runners,
             RenewRun(n) \/ AdvanceMerge(n) \/ AdvanceSegmentation(n) \/ Checkpoint(n)
      PROVE  UNCHANGED <<visit, alive>>
  BY <1>6 DEF RenewRun, AdvanceMerge, AdvanceSegmentation, Checkpoint, Untouched
<1>7. ASSUME NEW w \in Workers,
             \/ Claim(w) \/ RenewOperation(w) \/ Probe(w) \/ Slice(w) \/ Verify(w)
             \/ Register(w) \/ End(w) \/ Unlink(w)
      PROVE  UNCHANGED <<visit, alive>>
  BY <1>7 DEF Claim, RenewOperation, Probe, Slice, Verify, Register, End, Unlink, Elsewhere
<1>8. ASSUME NEW a \in Actors,
             \/ Prepare(a) \/ Assemble(a) \/ Retire(a) \/ Abort(a) \/ AbortEncrypting(a)
             \/ RetireFails(a) \/ Crash(a)
      PROVE  UNCHANGED <<visit, alive>>
  BY <1>8 DEF Prepare, Assemble, Retire, Abort, AbortEncrypting, RetireFails, Crash
<1>9. ASSUME NEW a \in Actors, CommitMerge(a) \/ CommitMergeUnacknowledged(a)
      PROVE  DerivedFromTimeline'
  BY <1>1, <1>9, DerivedPublish DEF CommitMerge, CommitMergeUnacknowledged, Unacknowledged, Refuse
<1>10. ASSUME NEW a \in Actors, CommitOperation(a) \/ CommitOperationUnacknowledged(a)
       PROVE  DerivedFromTimeline'
  BY <1>1, <1>10, DerivedPublish
  DEF CommitOperation, CommitOperationUnacknowledged, Unacknowledged, Publishable, Elsewhere
<1>11. ASSUME NEW r \in Recordings, Erase(r) \/ Sweep(r) \/ SweepRollsBack(r)
       PROVE  DerivedFromTimeline'
  <2>1. visit.timeline \in Timelines BY DEF Visits
  <2>2. CASE r \in Uses[visit.timeline] /\ (Erase(r) \/ Sweep(r))
    <3>1. visit'.timeline = Without[visit.timeline][r] /\ visit'.units = Empty
          /\ visit'.tags = Empty /\ alive' = alive \ {r}
      BY <2>2 DEF Erase, Sweep, Invalidate, Visits
    <3>2. Uses[Without[visit.timeline][r]] = Uses[visit.timeline] \ {r}
      BY <2>1, ReceptionConstants
    <3> QED BY <3>1, <3>2 DEF DerivedFromTimeline
  <2>3. CASE r \notin Uses[visit.timeline] /\ (Erase(r) \/ Sweep(r))
    BY <2>3 DEF Erase, Sweep, DerivedFromTimeline
  <2>4. CASE SweepRollsBack(r)
    BY <2>4 DEF SweepRollsBack, DerivedFromTimeline
  <2> QED BY <1>11, <2>2, <2>3, <2>4
<1>12. ASSUME Recovery PROVE UNCHANGED <<visit, alive>>
  BY <1>12 DEF Recovery, ExpireRun, ExpireOperation, ReconcileStale, EraseFiles, Reclaim, Elsewhere
<1>13. ASSUME UNCHANGED vars PROVE UNCHANGED <<visit, alive>> BY <1>13 DEF vars
<1>14. Workers \subseteq Actors BY Kinds
<1> QED
  BY <1>1, <1>2, <1>3, <1>4, <1>5, <1>6, <1>7, <1>8, <1>9, <1>10, <1>11, <1>12, <1>13, <1>14
  DEF Next, RunnerStep, WorkerStep, MergeStep, Mishap

(* At first there are none.                                                *)
LEMMA DerivedInit == ASSUME Init PROVE DerivedFromTimeline
<1>1. PICK t \in Timelines, physical \in BOOLEAN :
        /\ Uses[t] = Recordings
        /\ visit = [timeline |-> t, units |-> Empty, tags |-> Empty, physical |-> physical,
                    status |-> "needs_review", audio |-> NoPath]
      BY DEF Init
<1> QED BY <1>1 DEF Init, DerivedFromTimeline

(* Dialogue units and tags always belong to the timeline of the reception. *)
THEOREM DerivedIsCurrent == Spec => []DerivedFromTimeline
<1>1. Init => TypeOK /\ Counted /\ DerivedFromTimeline
  <2>1. Init => op.status # "queued" BY DEF Init, NoOperation
  <2> QED BY <2>1, TypeInit, DerivedInit DEF Counted
<1>2. TypeOK /\ Counted /\ DerivedFromTimeline /\ [Next]_vars =>
        (TypeOK /\ Counted /\ DerivedFromTimeline)'
  BY TypeNext, CountedNext, DerivedNext
<1> QED BY <1>1, <1>2, PTL DEF Spec

-----------------------------------------------------------------------------
(* Ready receptions.                                                       *)

Merging == {"prepare", "assemble", "commit", "retire"}

(* The phases of a runner that has nothing to show for a stage yet.        *)
Calm == {"off", "idle", "done", "fail", "advance"}

(* Whatever the others do, a runner that goes on within the merge, or      *)
(* gives up, keeps what the run has earned.                                *)
LEMMA ProgressFrame ==
  ASSUME Progress, UNCHANGED <<visit, run, disturbed>>,
         \A n \in Runners :
           \/ wk'[n] = wk[n] \/ wk'[n].at \in Calm
           \/ wk[n].at \in Merging /\ wk'[n].at \in Merging
  PROVE  Progress'
<1>1. ASSUME NEW n \in Runners PROVE Standing(n)'
  <2>1. CASE wk'[n] = wk[n] BY <2>1 DEF Progress, Standing, Earned, Owns, At
  <2>2. CASE wk'[n].at \in Calm BY <2>2 DEF Standing, Earned, Owns, At, Calm
  <2>3. CASE wk[n].at \in Merging /\ wk'[n].at \in Merging
    BY <2>3 DEF Progress, Standing, Earned, Owns, At, Merging
  <2> QED BY <2>1, <2>2, <2>3
<1> QED BY <1>1 DEF Progress, ReadyIsEarned, Standing

(* A merge that is published changes nothing, or takes everything back.    *)
LEMMA ProgressPublish ==
  ASSUME TypeOK, Progress, NEW a \in Actors, Publish(a), UNCHANGED run,
         wk'[a].at \in Calm \/ (wk[a].at \in Merging /\ wk'[a].at \in Merging),
         \A b \in Actors \ {a} : wk'[b] = wk[b]
  PROVE  Progress'
<1>0. Runners \subseteq Actors BY Kinds
<1>1. CASE Changed(wk[a].want)
  <2>1. /\ visit'.status = "needs_review"
        /\ run.stage # "merge" => disturbed'
    BY <1>1, Published
  <2>2. ASSUME NEW n \in Runners PROVE Standing(n)'
    <3>1. CASE wk'[n] = wk[n] BY <2>1, <3>1 DEF Progress, Standing, Earned, Owns, At
    <3>2. CASE n = a BY <2>1, <3>2 DEF Progress, Standing, Earned, Owns, At, Calm, Merging
    <3> QED BY <1>0, <3>1, <3>2
  <2> QED BY <2>1, <2>2 DEF Progress, ReadyIsEarned, Standing
<1>2. CASE ~Changed(wk[a].want)
  <2>1. /\ visit'.status = visit.status /\ visit'.units = visit.units
        /\ visit'.tags = visit.tags /\ visit'.timeline = visit.timeline
        /\ disturbed' = disturbed
    <3>1. disturbed \in BOOLEAN BY DEF TypeOK
    <3> QED BY <1>2, <3>1, Published DEF Changed
  <2>2. ASSUME NEW n \in Runners PROVE Standing(n)'
    <3>1. CASE wk'[n] = wk[n] BY <2>1, <3>1 DEF Progress, Standing, Earned, Owns, At
    <3>2. CASE n = a BY <2>1, <3>2 DEF Progress, Standing, Earned, Owns, At, Calm, Merging
    <3> QED BY <1>0, <3>1, <3>2
  <2> QED BY <2>1, <2>2 DEF Progress, ReadyIsEarned, Standing
<1> QED BY <1>1, <1>2

(* Users and workers do not touch what a runner is doing.                  *)
LEMMA ProgressAside ==
  ASSUME Progress, NEW a \in Actors, a \notin Runners,
         UNCHANGED <<visit, run, disturbed>>,
         \A b \in Actors \ {a} : wk'[b] = wk[b]
  PROVE  Progress'
BY ProgressFrame, Kinds

(* The steps of the workers.                                               *)
LEMMA ProgressWorker ==
  ASSUME TypeOK, Progress, NEW w \in Workers,
         \/ Claim(w) \/ RenewOperation(w) \/ WorkerStep(w)
         \/ CommitOperationUnacknowledged(w)
  PROVE  Progress'
<1>0. w \in Actors /\ w \notin Runners BY Kinds
<1>1. CASE Claim(w) \/ Probe(w) \/ Verify(w) \/ Register(w) \/ Unlink(w)
  <2>1. \A b \in Actors \ {w} : wk'[b] = wk[b]
    BY <1>0, <1>1, Doing DEF Claim, Probe, Verify, Register, Unlink
  <2> QED BY <1>0, <1>1, <2>1, ProgressAside
       DEF Claim, Probe, Verify, Register, Unlink, Elsewhere
<1>2. CASE RenewOperation(w)
  BY <1>2, ProgressFrame DEF RenewOperation, Elsewhere
<1>3. CASE Slice(w) \/ End(w)
  <2>1. \A b \in Actors \ {w} : wk'[b] = wk[b]
    BY <1>0, <1>3, Doing DEF Slice, End
  <2> QED BY <1>0, <1>3, <2>1, ProgressAside DEF Slice, End, Elsewhere
<1>4. CASE CommitOperation(w)
  <2>1. CASE Publishable(w)
    BY <1>0, <1>4, <2>1, DoingRetire, ProgressPublish DEF CommitOperation, Elsewhere, At, Merging
  <2>2. CASE ~Publishable(w)
    BY <1>0, <1>4, <2>2, Doing, ProgressAside DEF CommitOperation, Elsewhere
  <2> QED BY <2>1, <2>2
<1>5. CASE CommitOperationUnacknowledged(w)
  <2>1. Rest(w, Failed(w)) /\ Failed(w) \in Calm
    BY <1>5 DEF CommitOperationUnacknowledged, Unacknowledged, Failed, Calm
  <2> QED BY <1>0, <1>5, <2>1, Doing, ProgressPublish
       DEF CommitOperationUnacknowledged, Unacknowledged
<1> QED BY <1>1, <1>2, <1>3, <1>4, <1>5 DEF WorkerStep

(* The steps of a merge, and its mishaps.                                  *)
LEMMA ProgressMerge ==
  ASSUME TypeOK, Progress, NEW a \in Actors,
         \/ MergeStep(a) \/ Abort(a) \/ AbortEncrypting(a) \/ RetireFails(a) \/ Crash(a)
         \/ CommitMergeUnacknowledged(a)
  PROVE  Progress'
<1>0. Failed(a) \in Calm BY DEF Failed, Calm
<1>1. CASE Prepare(a)
  <2>1. \A b \in Actors \ {a} : wk'[b] = wk[b]
    BY <1>1, Doing DEF Prepare
  <2>2. wk[a].at = "prepare" /\ wk'[a].at \in Calm \cup {"assemble"}
    BY <1>0, <1>1, Doing DEF Prepare, At
  <2> QED BY <1>1, <2>1, <2>2, ProgressFrame, Kinds DEF Prepare, Merging
<1>2. CASE Assemble(a)
  <2>1. /\ \A b \in Actors \ {a} : wk'[b] = wk[b]
        /\ wk[a].at = "assemble" /\ (a \notin Workers => wk'[a].at = "commit")
    BY <1>2, Doing DEF Assemble, At
  <2>2. a \in Runners => a \notin Workers BY Kinds
  <2> QED BY <1>2, <2>1, <2>2, ProgressFrame, Kinds DEF Assemble, Merging
<1>3. CASE CommitMerge(a)
  <2>1. CASE Current(a)
    BY <1>3, <2>1, DoingRetire, ProgressPublish DEF CommitMerge, At, Merging
  <2>2. CASE ~Current(a)
    BY <1>0, <1>3, <2>2, Doing, ProgressFrame, Kinds DEF CommitMerge, Refuse
  <2> QED BY <2>1, <2>2
<1>4. CASE Retire(a) \/ RetireFails(a)
  <2>1. \A b \in Actors \ {a} : wk'[b] = wk[b]
    BY <1>4, Doing DEF Retire, RetireFails
  <2>2. CASE a \in Runners
    <3>1. a \notin Users /\ wk'[a].at = "checkpoint"
      BY <1>4, <2>2, Doing, ReceptionConstants DEF Retire, RetireFails, Merged
    <3>2. UNCHANGED <<visit, run, disturbed>> BY <1>4 DEF Retire, RetireFails
    <3>3. Standing(a)'
      <4>1. Owns(a) => run.stage = "merge"
        BY <1>4, <2>2 DEF Progress, Standing, Earned, Retire, RetireFails, At
      <4> QED BY <3>1, <3>2, <4>1 DEF Standing, Earned, Owns, At
    <3>4. ASSUME NEW n \in Runners, n # a PROVE Standing(n)'
      <4>1. wk'[n] = wk[n] BY <2>1, <3>4, Kinds
      <4> QED BY <3>2, <3>4, <4>1 DEF Progress, Standing, Earned, Owns, At
    <3> QED BY <3>2, <3>3, <3>4 DEF Progress, ReadyIsEarned, Standing
  <2>3. CASE a \notin Runners
    BY <1>4, <2>1, <2>3, ProgressAside DEF Retire, RetireFails
  <2> QED BY <2>2, <2>3
<1>5. CASE Abort(a) \/ AbortEncrypting(a) \/ Crash(a)
  <2>1. \A b \in Actors \ {a} : wk'[b] = wk[b]
    BY <1>5, Doing DEF Abort, AbortEncrypting, Crash
  <2>2. wk'[a].at \in Calm BY <1>0, <1>5, Doing DEF Abort, AbortEncrypting, Crash, Calm
  <2> QED BY <1>5, <2>1, <2>2, ProgressFrame, Kinds DEF Abort, AbortEncrypting, Crash
<1>6. CASE CommitMergeUnacknowledged(a)
  BY <1>0, <1>6, Doing, ProgressPublish DEF CommitMergeUnacknowledged, Unacknowledged
<1> QED BY <1>1, <1>2, <1>3, <1>4, <1>5, <1>6 DEF MergeStep

(* The steps of a runner.                                                  *)
LEMMA ProgressRunner ==
  ASSUME TypeOK, DerivedFromTimeline, Progress, NEW n \in Runners,
         ClaimRun(n) \/ RenewRun(n) \/ RunnerStep(n)
  PROVE  Progress'
<1>0. n \in Actors /\ visit \in Visits /\ run \in Runs /\ Runners \subseteq Actors
      /\ NoOwner \notin Runners
  BY Kinds DEF TypeOK
<1>1. CASE ClaimRun(n)
  <2>1. /\ visit'.status = "processing" /\ visit'.units = visit.units
        /\ visit'.tags = visit.tags
        /\ run'.stage = run.stage /\ run'.owner = n /\ disturbed' = disturbed
    BY <1>0, <1>1 DEF ClaimRun, Visits, Runs
  <2>2. wk'[n].at = "advance" /\ \A b \in Actors \ {n} : wk'[b] = wk[b]
    BY <1>0, <1>1, Doing DEF ClaimRun
  <2>3. ASSUME NEW b \in Runners PROVE Standing(b)'
    BY <1>0, <2>1, <2>2 DEF Progress, Standing, Earned, Owns, At
  <2> QED BY <2>1, <2>3 DEF Progress, ReadyIsEarned
<1>2. CASE RenewRun(n)
  <2>1. /\ run'.stage = run.stage /\ run'.owner = run.owner /\ run'.status = run.status
        /\ UNCHANGED <<visit, wk, disturbed>>
    BY <1>0, <1>2 DEF RenewRun, Runs
  <2> QED BY <2>1 DEF Progress, Standing, Earned, Owns, At, ReadyIsEarned
<1>3. CASE AdvanceMerge(n)
  <2>1. /\ UNCHANGED <<visit, run, disturbed>>
        /\ run.stage = "merge"
        /\ wk'[n].at \in {"fail", "prepare", "checkpoint"}
        /\ \A b \in Actors \ {n} : wk'[b] = wk[b]
    BY <1>0, <1>3, Doing DEF AdvanceMerge
  <2>2. ASSUME NEW b \in Runners PROVE Standing(b)'
    BY <1>0, <2>1 DEF Progress, Standing, Earned, Owns, At
  <2> QED BY <2>1, <2>2 DEF Progress, ReadyIsEarned
<1>4. CASE AdvanceSegmentation(n)
  <2>1. /\ UNCHANGED <<visit, run, disturbed>>
        /\ run.stage = "segmentation"
        /\ \/ wk'[n].at = "checkpoint" /\ visit.units # Empty
           \/ wk'[n].at = "fail"
           \/ wk'[n].at = "segment" /\ wk'[n].want # Empty
        /\ \A b \in Actors \ {n} : wk'[b] = wk[b]
    <3>1. \/ Goto(n, "checkpoint") /\ visit.units # Empty
          \/ Goto(n, "fail")
          \/ Becomes(n, "segment", visit.timeline, NoPath, NoPath) /\ visit.timeline # Empty
      BY <1>4 DEF AdvanceSegmentation
    <3>2. CASE Goto(n, "checkpoint") /\ visit.units # Empty
      BY <1>0, <1>4, <3>2, Doing DEF AdvanceSegmentation
    <3>3. CASE Goto(n, "fail")
      BY <1>0, <1>4, <3>3, Doing DEF AdvanceSegmentation
    <3>4. CASE Becomes(n, "segment", visit.timeline, NoPath, NoPath) /\ visit.timeline # Empty
      <4>1. /\ wk'[n].at = "segment" /\ wk'[n].want = visit.timeline
            /\ \A b \in Actors \ {n} : wk'[b] = wk[b]
        BY <1>0, <3>4 DEF Becomes, TypeOK
      <4> QED BY <1>4, <3>4, <4>1 DEF AdvanceSegmentation
    <3> QED BY <3>1, <3>2, <3>3, <3>4
  <2>2. ASSUME NEW b \in Runners PROVE Standing(b)'
    BY <1>0, <2>1 DEF Progress, Standing, Earned, Owns, At
  <2> QED BY <2>1, <2>2 DEF Progress, ReadyIsEarned
<1>5. CASE Segment(n) /\ InputsUnchanged(n)
  <2>1. /\ UNCHANGED <<run, disturbed>>
        /\ visit'.units = wk[n].want /\ visit'.tags = visit.tags
        /\ visit'.status = visit.status /\ visit'.timeline = visit.timeline
        /\ wk'[n].at = "checkpoint" /\ \A b \in Actors \ {n} : wk'[b] = wk[b]
    BY <1>0, <1>5, Doing DEF Segment, Visits
  <2>2. /\ visit.units = Empty /\ visit.timeline = wk[n].want /\ wk[n].want # Empty
        /\ Owns(n) => run.stage = "segmentation"
    BY <1>5 DEF Segment, InputsUnchanged, Progress, Standing, Earned, At
  <2>3. ASSUME NEW b \in Runners PROVE Standing(b)'
    <3>1. CASE b = n BY <2>1, <2>2, <3>1 DEF Standing, Earned, Owns, At
    <3>2. CASE b # n
      BY <1>0, <2>1, <2>2, <3>2 DEF Progress, Standing, Earned, Owns, At
    <3> QED BY <3>1, <3>2
  <2>4. ReadyIsEarned'
    BY <2>1, <2>2 DEF Progress, ReadyIsEarned
  <2> QED BY <2>1, <2>2, <2>3, <2>4 DEF Progress
<1>6. CASE Segment(n) /\ ~InputsUnchanged(n)
  BY <1>0, <1>6, Doing, ProgressFrame DEF Segment, Calm
<1>7. CASE AdvanceTagging(n)
  <2>1. /\ UNCHANGED <<run, disturbed>>
        /\ visit'.units = visit.units /\ visit'.tags = visit.units
        /\ visit'.status = visit.status /\ visit'.timeline = visit.timeline
        /\ wk'[n].at = "checkpoint" /\ \A b \in Actors \ {n} : wk'[b] = wk[b]
        /\ run.stage = "tagging"
    BY <1>0, <1>7, Doing DEF AdvanceTagging, Visits
  <2>2. visit.units # Empty \/ disturbed BY <2>1 DEF Progress
  <2>3. ASSUME NEW b \in Runners PROVE Standing(b)'
    <3>1. CASE b = n BY <2>1, <2>2, <3>1 DEF Standing, Earned, Owns, At
    <3>2. CASE b # n
      BY <1>0, <2>1, <2>2, <3>2 DEF Progress, Standing, Earned, Owns, At
    <3> QED BY <3>1, <3>2
  <2> QED BY <2>1, <2>2, <2>3 DEF Progress, ReadyIsEarned
<1>8. CASE Checkpoint(n) /\ Owns(n)
  <2>0. run \in Runs BY <1>0 DEF TypeOK
  <2>a. UNCHANGED <<visit, disturbed>> /\ run.owner = n /\ At(n, "checkpoint")
        /\ Rest(n, "advance")
        /\ run' = [run EXCEPT !.stage = NextStage(run.stage), !.live = TRUE]
    BY <1>8 DEF Checkpoint, Owns
  <2>b. run'.stage = NextStage(run.stage) /\ run'.owner = n BY <2>0, <2>a DEF Runs
  <2>c. wk'[n].at = "advance" /\ \A b \in Actors \ {n} : wk'[b] = wk[b]
    BY <1>0, <2>a, Doing
  <2>1. /\ UNCHANGED <<visit, disturbed>>
        /\ run'.stage = NextStage(run.stage) /\ run'.owner = n /\ run.owner = n
        /\ At(n, "checkpoint")
        /\ wk'[n].at = "advance" /\ \A b \in Actors \ {n} : wk'[b] = wk[b]
    BY <2>a, <2>b, <2>c
  <2>2. /\ run'.stage \in {"tagging", "ready"} => visit.units # Empty \/ disturbed
        /\ run'.stage = "ready" => visit.tags # Empty \/ disturbed
    BY <1>0, <1>8, <2>1 DEF Progress, Standing, Earned, NextStage, Runs
  <2>3. ASSUME NEW b \in Runners PROVE Standing(b)'
    BY <1>0, <2>1 DEF Progress, Standing, Earned, Owns, At
  <2> QED BY <2>1, <2>2, <2>3 DEF Progress, ReadyIsEarned
<1>9. CASE Checkpoint(n) /\ ~Owns(n)
  BY <1>0, <1>9, Doing, ProgressFrame DEF Checkpoint, Calm
<1>10. CASE MarkReady(n) /\ Owns(n)
  <2>1. /\ disturbed' = disturbed /\ run.stage = "ready"
        /\ visit'.units = visit.units /\ visit'.tags = visit.tags
        /\ visit'.timeline = visit.timeline
        /\ run'.stage = run.stage /\ run'.owner = NoOwner
        /\ wk'[n].at = "idle" /\ \A b \in Actors \ {n} : wk'[b] = wk[b]
    BY <1>0, <1>10, Doing DEF MarkReady, Runs, Visits
  <2>2. \/ visit.timeline # Empty /\ visit.units = visit.timeline /\ visit.tags = visit.units
        \/ disturbed
    BY <2>1 DEF Progress, DerivedFromTimeline
  <2>3. ASSUME NEW b \in Runners PROVE Standing(b)'
    BY <1>0, <2>1 DEF Progress, Standing, Earned, Owns, At
  <2> QED BY <2>1, <2>2, <2>3 DEF Progress, ReadyIsEarned
<1>11. CASE MarkReady(n) /\ ~Owns(n)
  BY <1>0, <1>11, Doing, ProgressFrame DEF MarkReady, Calm
<1>12. CASE MarkFailed(n)
  <2>1. wk'[n].at = "idle" /\ \A b \in Actors \ {n} : wk'[b] = wk[b]
    BY <1>0, <1>12, Doing DEF MarkFailed
  <2>2. CASE run.owner = n
    <3>1. /\ disturbed' = disturbed
          /\ visit'.units = visit.units /\ visit'.tags = visit.tags
          /\ visit'.timeline = visit.timeline
          /\ visit'.status = "ready" => visit.status = "ready"
          /\ run'.stage = run.stage /\ run'.owner = NoOwner
      BY <1>0, <1>12, <2>2 DEF MarkFailed, Runs, Visits
    <3>2. ASSUME NEW b \in Runners PROVE Standing(b)'
      BY <1>0, <2>1, <3>1 DEF Progress, Standing, Earned, Owns, At
    <3> QED BY <3>1, <3>2 DEF Progress, ReadyIsEarned
  <2>3. CASE run.owner # n
    BY <1>0, <1>12, <2>1, <2>3, ProgressFrame DEF MarkFailed, Calm
  <2> QED BY <2>2, <2>3
<1> QED
  BY <1>1, <1>2, <1>3, <1>4, <1>5, <1>6, <1>7, <1>8, <1>9, <1>10, <1>11, <1>12 DEF RunnerStep

(* What a run has earned is kept by every step.                            *)
LEMMA ProgressNext ==
  ASSUME TypeOK, DerivedFromTimeline, Progress, [Next]_vars
  PROVE  Progress'
<1>1. ASSUME NEW u \in Users, UserStep(u) PROVE Progress'
  <2>1. u \in Actors /\ u \notin Runners BY ReceptionConstants, Kinds
  <2>2. \A b \in Actors \ {u} : wk'[b] = wk[b]
    BY <1>1, <2>1, Doing DEF UserStep, Submit, Ask, Cancel
  <2> QED BY <1>1, <2>1, <2>2, ProgressAside DEF UserStep, Submit, Ask, Cancel, Elsewhere
<1>2. ASSUME NEW a \in Actors, MergeStep(a) \/ Mishap(a) PROVE Progress'
  <2>1. CommitOperationUnacknowledged(a) => a \in Workers
    BY DEF CommitOperationUnacknowledged
  <2> QED BY <1>2, <2>1, ProgressMerge, ProgressWorker DEF Mishap
<1>3. ASSUME NEW r \in Recordings, Erase(r) \/ Sweep(r) \/ SweepRollsBack(r) PROVE Progress'
  <2>1. CASE r \in Uses[visit.timeline] /\ (Erase(r) \/ Sweep(r))
    <3>1. visit'.status = "needs_review" /\ run' = RunReset
      BY <2>1 DEF Erase, Sweep, Invalidate, TypeOK, Visits
    <3>2. wk' = wk BY <2>1 DEF Erase, Sweep
    <3>3. ASSUME NEW n \in Runners PROVE Standing(n)'
      BY <3>1, <3>2, <3>3 DEF RunReset, Progress, Standing, Earned, Owns, At
    <3> QED BY <3>1, <3>3 DEF Progress, ReadyIsEarned, RunReset
  <2>2. CASE r \notin Uses[visit.timeline] /\ (Erase(r) \/ Sweep(r))
    BY <2>2, ProgressFrame DEF Erase, Sweep
  <2>3. CASE SweepRollsBack(r)
    BY <2>3, ProgressFrame DEF SweepRollsBack
  <2> QED BY <1>3, <2>1, <2>2, <2>3
<1>4. CASE Recovery
  <2>1. CASE ExpireRun
    <3>1. /\ run'.stage = run.stage /\ run'.owner = run.owner /\ run'.status = run.status
          /\ UNCHANGED <<visit, wk, disturbed>>
      BY <2>1 DEF ExpireRun, TypeOK, Runs
    <3> QED BY <3>1 DEF Progress, Standing, Earned, Owns, At, ReadyIsEarned
  <2>2. CASE ~ExpireRun
    BY <1>4, <2>2, ProgressFrame
    DEF Recovery, ExpireOperation, ReconcileStale, EraseFiles, Reclaim, Elsewhere
  <2> QED BY <2>1, <2>2
<1>5. CASE UNCHANGED vars BY <1>5, ProgressFrame DEF vars
<1> QED
  BY <1>1, <1>2, <1>3, <1>4, <1>5, ProgressRunner, ProgressWorker DEF Next

(* At first nothing has been earned.                                       *)
LEMMA ProgressInit == ASSUME Init PROVE Progress
<1>1. run = [status |-> "pending", live |-> FALSE, stage |-> "merge", owner |-> NoOwner]
      /\ visit.status = "needs_review"
  BY DEF Init
<1>2. ASSUME NEW n \in Runners PROVE Standing(n)
  <2>1. wk[n].at \in {"idle", "off"} BY Kinds DEF Init, Resting
  <2> QED BY <1>1, <2>1 DEF Standing, Earned, Owns, At
<1> QED BY <1>1, <1>2 DEF Progress, ReadyIsEarned

(* A reception is ready only with units and tags of its timeline, unless a *)
(* merge in the middle of its automation took them.                        *)
THEOREM ReadyMeansProcessed == Spec => []ReadyIsEarned
<1>1. Init => TypeOK /\ Counted /\ DerivedFromTimeline /\ Progress
  <2>1. Init => op.status # "queued" BY DEF Init, NoOperation
  <2> QED BY <2>1, TypeInit, DerivedInit, ProgressInit DEF Counted
<1>2. TypeOK /\ Counted /\ DerivedFromTimeline /\ Progress /\ [Next]_vars =>
        (TypeOK /\ Counted /\ DerivedFromTimeline /\ Progress)'
  BY TypeNext, CountedNext, DerivedNext, ProgressNext
<1>3. Progress => ReadyIsEarned BY DEF Progress
<1> QED BY <1>1, <1>2, <1>3, PTL DEF Spec

=============================================================================
