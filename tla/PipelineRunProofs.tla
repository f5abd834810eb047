--------------------------- MODULE PipelineRunProofs ---------------------------
(***************************************************************************)
(* Theorems about PipelineRun for any workers, batch sizes, generations,   *)
(* origins, lease length and number of troubles.                           *)
(***************************************************************************)
EXTENDS PipelineRun, TLAPS

-----------------------------------------------------------------------------
(* What the helpers return.                                                *)

(* A new run, an idle worker and an empty generation are well formed.      *)
LEMMA FreshType ==
  /\ \A state \in RunStates : Row(state) \in RunRows
  /\ Poll \in WorkerStates
  /\ NothingStaged \in [chunks : BOOLEAN, vectors : BOOLEAN]
BY PipelineConstants
   DEF Row, RunRows, Poll, WorkerStates, Phases, Sounds, Gens, NothingStaged

(* Giving a lease up, and following a run with the recording, too.         *)
LEMMA ReleasedType ==
  ASSUME NEW row \in RunRows, NEW state \in RunStates
  PROVE  Released(row, state) \in RunRows
<1>1. 0 \in 0..LeaseTTL /\ NoOwner \in Workers \cup {NoOwner}
  BY PipelineConstants
<1>2. QED
  BY <1>1 DEF Released, RunRows

(* The row of a run is rewritten with well-formed values.                  *)
LEMMA WriteType ==
  ASSUME TypeOK, NEW w \in Workers, NEW row \in RunRows, Write(w, row)
  PROVE  runs' \in [Gens -> RunRows]
BY DEF TypeOK, Write

LEMMA FollowType ==
  ASSUME TypeOK, NEW status \in {"queued", "processing", "failed"}
  PROVE  Follow(status) \in Recordings
BY DEF TypeOK, Follow, Recordings

(* A worker that goes on, fails, or turns to the next run of a batch keeps *)
(* a well-formed state.                                                    *)
LEMMA GotoType ==
  ASSUME TypeOK, NEW w \in Workers, NEW phase \in Phases, Goto(w, phase)
  PROVE  wk' \in [Workers -> WorkerStates]
BY DEF TypeOK, Goto, WorkerStates

LEMMA RaiseType ==
  ASSUME TypeOK, NEW w \in Workers, NEW incomplete \in BOOLEAN, Raise(w, incomplete)
  PROVE  wk' \in [Workers -> WorkerStates]
<1>1. wk[w] \in WorkerStates
  BY DEF TypeOK
<1>2. [Poll EXCEPT !.phase = "fail", !.gen = wk[w].gen, !.batch = wk[w].batch,
                   !.incomplete = incomplete] \in WorkerStates
  BY <1>1, FreshType DEF WorkerStates, Phases
<1>3. QED
  BY <1>2 DEF TypeOK, Raise

LEMMA TakeType ==
  ASSUME TypeOK, NEW w \in Workers, NEW batch \in SUBSET Gens, Take(w, batch)
  PROVE  wk' \in [Workers -> WorkerStates]
<1>1. CASE wk' = [wk EXCEPT ![w] = Poll]
  BY <1>1, FreshType DEF TypeOK
<1>2. ASSUME NEW g \in batch,
             wk' = [wk EXCEPT ![w] = [Poll EXCEPT !.phase = "resolve", !.gen = g,
                                                  !.batch = batch \ {g}]]
      PROVE  wk' \in [Workers -> WorkerStates]
  <2>1. g \in 0..MaxGen /\ batch \ {g} \in SUBSET Gens /\ "resolve" \in Phases
    BY PipelineConstants DEF Gens, Phases
  <2>2. [Poll EXCEPT !.phase = "resolve", !.gen = g, !.batch = batch \ {g}] \in WorkerStates
    BY <2>1, FreshType DEF WorkerStates
  <2>3. QED
    BY <1>2, <2>2 DEF TypeOK
<1>3. QED
  BY <1>1, <1>2 DEF Take

LEMMA FinishType ==
  ASSUME TypeOK, NEW w \in Workers, Finish(w)
  PROVE  wk' \in [Workers -> WorkerStates]
BY TakeType DEF TypeOK, WorkerStates, Finish

-----------------------------------------------------------------------------
(* A worker beyond its poll is at work on a run.                           *)
GenKnown == \A w \in Workers : wk[w].phase \notin {"poll", "claim"} => wk[w].gen \in Gens

(* It stays so when a worker goes on, fails, or takes the next run.        *)
LEMMA GotoGen ==
  ASSUME TypeOK, GenKnown, NEW w \in Workers, NEW phase,
         Goto(w, phase), phase = "claim" \/ wk[w].phase \notin {"poll", "claim"}
  PROVE  GenKnown'
BY DEF TypeOK, GenKnown, Goto, WorkerStates

LEMMA RaiseGen ==
  ASSUME TypeOK, GenKnown, NEW w \in Workers, NEW incomplete,
         Raise(w, incomplete), wk[w].phase \notin {"poll", "claim"}
  PROVE  GenKnown'
BY DEF TypeOK, GenKnown, Raise, WorkerStates, Poll

LEMMA TakeGen ==
  ASSUME TypeOK, GenKnown, NEW w \in Workers, NEW batch \in SUBSET Gens, Take(w, batch)
  PROVE  GenKnown'
<1>1. CASE wk' = [wk EXCEPT ![w] = Poll]
  BY <1>1 DEF TypeOK, GenKnown, WorkerStates, Poll
<1>2. ASSUME NEW g \in batch,
             wk' = [wk EXCEPT ![w] = [Poll EXCEPT !.phase = "resolve", !.gen = g,
                                                  !.batch = batch \ {g}]]
      PROVE  GenKnown'
  BY <1>2 DEF TypeOK, GenKnown, WorkerStates, Poll
<1>3. QED
  BY <1>1, <1>2 DEF Take

LEMMA FinishGen ==
  ASSUME TypeOK, GenKnown, NEW w \in Workers, Finish(w)
  PROVE  GenKnown'
BY TakeGen DEF TypeOK, WorkerStates, Finish

(* No action sends a worker to work without a run.                         *)
LEMMA GenStep == TypeOK /\ GenKnown /\ [Next]_vars => GenKnown'
<1> SUFFICES ASSUME TypeOK, GenKnown, [Next]_vars PROVE GenKnown'
  OBVIOUS
<1>1. CASE UNCHANGED <<wk>>
  BY <1>1 DEF GenKnown
<1>2. ASSUME NEW w \in Workers, EnsureLegacy(w) PROVE GenKnown'
  BY <1>2, GotoGen DEF EnsureLegacy
<1>3. ASSUME NEW w \in Workers, Claim(w) PROVE GenKnown'
  BY <1>3, TakeGen DEF Claim, Candidates
<1>4. ASSUME NEW w \in Workers, Resolve(w) PROVE GenKnown'
  BY <1>4, FinishGen, GotoGen DEF Resolve, At
<1>5. ASSUME NEW w \in Workers, Transition(w) PROVE GenKnown'
  <2>1. wk[w].phase \notin {"poll", "claim"}
    BY <1>5 DEF Transition
  <2>2. (\E phase : Goto(w, phase)) \/ Raise(w, FALSE)
    BY <1>5 DEF Transition
  <2>3. QED
    BY <2>1, <2>2, GotoGen, RaiseGen
<1>6. ASSUME NEW w \in Workers, Persist(w) \/ PersistNothing(w) PROVE GenKnown'
  <2>1. CASE Raise(w, FALSE)
    BY <1>6, <2>1, RaiseGen DEF Persist, PersistNothing, At
  <2>2. CASE ~Raise(w, FALSE)
    <3>1. \A v \in Workers : /\ wk'[v].gen = wk[v].gen
                             /\ v # w => wk'[v].phase = wk[v].phase
      <4>1. \A v \in Workers : wk[v] \in WorkerStates
        BY DEF TypeOK
      <4>2. CASE Persist(w)
        <5>1. PICK heard \in Sounds :
                wk' = [v \in Workers |->
                         IF v = w
                           THEN [wk[w] EXCEPT !.heard = heard,
                                   !.phase = IF heard = "speech" THEN "segments" ELSE "require"]
                         ELSE IF Gen(v) = Gen(w) THEN [wk[v] EXCEPT !.seen = FALSE] ELSE wk[v]]
          BY <2>2, <4>2 DEF Persist
        <5>2. QED
          BY <4>1, <5>1 DEF WorkerStates
      <4>3. CASE PersistNothing(w)
        BY <4>1, <4>3 DEF PersistNothing, WorkerStates
      <4>4. QED
        BY <1>6, <4>2, <4>3
    <3>2. wk[w].phase \notin {"poll", "claim"}
      BY <1>6 DEF Persist, PersistNothing, At
    <3>3. QED
      BY <3>1, <3>2 DEF GenKnown
  <2>3. QED
    BY <2>1, <2>2
<1>7. ASSUME NEW w \in Workers, Require(w) \/ Outboxes(w) PROVE GenKnown'
  BY <1>7, GotoGen, RaiseGen DEF Require, Outboxes, At
<1>8. ASSUME NEW w \in Workers, Complete(w) PROVE GenKnown'
  <2>1. wk[w].phase \notin {"poll", "claim"}
    BY <1>8 DEF Complete, Projections
  <2>2. (\E phase : Goto(w, phase)) \/ Raise(w, FALSE)
    BY <1>8 DEF Complete
  <2>3. QED
    BY <2>1, <2>2, GotoGen, RaiseGen
<1>9. ASSUME NEW w \in Workers, Load(w) PROVE GenKnown'
  BY <1>9 DEF Load, At, GenKnown, TypeOK, WorkerStates
<1>10. ASSUME NEW w \in Workers, Embed(w) PROVE GenKnown'
  <2>1. CASE Raise(w, TRUE)
    BY <1>10, <2>1, RaiseGen DEF Embed, At
  <2>2. CASE ~Raise(w, TRUE)
    <3>1. wk' = [wk EXCEPT ![w].phase = "vector", ![w].seen = FALSE] /\ At(w, "embed")
      BY <1>10, <2>2 DEF Embed
    <3>2. QED
      BY <3>1 DEF At, GenKnown, TypeOK, WorkerStates
  <2>3. QED
    BY <2>1, <2>2
<1>11. ASSUME NEW w \in Workers, Check(w) PROVE GenKnown'
  BY <1>11, GotoGen, RaiseGen, FinishGen DEF Check, At
<1>12. ASSUME NEW w \in Workers, Commit(w) \/ Fail(w) PROVE GenKnown'
  BY <1>12, FinishGen DEF Commit, Fail
<1>13. ASSUME NEW w \in Workers, Fault(w) PROVE GenKnown'
  BY <1>13, RaiseGen DEF Fault
<1>14. ASSUME NEW w \in Workers, Crash(w) PROVE GenKnown'
  BY <1>14 DEF Crash, GenKnown, TypeOK, WorkerStates, Poll
<1>15. QED
  BY <1>1, <1>2, <1>3, <1>4, <1>5, <1>6, <1>7, <1>8, <1>9, <1>10, <1>11, <1>12, <1>13,
     <1>14
     DEF Next, Step, vars, Heartbeat, Tick, Reindex, Publish, Refuse, EncryptionFails

-----------------------------------------------------------------------------
(* Type correctness.                                                       *)

(* A recording that has just been registered.                              *)
LEMMA TypeInit == Init => TypeOK
<1> SUFFICES ASSUME Init PROVE TypeOK
  OBVIOUS
<1> USE PipelineConstants
<1>1. PICK origin \in Origins :
        /\ runs = [g \in Gens |->
                     Row(IF g > 1 \/ origin = "legacy" THEN "none"
                         ELSE IF origin = "encrypted" THEN "claimed" ELSE "queued")]
        /\ rec = [exists |-> TRUE, active |-> 0,
                  status |-> IF origin = "encrypted" THEN "processing" ELSE "queued"]
        /\ ingest = IF origin = "encrypted" THEN "encrypting" ELSE "none"
  BY DEF Init
<1>2. runs \in [Gens -> RunRows]
  BY <1>1, FreshType DEF RunStates, InProgress
<1>3. rec \in Recordings
  BY <1>1 DEF Recordings
<1>4. staged \in [Gens -> [chunks : BOOLEAN, vectors : BOOLEAN]]
  BY FreshType DEF Init
<1>5. wk \in [Workers -> WorkerStates]
  BY FreshType DEF Init
<1>6. troubles \in 0..MaxTroubles
  BY DEF Init
<1>7. QED
  BY <1>1, <1>2, <1>3, <1>4, <1>5, <1>6 DEF Init, TypeOK

(* Every transaction, stage, failure and request keeps runs, recording and *)
(* workers well formed.                                                    *)
LEMMA TypeStep == TypeOK /\ GenKnown /\ [Next]_vars => TypeOK'
<1> SUFFICES ASSUME TypeOK, GenKnown, [Next]_vars PROVE TypeOK'
  OBVIOUS
<1> USE PipelineConstants
<1>0. /\ \A g \in Gens : runs[g] \in RunRows
      /\ \A w \in Workers : /\ wk[w] \in WorkerStates /\ wk[w].gen \in 0..MaxGen
                            /\ wk[w].batch \in SUBSET Gens
                            /\ wk[w].phase \notin {"poll", "claim"} => wk[w].gen \in Gens
  BY DEF TypeOK, GenKnown, WorkerStates
<1>1. CASE UNCHANGED vars
  BY <1>1 DEF vars, TypeOK
<1>2. ASSUME NEW w \in Workers, EnsureLegacy(w) PROVE TypeOK'
  <2>1. wk' \in [Workers -> WorkerStates]
    BY <1>2, GotoType DEF EnsureLegacy, Phases
  <2>2. runs' \in [Gens -> RunRows]
    BY <1>2, FreshType DEF EnsureLegacy, TypeOK, RunStates
  <2>3. QED
    BY <1>2, <2>1, <2>2 DEF EnsureLegacy, TypeOK
<1>3. ASSUME NEW w \in Workers, Claim(w) PROVE TypeOK'
  <2>1. wk' \in [Workers -> WorkerStates]
    BY <1>3, TakeType DEF Claim, Candidates
  <2>2. ASSUME NEW g \in Gens
        PROVE  [runs[g] EXCEPT !.state = "claimed", !.owner = w, !.ttl = LeaseTTL] \in RunRows
    <3>1. "claimed" \in RunStates /\ LeaseTTL \in 0..LeaseTTL /\ w \in Workers \cup {NoOwner}
      BY DEF RunStates, InProgress
    <3>2. QED
      BY <1>0, <3>1 DEF RunRows
  <2>3. runs' \in [Gens -> RunRows]
    BY <1>0, <1>3, <2>2 DEF Claim
  <2>4. QED
    BY <1>3, <2>1, <2>3 DEF Claim, TypeOK
<1>4. ASSUME NEW w \in Workers, Resolve(w) PROVE TypeOK'
  <2>1. CASE Refused(w, Gen(w))
    BY <1>4, <2>1, FinishType DEF Resolve, TypeOK
  <2>2. CASE ~Refused(w, Gen(w))
    <3>1. wk' \in [Workers -> WorkerStates]
      BY <1>4, <2>2, GotoType DEF Resolve, Phases
    <3>2. runs' \in [Gens -> RunRows]
      <4>1. /\ "claimed" \in RunStates /\ LeaseTTL \in 0..LeaseTTL
            /\ w \in Workers \cup {NoOwner} /\ Run(w) \in RunRows
        BY <1>0, <1>4 DEF Resolve, At, RunStates, InProgress, Run, Gen
      <4>2. [Run(w) EXCEPT !.state = "claimed", !.owner = w, !.ttl = LeaseTTL] \in RunRows
        BY <4>1 DEF RunRows
      <4>3. QED
        BY <1>4, <2>2, <4>2, WriteType DEF Resolve
    <3>3. rec' \in Recordings
      BY <1>4, <2>2, FollowType DEF Resolve
    <3>4. QED
      BY <1>4, <3>1, <3>2, <3>3 DEF Resolve, TypeOK
  <2>3. QED
    BY <2>1, <2>2
<1>5. ASSUME NEW w \in Workers, Transition(w) PROVE TypeOK'
  <2>1. CASE Fenced(w) /\ Forward(Run(w).state, wk[w].phase)
    <3>1. /\ wk[w].phase \in RunStates
          /\ AfterTransition(w, wk[w].phase) \in Phases
      BY <1>5 DEF Transition, RunStates, InProgress, AfterTransition, Phases
    <3>2. wk' \in [Workers -> WorkerStates]
      BY <1>5, <2>1, <3>1, GotoType DEF Transition
    <3>3. runs' \in [Gens -> RunRows]
      <4>1. Run(w) \in RunRows
        BY <1>0, <1>5 DEF Transition, Run, Gen
      <4>2. [Run(w) EXCEPT !.state = wk[w].phase] \in RunRows
        BY <3>1, <4>1 DEF RunRows
      <4>3. QED
        BY <1>5, <2>1, <4>2, WriteType DEF Transition
    <3>4. rec' \in Recordings
      BY <1>5, <2>1, FollowType DEF Transition
    <3>5. QED
      BY <1>5, <3>2, <3>3, <3>4 DEF Transition, TypeOK
  <2>2. CASE ~(Fenced(w) /\ Forward(Run(w).state, wk[w].phase))
    BY <1>5, <2>2, RaiseType DEF Transition, TypeOK
  <2>3. QED
    BY <2>1, <2>2
<1>6. ASSUME NEW w \in Workers, Persist(w) PROVE TypeOK'
  <2>1. CASE Gen(w) \in Broken \/ ~Known(Gen(w))
    BY <1>6, <2>1, RaiseType DEF Persist, TypeOK
  <2>2. CASE ~(Gen(w) \in Broken \/ ~Known(Gen(w)))
    <3>1. PICK heard \in Sounds :
            /\ staged' = [staged EXCEPT ![Gen(w)] =
                            [chunks |-> heard = "speech", vectors |-> FALSE]]
            /\ wk' = [v \in Workers |->
                        IF v = w
                          THEN [wk[w] EXCEPT !.heard = heard,
                                  !.phase = IF heard = "speech" THEN "segments" ELSE "require"]
                        ELSE IF Gen(v) = Gen(w) THEN [wk[v] EXCEPT !.seen = FALSE] ELSE wk[v]]
      BY <1>6, <2>2 DEF Persist
    <3>2. staged' \in [Gens -> [chunks : BOOLEAN, vectors : BOOLEAN]]
      BY <3>1 DEF TypeOK
    <3>3. wk' \in [Workers -> WorkerStates]
      <4>1. ASSUME NEW v \in Workers PROVE wk'[v] \in WorkerStates
        BY <1>0, <3>1 DEF WorkerStates, Phases
      <4>2. QED
        BY <3>1, <4>1
    <3>4. QED
      BY <1>6, <3>2, <3>3 DEF Persist, TypeOK
  <2>3. QED
    BY <2>1, <2>2
<1>7. ASSUME NEW w \in Workers, PersistNothing(w) PROVE TypeOK'
  <2>1. ASSUME NEW v \in Workers PROVE wk'[v] \in WorkerStates
    BY <1>0, <1>7 DEF PersistNothing, WorkerStates, Phases
  <2>2. wk' \in [Workers -> WorkerStates]
    BY <1>7, <2>1 DEF PersistNothing
  <2>3. staged' \in [Gens -> [chunks : BOOLEAN, vectors : BOOLEAN]]
    BY <1>7, FreshType DEF PersistNothing, TypeOK
  <2>4. QED
    BY <1>7, <2>2, <2>3 DEF PersistNothing, TypeOK
<1>8. ASSUME NEW w \in Workers, Require(w) PROVE TypeOK'
  <2>1. CASE Fenced(w)
    <3>1. wk' \in [Workers -> WorkerStates]
      BY <1>8, <2>1, GotoType DEF Require, Phases
    <3>2. runs' \in [Gens -> RunRows]
      <4>1. Run(w) \in RunRows /\ {"file_index"} \in SUBSET Projections
        BY <1>0, <1>8 DEF Require, At, Run, Gen, Projections
      <4>2. [Run(w) EXCEPT !.required = {"file_index"},
                           !.completed = @ \cap {"file_index"}] \in RunRows
        BY <4>1 DEF RunRows
      <4>3. QED
        BY <1>8, <2>1, <4>2, WriteType DEF Require
    <3>3. QED
      BY <1>8, <3>1, <3>2 DEF Require, TypeOK
  <2>2. CASE ~Fenced(w)
    BY <1>8, <2>2, RaiseType DEF Require, TypeOK
  <2>3. QED
    BY <2>1, <2>2
<1>9. ASSUME NEW w \in Workers, Outboxes(w) PROVE TypeOK'
  <2>1. CASE Fenced(w)
    <3>1. wk' \in [Workers -> WorkerStates]
      BY <1>9, <2>1, GotoType DEF Outboxes, Phases
    <3>2. runs' \in [Gens -> RunRows]
      <4>1. Run(w) \in RunRows
        BY <1>0, <1>9 DEF Outboxes, At, Run, Gen
      <4>2. [Run(w) EXCEPT !.outbox = @ \cup Run(w).required] \in RunRows
        BY <4>1 DEF RunRows
      <4>3. QED
        BY <1>9, <2>1, <4>2, WriteType DEF Outboxes
    <3>3. QED
      BY <1>9, <3>1, <3>2 DEF Outboxes, TypeOK
  <2>2. CASE ~Fenced(w)
    BY <1>9, <2>2, RaiseType DEF Outboxes, TypeOK
  <2>3. QED
    BY <2>1, <2>2
<1>10. ASSUME NEW w \in Workers, Complete(w) PROVE TypeOK'
  <2>1. CASE Fenced(w) /\ wk[w].phase \in Run(w).required \cap Run(w).outbox
    <3>1. AfterProjection(w, wk[w].phase) \in Phases
      BY <1>10 DEF Complete, Projections, AfterProjection, Phases
    <3>2. wk' \in [Workers -> WorkerStates]
      BY <1>10, <2>1, <3>1, GotoType DEF Complete
    <3>3. runs' \in [Gens -> RunRows]
      <4>1. Run(w) \in RunRows /\ wk[w].phase \in Projections
        BY <1>0, <1>10 DEF Complete, Run, Gen, Projections
      <4>2. [Run(w) EXCEPT !.completed = @ \cup {wk[w].phase},
                           !.acked = @ \cup {wk[w].phase}] \in RunRows
        BY <4>1 DEF RunRows
      <4>3. QED
        BY <1>10, <2>1, <4>2, WriteType DEF Complete
    <3>4. QED
      BY <1>10, <3>2, <3>3 DEF Complete, TypeOK
  <2>2. CASE ~(Fenced(w) /\ wk[w].phase \in Run(w).required \cap Run(w).outbox)
    BY <1>10, <2>2, RaiseType DEF Complete, TypeOK
  <2>3. QED
    BY <2>1, <2>2
<1>11. ASSUME NEW w \in Workers, Load(w) PROVE TypeOK'
  <2>1. wk' \in [Workers -> WorkerStates]
    <3>1. staged[Gen(w)].chunks \in BOOLEAN
      BY <1>11 DEF Load, At, GenKnown, Gen, TypeOK
    <3>2. QED
      <4>1. [[wk[w] EXCEPT !.phase = IF staged[Gen(w)].chunks THEN "embed" ELSE "vector"]
                EXCEPT !.seen = staged[Gen(w)].chunks] \in WorkerStates
        BY <1>0, <3>1 DEF WorkerStates, Phases
      <4>2. QED
        BY <1>11, <4>1 DEF Load, TypeOK
  <2>2. QED
    BY <1>11, <2>1 DEF Load, TypeOK
<1>12. ASSUME NEW w \in Workers, Embed(w) PROVE TypeOK'
  <2>1. CASE wk[w].seen /\ Known(Gen(w))
    <3>1. wk' \in [Workers -> WorkerStates]
      BY <1>0, <1>12, <2>1 DEF Embed, TypeOK, WorkerStates, Phases
    <3>2. staged' \in [Gens -> [chunks : BOOLEAN, vectors : BOOLEAN]]
      <4>1. staged' = [staged EXCEPT ![Gen(w)].vectors = TRUE]
        BY <1>12, <2>1 DEF Embed
      <4>2. QED
        BY <4>1 DEF TypeOK
    <3>3. QED
      BY <1>12, <3>1, <3>2 DEF Embed, TypeOK
  <2>2. CASE ~(wk[w].seen /\ Known(Gen(w)))
    BY <1>12, <2>2, RaiseType DEF Embed, TypeOK
  <2>3. QED
    BY <2>1, <2>2
<1>13. ASSUME NEW w \in Workers, Fault(w) PROVE TypeOK'
  <2>1. wk' \in [Workers -> WorkerStates]
    BY <1>13, RaiseType DEF Fault, At
  <2>2. QED
    BY <1>13, <2>1 DEF Fault, TypeOK
<1>14. ASSUME NEW w \in Workers, Check(w) PROVE TypeOK'
  <2>1. wk' \in [Workers -> WorkerStates]
    BY <1>14, RaiseType, GotoType, FinishType DEF Check, Phases
  <2>2. runs' \in [Gens -> RunRows]
    <3>1. Released(Run(w), "superseded") \in RunRows
      BY <1>0, <1>14, ReleasedType DEF Check, At, Run, Gen, RunStates
    <3>2. (UNCHANGED runs) \/ Write(w, Released(Run(w), "superseded"))
      BY <1>14 DEF Check
    <3>3. QED
      BY <3>1, <3>2, WriteType DEF TypeOK
  <2>3. QED
    BY <1>14, <2>1, <2>2 DEF Check, TypeOK
<1>15. ASSUME NEW w \in Workers, Commit(w) PROVE TypeOK'
  <2>1. wk' \in [Workers -> WorkerStates]
    BY <1>15, FinishType DEF Commit
  <2>2. ASSUME NEW g \in Gens
        PROVE  /\ Released(runs[g], Target(w)) \in RunRows
               /\ [runs[g] EXCEPT !.state = "superseded"] \in RunRows
    BY <1>0, ReleasedType DEF Target, RunStates, Ready, RunRows
  <2>3. runs' \in [Gens -> RunRows]
    BY <1>0, <1>15, <2>2 DEF Commit
  <2>4. rec' \in Recordings
    BY <1>0, <1>15 DEF Commit, TypeOK, Recordings, Gen
  <2>5. QED
    BY <1>15, <2>1, <2>3, <2>4 DEF Commit, TypeOK
<1>16. ASSUME NEW w \in Workers, Fail(w) PROVE TypeOK'
  <2>1. wk' \in [Workers -> WorkerStates]
    BY <1>16, FinishType DEF Fail
  <2>2. /\ Released(Run(w), "partial") \in RunRows
        /\ Released(Run(w), "failed_retryable") \in RunRows
    BY <1>0, <1>16, ReleasedType DEF Fail, At, Run, Gen, RunStates
  <2>3. runs' \in [Gens -> RunRows] /\ rec' \in Recordings
    BY <1>16, <2>2, WriteType, FollowType DEF Fail, TypeOK
  <2>4. QED
    BY <1>16, <2>1, <2>3 DEF Fail, TypeOK
<1>17. ASSUME NEW w \in Workers, Heartbeat(w) PROVE TypeOK'
  <2>1. runs' \in [Gens -> RunRows]
    <3>1. Run(w) \in RunRows /\ LeaseTTL \in 0..LeaseTTL
      BY <1>0, <1>17 DEF Heartbeat, Executing, Run, Gen
    <3>2. [Run(w) EXCEPT !.ttl = LeaseTTL] \in RunRows
      BY <3>1 DEF RunRows
    <3>3. QED
      BY <1>17, <3>2, WriteType DEF Heartbeat
  <2>2. QED
    BY <1>17, <2>1 DEF Heartbeat, TypeOK
<1>18. ASSUME NEW w \in Workers, Crash(w) PROVE TypeOK'
  <2>1. wk' \in [Workers -> WorkerStates]
    BY <1>18, FreshType DEF Crash, TypeOK
  <2>2. QED
    BY <1>18, <2>1 DEF Crash, TypeOK
<1>19. ASSUME NEW g \in Gens, Tick(g) PROVE TypeOK'
  <2>1. runs' \in [Gens -> RunRows]
    <3>1. runs[g].ttl - 1 \in 0..LeaseTTL
      BY <1>0, <1>19 DEF Tick, RunRows
    <3>2. [runs[g] EXCEPT !.ttl = @ - 1] \in RunRows
      BY <1>0, <3>1 DEF RunRows
    <3>3. QED
      BY <1>19, <3>2 DEF Tick, TypeOK
  <2>2. troubles' \in 0..MaxTroubles
    BY <1>19 DEF Tick, TypeOK
  <2>3. QED
    BY <1>19, <2>1, <2>2 DEF Tick, TypeOK
<1>20. CASE Reindex
  <2>1. runs' \in [Gens -> RunRows]
    BY <1>20, FreshType DEF Reindex, TypeOK, RunStates
  <2>2. rec' \in Recordings
    BY <1>20, FollowType DEF Reindex
  <2>3. QED
    BY <1>20, <2>1, <2>2 DEF Reindex, TypeOK
<1>21. CASE Publish
  <2>1. runs' \in [Gens -> RunRows]
    <3>1. 1 \in Gens /\ Released(runs[1], "queued") \in RunRows
      BY <1>0, ReleasedType DEF RunStates, Gens
    <3>2. QED
      BY <1>21, <3>1 DEF Publish, TypeOK
  <2>2. rec' \in Recordings
    BY <1>21 DEF Publish, TypeOK, Recordings
  <2>3. QED
    BY <1>21, <2>1, <2>2 DEF Publish, TypeOK
<1>22. CASE Refuse \/ EncryptionFails
  <2>1. /\ runs' \in [Gens -> RunRows]
        /\ staged' \in [Gens -> [chunks : BOOLEAN, vectors : BOOLEAN]]
        /\ rec' \in Recordings
    <3>1. Undone
      BY <1>22 DEF Refuse, EncryptionFails
    <3>2. rec' \in Recordings
      <4>1. 0 \in 0..MaxGen
        OBVIOUS
      <4>2. QED
        BY <3>1, <4>1 DEF Undone, TypeOK, Recordings
    <3>3. QED
      BY <3>1, <3>2, FreshType DEF Undone, RunStates
  <2>2. QED
    BY <1>22, <2>1 DEF Refuse, EncryptionFails, TypeOK
<1>23. QED
  BY <1>1, <1>2, <1>3, <1>4, <1>5, <1>6, <1>7, <1>8, <1>9, <1>10, <1>11, <1>12, <1>13,
     <1>14, <1>15, <1>16, <1>17, <1>18, <1>19, <1>20, <1>21, <1>22 DEF Next, Step

(* Runs, recording, chunk rows, workers and requests only take the values  *)
(* the code gives them.                                                    *)
THEOREM PipelineTypeCorrect == Spec => []TypeOK
<1>1. Init => TypeOK /\ GenKnown
  <2>1. Init => GenKnown
    BY DEF Init, GenKnown, Poll
  <2>2. QED
    BY <2>1, TypeInit
<1>2. TypeOK /\ GenKnown /\ [Next]_vars => (TypeOK /\ GenKnown)'
  BY TypeStep, GenStep
<1>3. QED
  BY <1>1, <1>2, PTL DEF Spec

-----------------------------------------------------------------------------
(* The inductive invariant behind the publication properties.              *)

(* A row is acknowledged before it counts as complete, released once it is *)
(* ready, and complete when it is published with speech.                   *)
GoodRow(row) ==
  /\ row.completed \subseteq row.acked
  /\ row.state \in Ready => row.owner = NoOwner /\ row.ttl = 0
  /\ row.state = "ready" => row.required \subseteq row.completed
GoodRuns == \A g \in Gens : GoodRow(runs[g])

(* OneReadyGeneration, generation by generation.                           *)
PointerInv ==
  /\ \A g \in Gens : runs[g].state \in Ready => g = rec.active
  /\ rec.active # 0 => runs[rec.active].state \in Ready

(* The recording's status follows the state of its active generation.      *)
StatusInv ==
  rec.exists =>
    /\ rec.status = "indexed" => rec.active # 0 /\ runs[rec.active].state = "ready"
    /\ rec.active # 0 /\ runs[rec.active].state = "ready"
         => rec.status = "indexed" \/ Overtaken

(* A worker between the two halves of its activation holds a verified and  *)
(* complete run.                                                           *)
CommitInv ==
  \A w \in Workers : At(w, "commit") =>
    /\ Run(w).state = "verifying"
    /\ Run(w).owner = w
    /\ Run(w).required \subseteq Run(w).completed

(* Where a legal change of state may come from.                            *)
LEMMA ForwardFacts ==
  ASSUME NEW from \in RunStates, NEW to \in RunStates, Forward(from, to)
  PROVE  /\ to \notin Ready => from \notin Ready
         /\ to \in Ready => from = "verifying"
<1>1. CASE to = "claimed"
  BY <1>1 DEF Forward, Ready, InProgress
<1>2. CASE to \in {"partial", "failed_retryable"}
  BY <1>2 DEF Forward, Ready, RunStates, InProgress
<1>3. CASE to \notin {"claimed", "partial", "failed_retryable"}
  BY <1>3 DEF Forward, Ready
<1>4. QED
  BY <1>1, <1>2, <1>3

(* A step that touches no ready run, and makes none.                       *)
Quiet ==
  /\ \A g \in Gens : \/ runs'[g] = runs[g]
                     \/ /\ runs[g].state \notin Ready /\ runs'[g].state \notin Ready
                        /\ GoodRow(runs'[g])
  /\ rec' = rec \/ \E status \in {"queued", "processing", "failed"} : rec' = Follow(status)
  /\ ingest' = ingest

(* Such a step keeps what is said of the ready ones.                       *)
LEMMA QuietStep ==
  ASSUME TypeOK, GoodRuns, PointerInv, StatusInv, Quiet
  PROVE  GoodRuns' /\ PointerInv' /\ StatusInv'
<1>1. GoodRuns'
  BY DEF GoodRuns, Quiet
<1>2. rec'.active = rec.active /\ rec'.exists = rec.exists
      /\ (rec'.status = rec.status \/ (rec.active = 0 /\ rec'.status # "indexed"))
  BY DEF Quiet, Follow, TypeOK, Recordings
<1>3. \A g \in Gens : /\ runs'[g].state \in Ready <=> runs[g].state \in Ready
                      /\ runs'[g].state = "ready" <=> runs[g].state = "ready"
  BY DEF Quiet, Ready
<1>4. rec.active # 0 => rec.active \in Gens
  BY PipelineConstants DEF TypeOK, Recordings, Gens
<1>5. PointerInv'
  BY <1>2, <1>3, <1>4 DEF PointerInv
<1>6. StatusInv'
  <2>1. CASE rec.active = 0
    BY <1>2, <2>1 DEF StatusInv
  <2>2. CASE rec.active # 0
    BY <1>2, <1>3, <1>4, <2>2 DEF StatusInv, Overtaken, Quiet
  <2>3. QED
    BY <2>1, <2>2
<1>7. QED
  BY <1>1, <1>5, <1>6

(* A worker that is fenced in works on a run that is not ready.            *)
LEMMA FencedNotReady ==
  ASSUME TypeOK, GoodRuns, NEW w \in Workers, Gen(w) \in Gens, Fenced(w)
  PROVE  Run(w).state \notin Ready
BY PipelineConstants DEF GoodRuns, GoodRow, Fenced, Run

(* A write to a run that is not ready, and is not made so, is quiet.       *)
LEMMA WriteQuiet ==
  ASSUME TypeOK, NEW w \in Workers, Gen(w) \in Gens, NEW row, Write(w, row),
         Run(w).state \notin Ready, row.state \notin Ready, GoodRow(row),
         rec' = rec \/ \E status \in {"queued", "processing", "failed"} : rec' = Follow(status),
         ingest' = ingest
  PROVE  Quiet
BY DEF TypeOK, Write, Run, Quiet

(* So is a new run.                                                        *)
LEMMA AppendQuiet ==
  ASSUME TypeOK, NEW g \in Gens, ~Known(g), runs' = [runs EXCEPT ![g] = Row("queued")],
         rec' = rec \/ \E status \in {"queued", "processing", "failed"} : rec' = Follow(status),
         ingest' = ingest
  PROVE  Quiet
BY DEF TypeOK, Known, Row, GoodRow, Ready, Quiet

(* All but the activation and the registration request are quiet.          *)
LEMMA WorkerQuiet ==
  ASSUME TypeOK, GenKnown, GoodRuns, NEW w \in Workers,
         Step(w) \/ Fault(w) \/ Heartbeat(w) \/ Crash(w), ~Commit(w)
  PROVE  Quiet
<1> USE PipelineConstants
<1>0. /\ \A g \in Gens : runs[g] \in RunRows /\ GoodRow(runs[g])
      /\ wk[w].phase \notin {"poll", "claim"} => Gen(w) \in Gens
  BY DEF TypeOK, GenKnown, GoodRuns, Gen
<1>1. CASE UNCHANGED <<runs, rec, ingest>>
  BY <1>1 DEF Quiet
<1>2. CASE EnsureLegacy(w)
  BY <1>1, <1>2, AppendQuiet DEF EnsureLegacy
<1>3. CASE Claim(w)
  <2>1. ASSUME NEW g \in Gens, g \in Candidates(w)
        PROVE  /\ runs[g].state \notin Ready /\ runs'[g].state \notin Ready
               /\ GoodRow(runs'[g])
    <3>1. runs'[g] = [runs[g] EXCEPT !.state = "claimed", !.owner = w, !.ttl = LeaseTTL]
      BY <1>3, <2>1 DEF Claim
    <3>2. runs[g].state \notin Ready
      BY <2>1 DEF Candidates, Claimable, Runnable, InProgress, Ready
    <3>3. QED
      BY <1>0, <3>1, <3>2 DEF RunRows, GoodRow, Ready
  <2>2. \A g \in Gens : g \notin Candidates(w) => runs'[g] = runs[g]
    BY <1>3 DEF Claim
  <2>3. QED
    BY <1>3, <2>1, <2>2 DEF Claim, Quiet
<1>4. CASE Resolve(w) /\ ~Refused(w, Gen(w))
  <2>1. Gen(w) \in Gens /\ Run(w) \in RunRows /\ GoodRow(Run(w))
    BY <1>0, <1>4 DEF Resolve, At, Run
  <2>2. Run(w).state \notin Ready
    BY <1>4, <2>1, ForwardFacts DEF Refused, Run, RunRows, RunStates, InProgress, Ready
  <2>3. DEFINE row == [Run(w) EXCEPT !.state = "claimed", !.owner = w, !.ttl = LeaseTTL]
  <2>4. row.state \notin Ready /\ GoodRow(row)
    BY <2>1 DEF RunRows, GoodRow, Ready
  <2>5. Write(w, row) /\ rec' = Follow("processing") /\ ingest' = ingest
    BY <1>4 DEF Resolve
  <2>6. QED
    BY <2>1, <2>2, <2>4, <2>5, WriteQuiet
<1>5. CASE Transition(w) /\ Fenced(w) /\ Forward(Run(w).state, wk[w].phase)
  <2>1. Gen(w) \in Gens /\ Run(w) \in RunRows /\ GoodRow(Run(w))
    BY <1>0, <1>5 DEF Transition, Run
  <2>2. Run(w).state \notin Ready
    BY <1>5, <2>1, FencedNotReady
  <2>3. DEFINE row == [Run(w) EXCEPT !.state = wk[w].phase]
  <2>4. row.state \notin Ready /\ GoodRow(row)
    BY <1>5, <2>1 DEF Transition, RunRows, GoodRow, Ready
  <2>5. Write(w, row) /\ rec' = Follow("processing") /\ ingest' = ingest
    BY <1>5 DEF Transition
  <2>6. QED
    BY <2>1, <2>2, <2>4, <2>5, WriteQuiet
<1>6. CASE Require(w) /\ Fenced(w)
  <2>1. Gen(w) \in Gens /\ Run(w) \in RunRows /\ GoodRow(Run(w))
    BY <1>0, <1>6 DEF Require, At, Run
  <2>2. Run(w).state \notin Ready
    BY <1>6, <2>1, FencedNotReady
  <2>3. DEFINE row == [Run(w) EXCEPT !.required = {"file_index"},
                                     !.completed = @ \cap {"file_index"}]
  <2>4. row.state \notin Ready /\ GoodRow(row)
    BY <2>1, <2>2 DEF RunRows, GoodRow, Ready
  <2>5. Write(w, row) /\ rec' = rec /\ ingest' = ingest
    BY <1>6 DEF Require
  <2>6. QED
    BY <2>1, <2>2, <2>4, <2>5, WriteQuiet
<1>7. CASE Outboxes(w) /\ Fenced(w)
  <2>1. Gen(w) \in Gens /\ Run(w) \in RunRows /\ GoodRow(Run(w))
    BY <1>0, <1>7 DEF Outboxes, At, Run
  <2>2. Run(w).state \notin Ready
    BY <1>7, <2>1, FencedNotReady
  <2>3. DEFINE row == [Run(w) EXCEPT !.outbox = @ \cup Run(w).required]
  <2>4. row.state \notin Ready /\ GoodRow(row)
    BY <2>1, <2>2 DEF RunRows, GoodRow, Ready
  <2>5. Write(w, row) /\ rec' = rec /\ ingest' = ingest
    BY <1>7 DEF Outboxes
  <2>6. QED
    BY <2>1, <2>2, <2>4, <2>5, WriteQuiet
<1>8. CASE Complete(w) /\ Fenced(w) /\ wk[w].phase \in Run(w).required \cap Run(w).outbox
  <2>1. Gen(w) \in Gens /\ Run(w) \in RunRows /\ GoodRow(Run(w))
    BY <1>0, <1>8 DEF Complete, Projections, Run
  <2>2. Run(w).state \notin Ready
    BY <1>8, <2>1, FencedNotReady
  <2>3. DEFINE row == [Run(w) EXCEPT !.completed = @ \cup {wk[w].phase},
                                     !.acked = @ \cup {wk[w].phase}]
  <2>4. row.state \notin Ready /\ GoodRow(row)
    BY <2>1, <2>2 DEF RunRows, GoodRow, Ready
  <2>5. Write(w, row) /\ rec' = rec /\ ingest' = ingest
    BY <1>8 DEF Complete
  <2>6. QED
    BY <2>1, <2>2, <2>4, <2>5, WriteQuiet
<1>9. CASE Check(w) /\ runs' # runs
  <2>1. Gen(w) \in Gens /\ Run(w) \in RunRows /\ GoodRow(Run(w)) /\ Fenced(w)
    BY <1>0, <1>9 DEF Check, At, Run
  <2>2. Run(w).state \notin Ready
    BY <2>1, FencedNotReady
  <2>3. LET row == Released(Run(w), "superseded")
        IN row.state \notin Ready /\ GoodRow(row)
    BY <2>1 DEF RunRows, Released, GoodRow, Ready
  <2>4. Write(w, Released(Run(w), "superseded")) /\ rec' = rec /\ ingest' = ingest
    BY <1>9 DEF Check
  <2>5. QED
    BY <2>1, <2>2, <2>3, <2>4, WriteQuiet
<1>10. CASE Fail(w) /\ ~UNCHANGED <<runs, rec>>
  <2>1. Gen(w) \in Gens /\ Run(w) \in RunRows /\ GoodRow(Run(w)) /\ Fenced(w)
    BY <1>0, <1>10 DEF Fail, At, Run
  <2>2. Run(w).state \notin Ready
    BY <2>1, FencedNotReady
  <2>3. PICK target \in {"partial", "failed_retryable"} :
          Write(w, Released(Run(w), target)) /\ rec' = Follow("failed")
    BY <1>10 DEF Fail
  <2>4. LET row == Released(Run(w), target)
        IN row.state \notin Ready /\ GoodRow(row)
    BY <2>1 DEF RunRows, Released, GoodRow, Ready
  <2>5. QED
    BY <1>10, <2>1, <2>2, <2>3, <2>4, WriteQuiet DEF Fail
<1>11. CASE Heartbeat(w)
  <2>1. Gen(w) \in Gens /\ Run(w) \in RunRows /\ GoodRow(Run(w)) /\ Fenced(w)
    BY <1>0, <1>11 DEF Heartbeat, Executing, Run
  <2>2. Run(w).state \notin Ready
    BY <2>1, FencedNotReady
  <2>3. DEFINE row == [Run(w) EXCEPT !.ttl = LeaseTTL]
  <2>4. row.state \notin Ready /\ GoodRow(row)
    BY <2>1, <2>2 DEF RunRows, GoodRow, Ready
  <2>5. Write(w, row) /\ rec' = rec /\ ingest' = ingest
    BY <1>11 DEF Heartbeat
  <2>6. QED
    BY <2>1, <2>2, <2>4, <2>5, WriteQuiet
<1>12. QED
  <2>1. CASE Resolve(w) \/ Transition(w)
    BY <1>1, <1>4, <1>5, <2>1 DEF Resolve, Transition
  <2>2. CASE Require(w) \/ Outboxes(w) \/ Complete(w)
    BY <1>1, <1>6, <1>7, <1>8, <2>2 DEF Require, Outboxes, Complete
  <2>3. CASE Check(w) \/ Fail(w)
    BY <1>1, <1>9, <1>10, <2>3 DEF Check, Fail
  <2>4. CASE Persist(w) \/ PersistNothing(w) \/ Load(w) \/ Embed(w) \/ Fault(w) \/ Crash(w)
    BY <1>1, <2>4 DEF Persist, PersistNothing, Load, Embed, Fault, Crash
  <2>5. QED
    BY <1>2, <1>3, <1>11, <2>1, <2>2, <2>3, <2>4 DEF Step

(* So are the clock and the requests for a new generation.                 *)
LEMMA OutsideQuiet ==
  ASSUME TypeOK, GoodRuns, Reindex \/ \E g \in Gens : Tick(g)
  PROVE  Quiet
<1>1. CASE Reindex
  BY <1>1, AppendQuiet DEF Reindex
<1>2. ASSUME NEW g \in Gens, Tick(g) PROVE Quiet
  <2>1. runs[g] \in RunRows /\ GoodRow(runs[g]) /\ runs[g].ttl > 0
    BY <1>2 DEF TypeOK, GoodRuns, Tick
  <2>2. runs' = [runs EXCEPT ![g] = [runs[g] EXCEPT !.ttl = @ - 1]]
    BY <1>2 DEF Tick
  <2>3. runs[g].state \notin Ready
    BY <2>1 DEF GoodRow
  <2>4. GoodRow([runs[g] EXCEPT !.ttl = @ - 1])
    BY <2>1, <2>3 DEF GoodRow, RunRows, Ready
  <2>5. QED
    BY <1>2, <2>2, <2>3, <2>4, <2>1 DEF Tick, TypeOK, RunRows, Quiet
<1>3. QED
  BY <1>1, <1>2

(* An activation publishes the run it has verified and retires the active  *)
(* one.                                                                    *)
LEMMA CommitPublishes ==
  ASSUME TypeOK, GenKnown, GoodRuns, PointerInv, CommitInv, NEW w \in Workers, Commit(w)
  PROVE  GoodRuns' /\ PointerInv' /\ StatusInv'
<1> USE PipelineConstants
<1>1. /\ Gen(w) \in Gens /\ Run(w) \in RunRows /\ GoodRow(Run(w))
      /\ Run(w).required \subseteq Run(w).completed
  BY DEF Commit, At, GenKnown, TypeOK, GoodRuns, CommitInv, Run, Gen
<1>2. /\ runs' = [g \in Gens |->
                    IF g = Gen(w) THEN Released(runs[g], Target(w))
                    ELSE IF g = rec.active THEN [runs[g] EXCEPT !.state = "superseded"]
                    ELSE runs[g]]
      /\ rec' = [rec EXCEPT !.active = Gen(w),
                            !.status = IF wk[w].heard = "speech" THEN "indexed"
                                                                 ELSE "ready_no_speech"]
  BY DEF Commit
<1>3. /\ rec'.active = Gen(w)
      /\ rec'.status = IF wk[w].heard = "speech" THEN "indexed" ELSE "ready_no_speech"
  BY <1>2 DEF TypeOK, Recordings
<1>4. runs'[Gen(w)].state = Target(w) /\ GoodRow(runs'[Gen(w)])
  BY <1>1, <1>2 DEF Run, Released, RunRows, GoodRow
<1>5. ASSUME NEW g \in Gens, g # Gen(w)
      PROVE  runs'[g].state \notin Ready /\ GoodRow(runs'[g])
  <2>1. runs[g] \in RunRows /\ GoodRow(runs[g])
    BY DEF TypeOK, GoodRuns
  <2>2. CASE g = rec.active
    BY <1>2, <1>5, <2>1, <2>2 DEF RunRows, GoodRow, Ready
  <2>3. CASE g # rec.active
    BY <1>2, <1>5, <2>1, <2>3 DEF PointerInv
  <2>4. QED
    BY <2>2, <2>3
<1>6. GoodRuns'
  BY <1>4, <1>5 DEF GoodRuns
<1>7. PointerInv'
  BY <1>1, <1>3, <1>4, <1>5 DEF PointerInv, Target, Ready
<1>8. StatusInv'
  BY <1>1, <1>3, <1>4 DEF StatusInv, Target, Gens
<1>9. QED
  BY <1>6, <1>7, <1>8

(* The registration request publishes or deletes a reservation that is not *)
(* being activated.                                                        *)
LEMMA RequestKeeps ==
  ASSUME TypeOK, GoodRuns, PointerInv, StatusInv, Publish \/ Refuse \/ EncryptionFails
  PROVE  GoodRuns' /\ PointerInv' /\ StatusInv'
<1> USE PipelineConstants
<1>1. CASE Publish
  <2>1. 1 \in Gens /\ runs[1] \in RunRows /\ GoodRow(runs[1]) /\ runs[1].state = "claimed"
    BY <1>1 DEF Gens, TypeOK, GoodRuns, Publish
  <2>2. /\ runs' = [runs EXCEPT ![1] = Released(runs[1], "queued")]
        /\ rec' = [rec EXCEPT !.status = "queued"]
        /\ ingest' = "published"
    BY <1>1 DEF Publish
  <2>3. rec'.active = rec.active /\ rec'.status = "queued"
    BY <2>2 DEF TypeOK, Recordings
  <2>4. runs'[1].state = "queued" /\ GoodRow(runs'[1])
    BY <2>1, <2>2 DEF TypeOK, Released, RunRows, GoodRow, Ready
  <2>5. \A g \in Gens : g # 1 => runs'[g] = runs[g]
    BY <2>2 DEF TypeOK
  <2>6. GoodRuns'
    BY <2>4, <2>5 DEF GoodRuns
  <2>7. rec.active # 0 => rec.active \in Gens
    BY DEF TypeOK, Recordings, Gens
  <2>8. PointerInv'
    BY <2>1, <2>3, <2>4, <2>5, <2>7 DEF PointerInv, Ready
  <2>9. StatusInv'
    BY <2>2, <2>3 DEF StatusInv, Overtaken
  <2>10. QED
    BY <2>6, <2>8, <2>9
<1>2. CASE Refuse \/ EncryptionFails
  <2>1. /\ runs' = [g \in Gens |-> Row("none")]
        /\ rec' = [rec EXCEPT !.exists = FALSE, !.active = 0]
    BY <1>2 DEF Refuse, EncryptionFails, Undone
  <2>2. rec'.active = 0 /\ rec'.exists = FALSE
    BY <2>1 DEF TypeOK, Recordings
  <2>3. QED
    BY <2>1, <2>2 DEF GoodRuns, GoodRow, PointerInv, StatusInv, Row, Ready
<1>3. QED
  BY <1>1, <1>2

-----------------------------------------------------------------------------
(* What workers and requests may do to a run that somebody else holds.     *)

Kept(u) ==
  LET new == runs'[Gen(u)]
  IN /\ new.state = Run(u).state /\ new.owner = Run(u).owner
     /\ new.required = Run(u).required /\ new.completed = Run(u).completed
Taken(u) ==
  ~Locked(Gen(u)) /\ runs'[Gen(u)].state = "claimed" /\ runs'[Gen(u)].owner # u

(* A worker fenced in writes its own run only.                             *)
LEMMA FencedWriteKeeps ==
  ASSUME TypeOK, NEW w \in Workers, NEW u \in Workers, u # w, Gen(u) \in Gens,
         Fenced(u), Fenced(w), NEW row, Write(w, row)
  PROVE  Kept(u)
BY DEF TypeOK, Fenced, Write, Run, Kept

(* A worker leaves the run another one holds, or claims it while it is not *)
(* being activated.                                                        *)
LEMMA Neighbour ==
  ASSUME TypeOK, GenKnown, GoodRuns, PointerInv, CommitInv,
         NEW w \in Workers, NEW u \in Workers, u # w, Executing(u), Fenced(u),
         Step(w) \/ Fault(w) \/ Heartbeat(w) \/ Crash(w)
  PROVE  Kept(u) \/ Taken(u)
<1> USE PipelineConstants
<1>0. Gen(u) \in Gens /\ Run(u) \in RunRows /\ Run(u).owner = u /\ Run(u).state # "none"
  BY DEF TypeOK, GenKnown, Executing, Fenced, Known, Run, Gen
<1>1. CASE UNCHANGED runs
  BY <1>1 DEF Kept, Run
<1>2. CASE EnsureLegacy(w) /\ runs' # runs
  BY <1>0, <1>2 DEF EnsureLegacy, Known, TypeOK, Kept, Run
<1>3. CASE Claim(w)
  <2>1. CASE Gen(u) \in Candidates(w)
    BY <1>0, <1>3, <2>1 DEF Claim, Run, RunRows, Taken
  <2>2. CASE Gen(u) \notin Candidates(w)
    BY <1>0, <1>3, <2>2 DEF Claim, Run, Kept
  <2>3. QED
    BY <2>1, <2>2
<1>4. CASE Resolve(w) /\ runs' # runs
  <2>1. /\ Write(w, [Run(w) EXCEPT !.state = "claimed", !.owner = w, !.ttl = LeaseTTL])
        /\ ~Locked(Gen(w))
    BY <1>4 DEF Resolve
  <2>2. CASE Gen(u) = Gen(w)
    BY <1>0, <2>1, <2>2 DEF Write, TypeOK, Run, RunRows, Taken
  <2>3. CASE Gen(u) # Gen(w)
    BY <1>0, <2>1, <2>3 DEF Write, TypeOK, Run, Kept
  <2>4. QED
    BY <2>2, <2>3
<1>5. CASE (Transition(w) \/ Require(w) \/ Outboxes(w) \/ Complete(w) \/ Heartbeat(w)
            \/ Check(w) \/ Fail(w)) /\ runs' # runs
  <2>1. Fenced(w) /\ \E row : Write(w, row)
    BY <1>5 DEF Transition, Require, Outboxes, Complete, Heartbeat, Check, Fail
  <2>2. QED
    BY <1>0, <2>1, FencedWriteKeeps
<1>6. CASE Commit(w)
  <2>1. Gen(u) # Gen(w)
    BY <1>0, <1>6 DEF Commit, CommitInv, Run
  <2>2. Gen(u) # rec.active
    BY <1>0 DEF PointerInv, GoodRuns, GoodRow, Run, Gens
  <2>3. QED
    BY <1>0, <1>6, <2>1, <2>2 DEF Commit, Kept, Run
<1>7. QED
  <2>1. CASE Persist(w) \/ PersistNothing(w) \/ Load(w) \/ Embed(w) \/ Fault(w) \/ Crash(w)
    BY <1>1, <2>1 DEF Persist, PersistNothing, Load, Embed, Fault, Crash
  <2>2. QED
    BY <1>1, <1>2, <1>3, <1>4, <1>5, <1>6, <2>1 DEF Step

(* So do the clock and a request for a new generation.                     *)
LEMMA OutsideKeeps ==
  ASSUME TypeOK, GenKnown, NEW u \in Workers, Executing(u), Fenced(u),
         Reindex \/ \E g \in Gens : Tick(g)
  PROVE  Kept(u)
<1>0. Gen(u) \in Gens /\ Run(u) \in RunRows /\ Run(u).state # "none"
  BY DEF TypeOK, GenKnown, Executing, Fenced, Known, Run, Gen
<1>1. CASE Reindex
  BY <1>0, <1>1 DEF Reindex, Known, TypeOK, Kept, Run
<1>2. ASSUME NEW g \in Gens, Tick(g) PROVE Kept(u)
  <2>1. runs' = [runs EXCEPT ![g] = [runs[g] EXCEPT !.ttl = @ - 1]]
    BY <1>2 DEF Tick
  <2>2. CASE Gen(u) = g
    BY <1>0, <2>1, <2>2 DEF TypeOK, Kept, Run, RunRows
  <2>3. CASE Gen(u) # g
    BY <1>0, <2>1, <2>3 DEF TypeOK, Kept, Run
  <2>4. QED
    BY <2>2, <2>3
<1>3. QED
  BY <1>1, <1>2

-----------------------------------------------------------------------------
(* What a step does to the workers.                                        *)

(* A worker that goes on, fails, or takes another run is where the code    *)
(* says.                                                                   *)
LEMMA GotoPhase ==
  ASSUME TypeOK, NEW w \in Workers, NEW phase, Goto(w, phase)
  PROVE  wk'[w].phase = phase /\ wk'[w].gen = wk[w].gen
BY DEF TypeOK, WorkerStates, Goto

LEMMA RaisePhase ==
  ASSUME TypeOK, NEW w \in Workers, NEW incomplete, Raise(w, incomplete)
  PROVE  wk'[w].phase = "fail"
BY DEF TypeOK, Raise, Poll

LEMMA TakePhase ==
  ASSUME TypeOK, NEW w \in Workers, NEW batch \in SUBSET Gens, Take(w, batch)
  PROVE  wk'[w].phase = "poll" \/ wk'[w].phase = "resolve"
<1>1. CASE wk' = [wk EXCEPT ![w] = Poll]
  BY <1>1 DEF TypeOK, Poll
<1>2. ASSUME NEW g \in batch,
             wk' = [wk EXCEPT ![w] = [Poll EXCEPT !.phase = "resolve", !.gen = g,
                                                  !.batch = batch \ {g}]]
      PROVE  wk'[w].phase = "resolve"
  BY <1>2 DEF TypeOK, Poll
<1>3. QED
  BY <1>1, <1>2 DEF Take

LEMMA FinishPhase ==
  ASSUME TypeOK, NEW w \in Workers, Finish(w)
  PROVE  wk'[w].phase = "poll" \/ wk'[w].phase = "resolve"
BY TakePhase DEF TypeOK, WorkerStates, Finish

(* A worker that steps or fails in the middle of a run changes its phase,  *)
(* and only a successful verification lets it activate a run.              *)
LEMMA ActorMoves ==
  ASSUME TypeOK, NEW w \in Workers, Step(w) \/ Fault(w) \/ Crash(w)
  PROVE  /\ Executing(w) => wk'[w].phase # wk[w].phase
         /\ wk'[w].phase = "commit" => Check(w) /\ Goto(w, "commit")
<1>0. wk[w] \in WorkerStates /\ wk \in [Workers -> WorkerStates]
  BY DEF TypeOK
<1>1. ASSUME EnsureLegacy(w) \/ Claim(w) \/ Resolve(w)
      PROVE  ~Executing(w) /\ wk'[w].phase # "commit"
  <2>1. Goto(w, "claim") \/ Take(w, Candidates(w)) \/ Goto(w, "vad") \/ Finish(w)
    BY <1>1 DEF EnsureLegacy, Claim, Resolve
  <2>2. wk'[w].phase # "commit"
    <3>1. CASE Goto(w, "claim")
      BY <3>1, GotoPhase
    <3>2. CASE Goto(w, "vad")
      BY <3>2, GotoPhase
    <3>3. CASE Take(w, Candidates(w)) \/ Finish(w)
      BY <3>3, TakePhase, FinishPhase DEF Candidates
    <3>4. QED
      BY <2>1, <3>1, <3>2, <3>3
  <2>3. QED
    BY <1>1, <2>2 DEF EnsureLegacy, Claim, Resolve, At, Executing
<1> DEFINE Moved == wk'[w].phase # wk[w].phase /\ wk'[w].phase # "commit"
<1>2. ASSUME Transition(w) PROVE Moved
  <2>1. Goto(w, AfterTransition(w, wk[w].phase)) \/ Raise(w, FALSE)
    BY <1>2 DEF Transition
  <2>2. QED
    <3>1. CASE Goto(w, AfterTransition(w, wk[w].phase))
      BY <1>0, <1>2, <3>1 DEF Transition, AfterTransition, Goto, WorkerStates
    <3>2. CASE Raise(w, FALSE)
      BY <1>2, <3>2, RaisePhase DEF Transition
    <3>3. QED
      BY <2>1, <3>1, <3>2
<1>3. ASSUME Persist(w) \/ PersistNothing(w) PROVE Moved
  <2>1. CASE Raise(w, FALSE)
    BY <1>3, <2>1, RaisePhase DEF Persist, PersistNothing, At
  <2>2. CASE Persist(w) /\ ~Raise(w, FALSE)
    <3>1. PICK heard \in Sounds :
            wk' = [v \in Workers |->
                     IF v = w
                       THEN [wk[w] EXCEPT !.heard = heard,
                               !.phase = IF heard = "speech" THEN "segments" ELSE "require"]
                     ELSE IF Gen(v) = Gen(w) THEN [wk[v] EXCEPT !.seen = FALSE] ELSE wk[v]]
      BY <2>2 DEF Persist
    <3>2. wk'[w].phase \in {"segments", "require"}
      BY <1>0, <3>1 DEF WorkerStates
    <3>3. QED
      BY <2>2, <3>2 DEF Persist, At
  <2>3. CASE PersistNothing(w)
    BY <1>0, <2>3 DEF PersistNothing, At, WorkerStates
  <2>4. QED
    BY <1>3, <2>1, <2>2, <2>3
<1>4. ASSUME Require(w) \/ Outboxes(w) PROVE Moved
  <2>1. CASE Raise(w, FALSE)
    BY <1>4, <2>1, RaisePhase DEF Require, Outboxes, At
  <2>2. CASE Require(w) /\ Goto(w, "outboxes")
    BY <2>2, GotoPhase DEF Require, At
  <2>3. CASE Outboxes(w) /\ Goto(w, "file_index")
    BY <2>3, GotoPhase DEF Outboxes, At
  <2>4. QED
    BY <1>4, <2>1, <2>2, <2>3 DEF Require, Outboxes
<1>5. ASSUME Complete(w) PROVE Moved
  <2>1. Goto(w, AfterProjection(w, wk[w].phase)) \/ Raise(w, FALSE)
    BY <1>5 DEF Complete
  <2>2. QED
    <3>1. CASE Goto(w, AfterProjection(w, wk[w].phase))
      BY <1>0, <1>5, <3>1 DEF Complete, Projections, AfterProjection, Goto, WorkerStates
    <3>2. CASE Raise(w, FALSE)
      BY <1>5, <3>2, RaisePhase DEF Complete, Projections
    <3>3. QED
      BY <2>1, <3>1, <3>2
<1>6. ASSUME Load(w) \/ Embed(w) PROVE Moved
  <2>1. CASE Raise(w, TRUE)
    BY <1>6, <2>1, RaisePhase DEF Load, Embed, At
  <2>2. CASE Embed(w) /\ ~Raise(w, TRUE)
    <3>1. wk[w].phase = "embed" /\ wk' = [wk EXCEPT ![w].phase = "vector", ![w].seen = FALSE]
      BY <2>2 DEF Embed, At
    <3>2. wk'[w].phase = "vector"
      BY <1>0, <3>1 DEF WorkerStates
    <3>3. QED
      BY <3>1, <3>2
  <2>3. CASE Load(w)
    <3>1. wk'[w].phase \in {"embed", "vector"}
      BY <1>0, <2>3 DEF Load, WorkerStates
    <3>2. QED
      BY <2>3, <3>1 DEF Load, At
  <2>4. QED
    BY <1>6, <2>1, <2>2, <2>3
<1>7. ASSUME Check(w)
      PROVE  /\ wk'[w].phase # wk[w].phase
             /\ wk'[w].phase = "commit" => Goto(w, "commit")
  <2>1. wk[w].phase = "activate"
    BY <1>7 DEF Check, At
  <2>2. CASE Raise(w, FALSE) \/ Raise(w, TRUE)
    BY <2>1, <2>2, RaisePhase
  <2>3. CASE Goto(w, "commit")
    BY <2>1, <2>3, GotoPhase
  <2>4. CASE Finish(w)
    BY <2>1, <2>4, FinishPhase
  <2>5. QED
    BY <1>7, <2>2, <2>3, <2>4 DEF Check
<1>8. ASSUME Commit(w) \/ Fail(w) PROVE Moved
  BY <1>8, FinishPhase DEF Commit, Fail, At
<1>9. ASSUME Fault(w) PROVE Moved
  BY <1>9, RaisePhase DEF Fault
<1>10. ASSUME Crash(w) PROVE Moved
  BY <1>0, <1>10 DEF Crash, At, Poll
<1>11. QED
  BY <1>1, <1>2, <1>3, <1>4, <1>5, <1>6, <1>7, <1>8, <1>9, <1>10 DEF Step

(* Others notice at most that the chunk rows they had read are gone.       *)
LEMMA OthersStay ==
  ASSUME TypeOK, NEW w \in Workers, NEW u \in Workers, u # w,
         Step(w) \/ Fault(w) \/ Heartbeat(w) \/ Crash(w)
  PROVE  wk'[u].phase = wk[u].phase /\ wk'[u].gen = wk[u].gen
<1>0. wk[u] \in WorkerStates /\ wk \in [Workers -> WorkerStates]
  BY DEF TypeOK
<1>1. CASE PersistNothing(w)
  BY <1>0, <1>1 DEF PersistNothing, WorkerStates
<1>2. CASE Persist(w) /\ ~Raise(w, FALSE)
  <2>1. wk'[u] = IF Gen(u) = Gen(w) THEN [wk[u] EXCEPT !.seen = FALSE] ELSE wk[u]
    BY <1>2 DEF Persist
  <2>2. QED
    BY <1>0, <2>1 DEF WorkerStates
<1>3. CASE \/ \E phase : Goto(w, phase)
           \/ \E incomplete : Raise(w, incomplete)
           \/ \E batch : Take(w, batch)
  <2>1. wk'[u] = wk[u]
    BY <1>0, <1>3 DEF Goto, Raise, Take
  <2>2. QED
    BY <2>1
<1>4. CASE Embed(w) /\ ~Raise(w, TRUE)
  BY <1>0, <1>4 DEF Embed
<1>5. CASE Load(w) \/ Fault(w) \/ Heartbeat(w) \/ Crash(w)
  BY <1>0, <1>5 DEF Load, Fault, Raise, Heartbeat, Crash
<1>6. QED
  <2>1. CASE EnsureLegacy(w) \/ Claim(w) \/ Resolve(w) \/ Transition(w)
    BY <1>3, <2>1 DEF EnsureLegacy, Claim, Resolve, Transition, Finish
  <2>2. CASE Persist(w) \/ Embed(w)
    BY <1>2, <1>3, <1>4, <2>2
  <2>3. CASE Require(w) \/ Outboxes(w) \/ Complete(w)
    BY <1>3, <2>3 DEF Require, Outboxes, Complete
  <2>4. CASE Check(w) \/ Commit(w) \/ Fail(w)
    BY <1>3, <2>4 DEF Check, Commit, Fail, Finish
  <2>5. QED
    BY <1>1, <1>5, <2>1, <2>2, <2>3, <2>4 DEF Step

-----------------------------------------------------------------------------
(* The inductive invariant.                                                *)
PipelineInv == GenKnown /\ GoodRuns /\ PointerInv /\ StatusInv /\ CommitInv

(* Nothing is ready or in hand when a recording is registered.             *)
LEMMA InvInit == Init => PipelineInv
<1> SUFFICES ASSUME Init PROVE PipelineInv
  OBVIOUS
<1>1. \A g \in Gens : \E state \in {"none", "queued", "claimed"} : runs[g] = Row(state)
  BY DEF Init
<1>2. rec.active = 0 /\ rec.status # "indexed"
  BY DEF Init
<1>3. \A w \in Workers : wk[w].phase = "poll"
  BY DEF Init, Poll
<1>4. GoodRuns
  BY <1>1 DEF GoodRuns, GoodRow, Row, Ready
<1>5. PointerInv /\ StatusInv
  BY <1>1, <1>2 DEF PointerInv, StatusInv, Row, Ready
<1>6. GenKnown /\ CommitInv
  BY <1>3 DEF GenKnown, CommitInv, At
<1>7. QED
  BY <1>4, <1>5, <1>6 DEF PipelineInv

(* A run that has passed its verification stays as it was verified.        *)
LEMMA VerifiedStays ==
  ASSUME TypeOK, CommitInv, NEW u \in Workers, At(u, "commit"),
         wk'[u].gen = wk[u].gen, Kept(u) \/ Taken(u)
  PROVE  /\ Run(u)'.state = "verifying" /\ Run(u)'.owner = u
         /\ Run(u)'.required \subseteq Run(u)'.completed
<1>1. Kept(u)
  BY DEF Taken, Locked
<1>2. QED
  BY <1>1 DEF CommitInv, Kept, Run, Gen

(* Nobody reaches the second half of an activation but through the first,  *)
(* and what the first half saw still holds in the second.                  *)
LEMMA CommitStep == TypeOK /\ PipelineInv /\ [Next]_vars => CommitInv'
<1> SUFFICES ASSUME TypeOK, PipelineInv, [Next]_vars, NEW u \in Workers, At(u, "commit")'
             PROVE  /\ Run(u)'.state = "verifying" /\ Run(u)'.owner = u
                    /\ Run(u)'.required \subseteq Run(u)'.completed
  BY DEF CommitInv
<1> USE DEF PipelineInv
<1>0. wk'[u].phase = "commit"
  BY DEF At
<1>1. ASSUME At(u, "commit") PROVE Executing(u) /\ Fenced(u) /\ Gen(u) \in Gens
  <2>1. wk[u].phase = "commit" /\ Run(u).state = "verifying" /\ Run(u).owner = u
    BY <1>1 DEF At, CommitInv
  <2>2. QED
    BY <2>1 DEF GenKnown, Executing, Fenced, Known, Run, Gen
<1>2. CASE UNCHANGED vars
  BY <1>2, <1>0 DEF vars, CommitInv, At, Run, Gen
<1>3. ASSUME Step(u) \/ Fault(u) \/ Crash(u)
      PROVE  /\ Run(u)'.state = "verifying" /\ Run(u)'.owner = u
             /\ Run(u)'.required \subseteq Run(u)'.completed
  <2>1. Check(u) /\ Goto(u, "commit")
    BY <1>0, <1>3, ActorMoves
  <2>2. ~Raise(u, FALSE) /\ ~Raise(u, TRUE) /\ ~Finish(u)
    BY <1>0, RaisePhase, FinishPhase
  <2>3. /\ Fenced(u) /\ Forward(Run(u).state, Target(u))
        /\ Run(u).required \subseteq Run(u).completed /\ UNCHANGED runs
    BY <2>1, <2>2 DEF Check
  <2>4. Run(u).state \in RunStates
    BY <2>1 DEF Check, At, GenKnown, TypeOK, Run, Gen, RunRows
  <2>5. Run(u).state = "verifying"
    BY <2>3, <2>4, ForwardFacts DEF Target, RunStates, Ready
  <2>6. wk'[u].gen = wk[u].gen
    BY <2>1, GotoPhase
  <2>7. QED
    BY <2>3, <2>5, <2>6 DEF Fenced, Run, Gen
<1>4. ASSUME NEW w \in Workers, w # u, Step(w) \/ Fault(w) \/ Heartbeat(w) \/ Crash(w)
      PROVE  /\ Run(u)'.state = "verifying" /\ Run(u)'.owner = u
             /\ Run(u)'.required \subseteq Run(u)'.completed
  <2>1. At(u, "commit") /\ wk'[u].gen = wk[u].gen
    BY <1>0, <1>4, OthersStay DEF At
  <2>2. QED
    BY <1>1, <1>4, <2>1, Neighbour, VerifiedStays
<1>5. CASE Heartbeat(u)
  BY <1>0, <1>5 DEF Heartbeat, At
<1>6. CASE Reindex \/ \E g \in Gens : Tick(g)
  <2>1. At(u, "commit") /\ wk'[u].gen = wk[u].gen
    BY <1>0, <1>6 DEF Reindex, Tick, At
  <2>2. QED
    BY <1>1, <1>6, <2>1, OutsideKeeps, VerifiedStays
<1>7. CASE Publish
  <2>1. At(u, "commit") /\ wk'[u].gen = wk[u].gen
    BY <1>0, <1>7 DEF Publish, At
  <2>2. Gen(u) # 1
    BY <1>7, <2>1 DEF Publish, Locked
  <2>3. Kept(u)
    BY <1>1, <1>7, <2>1, <2>2 DEF Publish, TypeOK, Kept, Run
  <2>4. QED
    BY <2>1, <2>3, VerifiedStays
<1>8. CASE Refuse \/ EncryptionFails
  <2>1. At(u, "commit")
    BY <1>0, <1>8 DEF Refuse, EncryptionFails, At
  <2>2. QED
    BY <1>1, <1>8, <2>1 DEF Refuse, EncryptionFails, Locked
<1>9. QED
  BY <1>2, <1>3, <1>4, <1>5, <1>6, <1>7, <1>8 DEF Next

(* Every step keeps the invariant.                                         *)
LEMMA InvStep == TypeOK /\ PipelineInv /\ [Next]_vars => PipelineInv'
<1> SUFFICES ASSUME TypeOK, PipelineInv, [Next]_vars PROVE PipelineInv'
  OBVIOUS
<1>1. GenKnown'
  BY GenStep DEF PipelineInv
<1>2. CommitInv'
  BY CommitStep
<1>3. GoodRuns' /\ PointerInv' /\ StatusInv'
  <2>1. CASE UNCHANGED vars
    BY <2>1 DEF vars, PipelineInv, GoodRuns, GoodRow, PointerInv, StatusInv,
                Overtaken
  <2>2. ASSUME NEW w \in Workers, Step(w) \/ Fault(w) \/ Heartbeat(w) \/ Crash(w)
        PROVE  GoodRuns' /\ PointerInv' /\ StatusInv'
    <3>1. CASE Commit(w)
      BY <3>1, CommitPublishes DEF PipelineInv
    <3>2. CASE ~Commit(w)
      BY <2>2, <3>2, WorkerQuiet, QuietStep DEF PipelineInv
    <3>3. QED
      BY <3>1, <3>2
  <2>3. CASE Reindex \/ \E g \in Gens : Tick(g)
    BY <2>3, OutsideQuiet, QuietStep DEF PipelineInv
  <2>4. CASE Publish \/ Refuse \/ EncryptionFails
    BY <2>4, RequestKeeps DEF PipelineInv
  <2>5. QED
    BY <2>1, <2>2, <2>3, <2>4 DEF Next
<1>4. QED
  BY <1>1, <1>2, <1>3 DEF PipelineInv

(* The invariant holds throughout.                                         *)
THEOREM PipelineInvariant == Spec => [](TypeOK /\ PipelineInv)
<1>1. Init => TypeOK /\ PipelineInv
  BY TypeInit, InvInit
<1>2. TypeOK /\ PipelineInv /\ [Next]_vars => (TypeOK /\ PipelineInv)'
  BY TypeStep, InvStep DEF PipelineInv
<1>3. QED
  BY <1>1, <1>2, PTL DEF Spec

-----------------------------------------------------------------------------
(* Publication.                                                            *)

(* However many generations and workers race, the active generation is the *)
(* only one that is ready.                                                 *)
THEOREM OneReady == Spec => []OneReadyGeneration
<1>1. TypeOK /\ PipelineInv => OneReadyGeneration
  <2> SUFFICES ASSUME TypeOK, PipelineInv PROVE OneReadyGeneration
    OBVIOUS
  <2>1. rec.active # 0 => rec.active \in Gens
    BY PipelineConstants DEF TypeOK, Recordings, Gens
  <2>2. 0 \notin Gens
    BY DEF Gens
  <2>3. QED
    BY <2>1, <2>2 DEF PipelineInv, PointerInv, OneReadyGeneration
<1>2. QED
  BY <1>1, PipelineInvariant, PTL

(* A recording is indexed exactly when its active generation is ready with *)
(* all that it requires, but for an overtaken registration.                *)
THEOREM PublicationPredicate == Spec => []IndexedIsPublished
<1>1. TypeOK /\ PipelineInv => IndexedIsPublished
  <2> SUFFICES ASSUME TypeOK, PipelineInv, rec.exists PROVE
        LET published == /\ rec.active # 0
                         /\ runs[rec.active].state = "ready"
                         /\ runs[rec.active].required \subseteq
                              runs[rec.active].completed \cap runs[rec.active].acked
        IN /\ rec.status = "indexed" => published
           /\ published => rec.status = "indexed" \/ Overtaken
    BY DEF IndexedIsPublished
  <2>1. rec.active # 0 => rec.active \in Gens
    BY PipelineConstants DEF TypeOK, Recordings, Gens
  <2>2. rec.active # 0 => GoodRow(runs[rec.active])
    BY <2>1 DEF PipelineInv, GoodRuns
  <2>3. QED
    BY <2>2 DEF PipelineInv, StatusInv, GoodRow
<1>2. QED
  BY <1>1, PipelineInvariant, PTL

(* No worker, clock or request for a new generation hides an active one.   *)
THEOREM NeverHidden == Spec => ReadyIsNeverHidden
<1>1. TypeOK /\ PipelineInv /\ [Next]_vars =>
        [rec.active # 0 /\ ingest' = ingest
           => rec'.active # 0 /\ rec'.status \in {"indexed", "ready_no_speech"}]_rec
  <2> SUFFICES ASSUME TypeOK, PipelineInv, [Next]_vars, rec' # rec,
                      rec.active # 0, ingest' = ingest
               PROVE  rec'.active # 0 /\ rec'.status \in {"indexed", "ready_no_speech"}
    OBVIOUS
  <2>1. ASSUME NEW w \in Workers, Commit(w)
        PROVE  rec'.active # 0 /\ rec'.status \in {"indexed", "ready_no_speech"}
    <3>1. Gen(w) # 0
      BY <2>1 DEF Commit, At, PipelineInv, GenKnown, Gen, Gens
    <3>2. QED
      BY <2>1, <3>1 DEF Commit, TypeOK, Recordings
  <2>2. ~Quiet
    BY DEF Quiet, Follow
  <2>3. QED
    BY <2>1, <2>2, WorkerQuiet, OutsideQuiet
       DEF PipelineInv, Next, vars, Publish, Refuse, EncryptionFails
<1>2. QED
  BY <1>1, PipelineInvariant, PTL DEF Spec, ReadyIsNeverHidden

-----------------------------------------------------------------------------
(* The fence.                                                              *)

(* A run in the hands of a live attempt changes by its own steps, by being *)
(* claimed, or by the registration request, and in no other way.           *)
THEOREM LiveAttempt == Spec => LiveAttemptIsUndisturbed
<1>1. TypeOK /\ PipelineInv /\ [Next]_vars =>
        [\A w \in Workers :
           Executing(w) /\ Fenced(w) /\ wk'[w] = wk[w] /\ ingest' = ingest =>
             LET old == Run(w)
                 new == runs'[Gen(w)]
             IN \/ new.state = old.state /\ new.completed = old.completed /\ new.owner = w
                \/ new.state = "claimed" /\ new.owner # w]_vars
  <2> SUFFICES ASSUME TypeOK, PipelineInv, Next, NEW u \in Workers,
                      Executing(u), Fenced(u), wk'[u] = wk[u], ingest' = ingest
               PROVE  Kept(u) \/ Taken(u)
    BY DEF Kept, Taken, Fenced
  <2>1. ASSUME NEW w \in Workers, w # u, Step(w) \/ Fault(w) \/ Heartbeat(w) \/ Crash(w)
        PROVE  Kept(u) \/ Taken(u)
    BY <2>1, Neighbour DEF PipelineInv
  <2>2. ~(Step(u) \/ Fault(u) \/ Crash(u))
    BY ActorMoves
  <2>3. CASE Heartbeat(u)
    BY <2>3 DEF Heartbeat, Write, PipelineInv, GenKnown, Executing, TypeOK, RunRows, Kept, Run,
                Gen
  <2>4. CASE Reindex \/ \E g \in Gens : Tick(g)
    BY <2>4, OutsideKeeps DEF PipelineInv
  <2>5. QED
    BY <2>1, <2>2, <2>3, <2>4 DEF Next, Publish, Refuse, EncryptionFails
<1>2. QED
  BY <1>1, PipelineInvariant, PTL DEF Spec, LiveAttemptIsUndisturbed

=============================================================================
