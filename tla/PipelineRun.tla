----------------------------- MODULE PipelineRun ------------------------------
(***************************************************************************)
(* The indexing generations of one recording: its rows of                  *)
(* recording_pipeline_runs with their leases, the workers that claim them  *)
(* (scheduler.py) and process them (services/indexing.py,                  *)
(* core/chunker.py), the pointer to the generation that readers see, and   *)
(* the requests that register the recording and queue new generations      *)
(* (services/ingestion.py).                                                *)
(*                                                                         *)
(* A worker is fenced by (lease_owner, attempt_count).  It processes one   *)
(* run at a time and a new process has a new owner name, so comparing the  *)
(* owner is enough and attempts are not counted.  A lease that is NULL and *)
(* one that has expired are claimable alike: both are ttl = 0.             *)
(***************************************************************************)
EXTENDS Integers, FiniteSets

CONSTANTS
  Workers,       \* worker processes
  NoOwner,       \* lease_owner IS NULL, or not a worker's name
  Concurrency,   \* runs each worker claims at a poll
  LeaseTTL,      \* clock ticks a lease lasts
  Origins,       \* how the recording may have been registered
  Fickle,        \* may detection find speech in one attempt and not in another
  Broken,        \* generations that no attempt can process
  MaxGen,        \* bound of the model: generations
  MaxTroubles    \* bound of the model: failures, stalls and crashes

ASSUME PipelineConstants ==
  /\ NoOwner \notin Workers
  /\ Concurrency \in [Workers -> Nat \ {0}] /\ LeaseTTL \in Nat \ {0}
  /\ Origins \subseteq {"plain", "encrypted", "legacy"} /\ Fickle \in BOOLEAN
  /\ MaxGen \in Nat \ {0} /\ MaxTroubles \in Nat /\ Broken \subseteq 1..MaxGen

VARIABLES
  runs,      \* the run of each generation, with its projection outbox
  rec,       \* the recording's row
  staged,    \* each generation's chunk rows and their vectors
  wk,        \* each worker's local state, lost in a crash
  ingest,    \* the registration request
  audio,     \* what is on the recording
  troubles   \* failures, stalls and crashes so far

vars == <<runs, rec, staged, wk, ingest, audio, troubles>>

Gens == 1..MaxGen
Projections == {"file_index", "vector", "graph"}
InProgress == {"claimed", "vad", "asr", "segments", "chunks", "projections", "verifying"}
Ready == {"ready", "ready_no_speech"}
RunStates == {"none", "queued", "partial", "failed_retryable", "superseded"}
               \cup InProgress \cup Ready
Phases == {"poll", "claim", "resolve", "vad", "asr", "persist", "require", "segments",
           "chunks", "outboxes", "file_index", "projections", "load", "embed", "vector",
           "graph", "verifying", "activate", "commit", "fail"}
Sounds == {"speech", "silence"}

RunRows == [state : RunStates, owner : Workers \cup {NoOwner}, ttl : 0..LeaseTTL,
            required : SUBSET Projections, completed : SUBSET Projections,
            outbox : SUBSET Projections, acked : SUBSET Projections]
Recordings == [exists : BOOLEAN, status : {"queued", "processing", "failed", "indexed",
               "ready_no_speech"}, active : 0..MaxGen]
WorkerStates == [phase : Phases, batch : SUBSET Gens, gen : 0..MaxGen, heard : Sounds,
                 seen : BOOLEAN, incomplete : BOOLEAN]

TypeOK ==
  /\ runs \in [Gens -> RunRows]
  /\ rec \in Recordings
  /\ staged \in [Gens -> [chunks : BOOLEAN, vectors : BOOLEAN]]
  /\ wk \in [Workers -> WorkerStates]
  /\ ingest \in {"none", "encrypting", "published", "refused", "failed"}
  /\ audio \in Sounds
  /\ troubles \in 0..MaxTroubles

Row(state) == [state |-> state, owner |-> NoOwner, ttl |-> 0, required |-> Projections,
               completed |-> {}, outbox |-> {}, acked |-> {}]
NothingStaged == [chunks |-> FALSE, vectors |-> FALSE]
Poll == [phase |-> "poll", batch |-> {}, gen |-> 0, heard |-> "speech", seen |-> FALSE,
         incomplete |-> FALSE]

(* register_recording: with encryption the run is reserved as claimed,     *)
(* without a lease; a legacy recording is queued and has no run.           *)
Init ==
  /\ \E origin \in Origins :
       /\ runs = [g \in Gens |->
                    Row(IF g > 1 \/ origin = "legacy" THEN "none"
                        ELSE IF origin = "encrypted" THEN "claimed" ELSE "queued")]
       /\ rec = [exists |-> TRUE, active |-> 0,
                 status |-> IF origin = "encrypted" THEN "processing" ELSE "queued"]
       /\ ingest = IF origin = "encrypted" THEN "encrypting" ELSE "none"
  /\ staged = [g \in Gens |-> NothingStaged]
  /\ wk = [w \in Workers |-> Poll]
  /\ audio \in Sounds
  /\ troubles = 0

-----------------------------------------------------------------------------
Known(g) == runs[g].state # "none"
Latest(g) == Known(g) /\ \A h \in Gens : Known(h) => h <= g

(* pipeline_run_transition_allowed                                         *)
Forward(from, to) ==
  \/ from = to /\ to = "claimed"
  \/ to = "claimed" /\ from \in InProgress \cup {"queued", "failed_retryable"}
  \/ <<from, to>> \in {<<"claimed", "vad">>, <<"vad", "asr">>, <<"asr", "segments">>,
                       <<"asr", "verifying">>, <<"segments", "chunks">>,
                       <<"chunks", "projections">>, <<"projections", "verifying">>,
                       <<"verifying", "ready">>, <<"verifying", "ready_no_speech">>}
  \/ to \in {"partial", "failed_retryable"} /\ from \in RunStates \
       (Ready \cup {"none", "partial", "superseded", to})

At(w, phase) == wk[w].phase = phase
Gen(w) == wk[w].gen
Run(w) == runs[Gen(w)]            \* the run w works on
Write(w, row) == runs' = [runs EXCEPT ![Gen(w)] = row]
Goto(w, phase) == wk' = [wk EXCEPT ![w].phase = phase]

(* The activation of a run holds the lock of its row.                      *)
Locked(g) == \E w \in Workers : At(w, "commit") /\ Gen(w) = g

(* Mutant: anybody who works on the run may write it.                      *)
FencedByAll(w) == Known(Gen(w))

(* _require_lease_fence, of a row that still exists.                       *)
Fenced(w) == Known(Gen(w)) /\ Run(w).owner = w

(* An exception leaves the stages of run_pipeline.                         *)
Raise(w, incomplete) ==
  wk' = [wk EXCEPT ![w] = [Poll EXCEPT !.phase = "fail", !.gen = wk[w].gen,
                                       !.batch = wk[w].batch, !.incomplete = incomplete]]

(* The worker turns to the first run of its batch, or polls again.         *)
Take(w, batch) ==
  \/ /\ batch = {}
     /\ wk' = [wk EXCEPT ![w] = Poll]
  \/ \E g \in batch :
       /\ \A h \in batch : g <= h
       /\ wk' = [wk EXCEPT ![w] = [Poll EXCEPT !.phase = "resolve", !.gen = g,
                                              !.batch = batch \ {g}]]
Finish(w) == Take(w, wk[w].batch)

Released(row, state) == [row EXCEPT !.state = state, !.owner = NoOwner, !.ttl = 0]

(* The recording follows its runs until one of them is active.             *)
Follow(status) == IF rec.active = 0 THEN [rec EXCEPT !.status = status] ELSE rec

-----------------------------------------------------------------------------
(* PipelineWorker.poll_once.                                               *)

Runnable == {"queued", "failed_retryable"} \cup InProgress

(* _ensure_legacy_queued_runs, as long as MaxGen allows it.                *)
EnsureLegacy(w) ==
  /\ At(w, "poll")
  /\ Goto(w, "claim")
  /\ IF /\ rec.exists /\ rec.status = "queued" /\ ~Known(MaxGen)
        /\ ~\E g \in Gens : runs[g].state \in Runnable
       THEN \E g \in Gens : /\ ~Known(g) /\ (\A h \in 1..(g - 1) : Known(h))
                            /\ runs' = [runs EXCEPT ![g] = Row("queued")]
       ELSE UNCHANGED runs
  /\ UNCHANGED <<rec, staged, ingest, audio, troubles>>

(* Mutant: only waiting runs are claimed.                                  *)
ClaimableWaiting(g) == runs[g].state \in {"queued", "failed_retryable"}

Claimable(g) ==
  \/ runs[g].state = "queued"
  \/ runs[g].state \in Runnable /\ runs[g].ttl = 0

(* The oldest claimable runs, as many as a worker takes.                   *)
Candidates(w) ==
  {g \in Gens : /\ Claimable(g)
                /\ Cardinality({h \in 1..(g - 1) : Claimable(h)}) < Concurrency[w]}

(* _claim_runs                                                             *)
Claim(w) ==
  /\ At(w, "claim")
  /\ \A g \in Candidates(w) : ~Locked(g)
  /\ runs' = [g \in Gens |->
                IF g \in Candidates(w)
                  THEN [runs[g] EXCEPT !.state = "claimed", !.owner = w, !.ttl = LeaseTTL]
                  ELSE runs[g]]
  /\ Take(w, Candidates(w))
  /\ UNCHANGED <<rec, staged, ingest, audio, troubles>>

(* _resolve_run: only a live claim that has not started yet is respected.  *)
Refused(w, g) ==
  \/ ~rec.exists
  \/ runs[g].state = "claimed" /\ runs[g].owner \notin {NoOwner, w} /\ runs[g].ttl > 0
  \/ ~Forward(runs[g].state, "claimed")

Resolve(w) ==
  /\ At(w, "resolve")
  /\ ~Locked(Gen(w))
  /\ IF Refused(w, Gen(w))
       THEN Finish(w) /\ UNCHANGED <<runs, rec>>
       ELSE /\ Write(w, [Run(w) EXCEPT !.state = "claimed", !.owner = w, !.ttl = LeaseTTL])
            /\ rec' = Follow("processing")
            /\ Goto(w, "vad")
  /\ UNCHANGED <<staged, ingest, audio, troubles>>

-----------------------------------------------------------------------------
(* IndexingService.run_pipeline, stage by stage.                           *)

AfterTransition(w, state) ==
  CASE state = "vad" -> "asr"          [] state = "asr" -> "persist"
    [] state = "segments" -> "chunks"  [] state = "chunks" -> "outboxes"
    [] state = "projections" -> "load" [] state = "verifying" -> "activate"

(* _transition_run, at each of its calls.                                  *)
Transition(w) ==
  /\ wk[w].phase \in {"vad", "asr", "segments", "chunks", "projections", "verifying"}
  /\ IF Fenced(w) /\ Forward(Run(w).state, wk[w].phase)
       THEN /\ Write(w, [Run(w) EXCEPT !.state = wk[w].phase])
            /\ rec' = Follow("processing")
            /\ Goto(w, AfterTransition(w, wk[w].phase))
       ELSE Raise(w, FALSE) /\ UNCHANGED <<runs, rec>>
  /\ UNCHANGED <<staged, ingest, audio, troubles>>

(* Chunker.process_recording: detect, transcribe, and replace the rows of  *)
(* the generation.  The lease is not looked at; whoever read the replaced  *)
(* rows holds stale ones.                                                  *)
Persist(w) ==
  /\ At(w, "persist")
  /\ IF Gen(w) \in Broken \/ ~Known(Gen(w)) THEN Raise(w, FALSE) /\ UNCHANGED staged
     ELSE \E heard \in Sounds :
            /\ heard = audio \/ Fickle
            /\ staged' = [staged EXCEPT ![Gen(w)] =
                            [chunks |-> heard = "speech", vectors |-> FALSE]]
            /\ wk' = [v \in Workers |->
                        IF v = w
                          THEN [wk[w] EXCEPT !.heard = heard,
                                  !.phase = IF heard = "speech" THEN "segments" ELSE "require"]
                        ELSE IF Gen(v) = Gen(w) THEN [wk[v] EXCEPT !.seen = FALSE] ELSE wk[v]]
  /\ UNCHANGED <<runs, rec, ingest, audio, troubles>>

(* Speech without a transcript: the rows are replaced by none, and the run *)
(* is incomplete.                                                          *)
PersistNothing(w) ==
  /\ At(w, "persist")
  /\ audio = "speech" /\ Known(Gen(w))
  /\ troubles < MaxTroubles
  /\ troubles' = troubles + 1
  /\ staged' = [staged EXCEPT ![Gen(w)] = NothingStaged]
  /\ wk' = [v \in Workers |->
              IF v = w THEN [wk[w] EXCEPT !.phase = "fail", !.incomplete = TRUE]
              ELSE IF Gen(v) = Gen(w) THEN [wk[v] EXCEPT !.seen = FALSE] ELSE wk[v]]
  /\ UNCHANGED <<runs, rec, ingest, audio>>

(* _set_required_projections, for a recording without speech.              *)
Require(w) ==
  /\ At(w, "require")
  /\ IF Fenced(w)
       THEN /\ Write(w, [Run(w) EXCEPT !.required = {"file_index"},
                                       !.completed = @ \cap {"file_index"}])
            /\ Goto(w, "outboxes")
       ELSE Raise(w, FALSE) /\ UNCHANGED runs
  /\ UNCHANGED <<rec, staged, ingest, audio, troubles>>

(* _ensure_projection_outboxes                                             *)
Outboxes(w) ==
  /\ At(w, "outboxes")
  /\ IF Fenced(w)
       THEN /\ Write(w, [Run(w) EXCEPT !.outbox = @ \cup Run(w).required])
            /\ Goto(w, "file_index")
       ELSE Raise(w, FALSE) /\ UNCHANGED runs
  /\ UNCHANGED <<rec, staged, ingest, audio, troubles>>

AfterProjection(w, projection) ==
  CASE projection = "file_index" -> IF wk[w].heard = "speech" THEN "projections" ELSE "verifying"
    [] projection = "vector" -> "graph"
    [] projection = "graph" -> "verifying"

(* _complete_projection, at each of its calls.                             *)
Complete(w) ==
  /\ wk[w].phase \in Projections
  /\ IF Fenced(w) /\ wk[w].phase \in Run(w).required \cap Run(w).outbox
       THEN /\ Write(w, [Run(w) EXCEPT !.completed = @ \cup {wk[w].phase},
                                       !.acked = @ \cup {wk[w].phase}])
            /\ Goto(w, AfterProjection(w, wk[w].phase))
       ELSE Raise(w, FALSE) /\ UNCHANGED runs
  /\ UNCHANGED <<rec, staged, ingest, audio, troubles>>

(* _stage_extract loads the chunks of the run, if there are any, ...       *)
Load(w) ==
  /\ At(w, "load")
  /\ wk' = [wk EXCEPT ![w].phase = IF staged[Gen(w)].chunks THEN "embed" ELSE "vector",
                      ![w].seen = staged[Gen(w)].chunks]
  /\ UNCHANGED <<runs, rec, staged, ingest, audio, troubles>>

(* ... and stores their vectors, unless the chunks are gone by then.       *)
Embed(w) ==
  /\ At(w, "embed")
  /\ IF wk[w].seen /\ Known(Gen(w))
       THEN /\ staged' = [staged EXCEPT ![Gen(w)].vectors = TRUE]
            /\ wk' = [wk EXCEPT ![w].phase = "vector", ![w].seen = FALSE]
       ELSE Raise(w, TRUE) /\ UNCHANGED staged
  /\ UNCHANGED <<runs, rec, ingest, audio, troubles>>

(* A provider fails; or, before their projection is recorded as complete,  *)
(* the flush of the file index or the merge into the graph store does.     *)
Fault(w) ==
  /\ wk[w].phase \in {"persist", "file_index", "embed", "graph"}
  /\ troubles < MaxTroubles
  /\ troubles' = troubles + 1
  /\ Raise(w, At(w, "embed"))
  /\ UNCHANGED <<runs, rec, staged, ingest, audio>>

-----------------------------------------------------------------------------
(* _activate_run: one transaction, which locks the run, reads the latest   *)
(* generation without a lock, and then locks the recording.                *)

Target(w) == IF wk[w].heard = "speech" THEN "ready" ELSE "ready_no_speech"

Check(w) ==
  /\ At(w, "activate")
  /\ IF ~(Fenced(w) /\ Forward(Run(w).state, Target(w)))
       THEN Raise(w, FALSE) /\ UNCHANGED runs
     ELSE IF ~(Run(w).required \subseteq Run(w).completed /\ Run(w).outbox \subseteq Run(w).acked)
       THEN Raise(w, TRUE) /\ UNCHANGED runs
     ELSE IF Latest(Gen(w))
       THEN Goto(w, "commit") /\ UNCHANGED runs
     ELSE /\ Write(w, Released(Run(w), "superseded"))
          /\ Finish(w)
  /\ UNCHANGED <<rec, staged, ingest, audio, troubles>>

(* Mutant: the generation that was active stays as it is.                  *)
CommitBeside(w) ==
  /\ At(w, "commit")
  /\ runs' = [g \in Gens |-> IF g = Gen(w) THEN Released(runs[g], Target(w)) ELSE runs[g]]
  /\ rec' = [rec EXCEPT !.active = Gen(w),
                        !.status = IF wk[w].heard = "speech" THEN "indexed"
                                                             ELSE "ready_no_speech"]
  /\ Finish(w)
  /\ UNCHANGED <<staged, ingest, audio, troubles>>

(* The source fingerprint compared here is written with the recording, and *)
(* every run copies it: the comparison cannot fail, and is left out.       *)
Commit(w) ==
  /\ At(w, "commit")
  /\ runs' = [g \in Gens |->
                IF g = Gen(w) THEN Released(runs[g], Target(w))
                ELSE IF g = rec.active THEN [runs[g] EXCEPT !.state = "superseded"]
                ELSE runs[g]]
  /\ rec' = [rec EXCEPT !.active = Gen(w),
                        !.status = IF wk[w].heard = "speech" THEN "indexed"
                                                             ELSE "ready_no_speech"]
  /\ Finish(w)
  /\ UNCHANGED <<staged, ingest, audio, troubles>>

(* Mutant: the recording is marked failed whether or not one is active.    *)
FailHiding(w) ==
  /\ At(w, "fail")
  /\ LET target == IF wk[w].incomplete THEN "partial" ELSE "failed_retryable"
     IN IF Fenced(w) /\ Forward(Run(w).state, target)
          THEN /\ Write(w, Released(Run(w), target))
               /\ rec' = [rec EXCEPT !.status = "failed"]
          ELSE UNCHANGED <<runs, rec>>
  /\ Finish(w)
  /\ UNCHANGED <<staged, ingest, audio, troubles>>

(* _fail_run; a worker that lost its lease leaves everything alone.        *)
Fail(w) ==
  /\ At(w, "fail")
  /\ LET target == IF wk[w].incomplete THEN "partial" ELSE "failed_retryable"
     IN IF Fenced(w) /\ Forward(Run(w).state, target)
          THEN /\ Write(w, Released(Run(w), target))
               /\ rec' = Follow("failed")
          ELSE UNCHANGED <<runs, rec>>
  /\ Finish(w)
  /\ UNCHANGED <<staged, ingest, audio, troubles>>

-----------------------------------------------------------------------------
(* Leases, crashes, and the requests of users.                             *)

Executing(w) == wk[w].phase \notin {"poll", "claim", "resolve"}

(* _heartbeat_lease: the run in hand only, not the rest of the batch.      *)
Heartbeat(w) ==
  /\ Executing(w) /\ ~At(w, "commit")
  /\ Fenced(w)
  /\ Run(w).state \in InProgress
  /\ Write(w, [Run(w) EXCEPT !.ttl = LeaseTTL])
  /\ UNCHANGED <<rec, staged, wk, ingest, audio, troubles>>

(* A lease in use runs out only if its worker stalls.                      *)
InUse(g) == \E w \in Workers : wk[w].phase \notin {"poll", "claim"} /\ Gen(w) = g /\ Fenced(w)

(* Mutant: the countdown runs past zero.                                   *)
TickPastZero(g) ==
  /\ runs[g].state \in InProgress
  /\ runs' = [runs EXCEPT ![g] = [runs[g] EXCEPT !.ttl = @ - 1]]
  /\ UNCHANGED <<rec, staged, wk, ingest, audio, troubles>>

Tick(g) ==
  /\ runs[g].ttl > 0
  /\ IF InUse(g) /\ runs[g].ttl = 1 THEN troubles < MaxTroubles /\ troubles' = troubles + 1
                                    ELSE UNCHANGED troubles
  /\ runs' = [runs EXCEPT ![g] = [runs[g] EXCEPT !.ttl = @ - 1]]
  /\ UNCHANGED <<rec, staged, wk, ingest, audio>>

Crash(w) ==
  /\ ~At(w, "poll")
  /\ troubles < MaxTroubles
  /\ troubles' = troubles + 1
  /\ wk' = [wk EXCEPT ![w] = Poll]
  /\ UNCHANGED <<runs, rec, staged, ingest, audio>>

(* queue_reindex appends a generation; the active one stays visible.       *)
Reindex ==
  /\ rec.exists
  /\ \E g \in Gens : /\ ~Known(g) /\ (\A h \in 1..(g - 1) : Known(h))
                     /\ runs' = [runs EXCEPT ![g] = Row("queued")]
  /\ rec' = Follow("queued")
  /\ UNCHANGED <<staged, wk, ingest, audio, troubles>>

(* register_recording, when the source has been encrypted: the reservation *)
(* must still be claimed, by anybody.                                      *)
Publish ==
  /\ ingest = "encrypting"
  /\ runs[1].state = "claimed" /\ ~Locked(1)
  /\ runs' = [runs EXCEPT ![1] = Released(@, "queued")]
  /\ rec' = [rec EXCEPT !.status = "queued"]
  /\ ingest' = "published"
  /\ UNCHANGED <<staged, wk, audio, troubles>>

(* The recording and all its runs are deleted again.                       *)
Undone ==
  /\ rec' = [rec EXCEPT !.exists = FALSE, !.active = 0]
  /\ runs' = [g \in Gens |-> Row("none")]
  /\ staged' = [g \in Gens |-> NothingStaged]

Refuse ==
  /\ ingest = "encrypting"
  /\ runs[1].state # "claimed" /\ \A g \in Gens : ~Locked(g)
  /\ Undone
  /\ ingest' = "refused"
  /\ UNCHANGED <<wk, audio, troubles>>

EncryptionFails ==
  /\ ingest = "encrypting"
  /\ \A g \in Gens : ~Locked(g)
  /\ troubles < MaxTroubles
  /\ troubles' = troubles + 1
  /\ Undone
  /\ ingest' = "failed"
  /\ UNCHANGED <<wk, audio>>

-----------------------------------------------------------------------------
(* The steps a worker process takes by itself.                             *)
Step(w) ==
  \/ EnsureLegacy(w) \/ Claim(w) \/ Resolve(w) \/ Transition(w) \/ Persist(w)
  \/ PersistNothing(w) \/ Require(w) \/ Outboxes(w) \/ Complete(w)
  \/ Load(w) \/ Embed(w) \/ Check(w) \/ Commit(w) \/ Fail(w)

Next ==
  \/ \E w \in Workers : Step(w) \/ Fault(w) \/ Heartbeat(w) \/ Crash(w)
  \/ \E g \in Gens : Tick(g)
  \/ Reindex \/ Publish \/ Refuse \/ EncryptionFails

Spec == Init /\ [][Next]_vars

(* Workers poll for ever and the providers' timeouts end every call; the   *)
(* clock runs.  Users, failures and crashes owe nothing.                   *)
FairSpec ==
  /\ Spec
  /\ \A w \in Workers : WF_vars(Step(w))
  /\ \A g \in Gens : WF_vars(Tick(g))

-----------------------------------------------------------------------------
(* A reservation published when a later generation is already active puts *)
(* the recording back to queued.                                           *)
Overtaken == ingest = "published" /\ rec.status = "queued"

(* The publication predicate of the documents: a recording is indexed      *)
(* exactly when its active generation is ready and every projection it     *)
(* requires is complete and acknowledged.                                  *)
IndexedIsPublished ==
  rec.exists =>
    LET published == /\ rec.active # 0
                     /\ runs[rec.active].state = "ready"
                     /\ runs[rec.active].required \subseteq
                          runs[rec.active].completed \cap runs[rec.active].acked
    IN /\ rec.status = "indexed" => published
       /\ published => rec.status = "indexed" \/ Overtaken

(* However many generations and workers race, the generation readers are   *)
(* pointed to is the only one that is ready.                               *)
OneReadyGeneration ==
  {g \in Gens : runs[g].state \in Ready} = IF rec.active = 0 THEN {} ELSE {rec.active}

(* Queueing, failing or losing later generations never hides a ready one.  *)
(* (The registration request may: see Overtaken and RegistrationIsKept.)   *)
ReadyIsNeverHidden ==
  [][rec.active # 0 /\ ingest' = ingest
       => rec'.active # 0 /\ rec'.status \in {"indexed", "ready_no_speech"}]_rec

(* The run of a live attempt is moved by nobody but its holder, except to  *)
(* be claimed by another worker or published by the registration request.  *)
LiveAttemptIsUndisturbed ==
  [][\A w \in Workers :
       Executing(w) /\ Fenced(w) /\ wk'[w] = wk[w] /\ ingest' = ingest =>
         LET old == Run(w)
             new == runs'[Gen(w)]
         IN \/ new.state = old.state /\ new.completed = old.completed /\ new.owner = w
            \/ new.state = "claimed" /\ new.owner # w]_vars

(* No crash, stall or lost lease shelves a run for ever.                   *)
Settled(g) == runs[g].state \in Ready \cup {"none", "partial", "superseded"}
RunsSettle == \A g \in Gens : <>[](Settled(g))

(* The chunk rows of an indexed recording are all searchable.              *)
ActiveIsSearchable ==
  rec.status = "indexed" /\ rec.active # 0
    => staged[rec.active].chunks /\ staged[rec.active].vectors

(* A registration fails only if the encryption of its source fails.        *)
RegistrationIsKept == ingest # "refused"

(* A queued run is taken up, whatever happens to older ones.               *)
QueuedIsServed ==
  \A g \in Gens : runs[g].state = "queued" ~> runs[g].state # "queued"
=============================================================================
