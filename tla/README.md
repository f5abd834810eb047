# Formal models of audio_graphy

TLA+ models of the parts of audio_graphy where several processes, leases,
caches and crashes meet, checked with TLC and, where stated, proved with TLAPS.
Paths below are relative to `backend/audio_graphy/` unless they start with
`docs/` or `backend/`.

    tlc -workers 2 -config MCTagJob.cfg MCTagJob        # any run of the table below
    tlapm TagJobProofs.tla                              # the proofs

Contents: the system; the modules and how they correspond to the code; the
runs, their bounds and fairness; the proofs; what the code and its documents
disagree about; what is not modelled; the plan.

## 1. The system

Audio recordings are registered, detected for speech, transcribed, cut into
chunks, embedded, merged into a knowledge graph and tagged by language models.
One FastAPI process serves requests; pipeline workers (`scheduler.py`) and tag
workers (`tag_worker.py`) are processes of their own. Everything durable is in
MySQL; Redis is a hot cache; graph and file index are process-local structures
with file snapshots. Processes never send each other messages: they meet in
rows, each with a lease, a fencing value and a state.

| component | state it keeps | operations | hard behaviour | what makes it correct |
|---|---|---|---|---|
| **Tag jobs** `services/tag_governance.py`, `tag_worker.py` | row of `tag_extraction_jobs`: status, lease, revision, counters, failed subset, budget | enqueue, claim, reserve, settle, advance, publish, finish, defer, heartbeat, retry, cancel | takeovers, crashes between two transactions, hard budget, retries | budget covers the calls made; publication and completion tell the truth; bounded attempts; the job comes to rest |
| **LLM cache** `storage/llm_cache_store.py`, `services/llm_cache_coordinator.py`, `llm/gateway.py`, `storage/llm_hot_cache.py` | entry row with lease, references, source guards, purge queue; Redis value; per-process task | get, claim, publish, renew, release, erase by provenance, drain purges, cleanup | leader crash, late leader, erasure between two steps, Redis outage, single flight | erased sources leave nothing reachable; one payload at a time; nobody waits for ever |
| **Indexing pipeline** `services/indexing.py`, `scheduler.py`, `core/chunker.py`, `services/ingestion.py`, `models/pipeline.py` | `recording_pipeline_runs` (one row per generation), projection outbox, recording's status and active pointer, chunk rows and vectors | register, re-index, claim, stages, activate, fail, heartbeat | stolen leases, stale workers, generations that race, claims in batches, encrypted registration | indexed exactly when published; one ready generation; a ready one is never hidden; no run is shelved |
| **Erasure outbox** `services/erasure_outbox.py`, `core/retention.py`, `api/dsar.py` | `erasure_outbox` rows with leases; the cache, the audio, the graph and index files and a copy of both in every process | stage (one transaction), claim, clean the stores in order, mark; the daily sweep | 60 s lease without renewal, partial failure, saves of whole stale copies, pipelines still writing | what still names it is owed or was written late; intent before deletion; finished once, and in the end |
| **Reception pipeline** `services/reception_pipeline.py`, `services/receptions.py`, `services/reception_tagging.py`, `services/reception_erasure.py` | the reception's row and version, its timeline, units and tags; `reception_automation_runs`: stage, lease token | merge, segment, tag, checkpoint, ready; a user's merge; invalidation by an erasure | takeover inside a stage, merges in the middle of an automation, providers called outside a transaction | units and tags belong to the timeline there is; ready is earned |
| **Reception audio operations** `services/reception_audio_operations.py` | operation rows with leases, artifact rows, files | ask, claim, probe, slice, assemble, register, publish, cancel, reconcile, reclaim | crash between file and row, takeovers, a commit whose answer is lost | the merged audio plays; every file is accounted for; operations end; leftovers go |
| **Streaming** `api/ws_stream.py`, `core/stream_session.py`, `services/streaming_durability.py`, and the panel `LiveAudioCapturePanel.tsx` of the front end | unacknowledged frames in the panel, a row with a lease token per epoch, staged frames, durable segments | reserve, activate, replay, stage, acknowledge, pair, persist, drain, close; reconnect | abandoned handlers, resent frames, late sentences, a pool of permits | what is acknowledged is stored and what is consumed is spoken, once; a closed capture stays closed; the panel comes to an end |
| **FunASR pool** `adapters/real/streaming_funasr_pool.py` | permits, idle connections | acquire, release | failing connect, reused connections with unread answers | every permit comes back, but those a failing connect loses |
| **Deployments** `services/tag_governance.py` (12329-14384), `services/tag_deployment_monitor.py` | deployment state, routes, observations | create, transition, observe, roll back | late observations, rollback visibility | a rolled back candidate serves nobody |
| **Integration callbacks** `services/integration.py` | callback rows with leases | enqueue, claim batch, deliver | crash between claim and delivery | every event delivered at least once |
| **Facts and current view** `tags/` | append-only facts, derived view | append, recompute | invalidation while recomputing | the view is a function of the facts |
| **Graph storage** `storage/graph_*.py`, `core/delta_graph_updater.py`, `core/tenant_lock.py` | per-tenant graph, bi-temporal edges | merge, save, load | tenant lock, snapshot save | saved graph equals merged graph |
| Retrieval, rerank, query; speaker linking; communities; tag extraction, evaluation, optimizer; prompt lab; analytics; encryption; adapters; auth; API; front end | mostly none, or batch files | | numeric, I/O or presentation | outside what a model checker settles |

How they interact: ingestion and the pipeline share runs and recordings; the
pipeline, tag jobs and receptions call models through the gateway and its
cache; the erasure outbox calls the cache's provenance erasure and deletes
recordings, chunks and graph data under the pipeline's feet; tag jobs publish
into the current view; domain events feed the callbacks. `PROJECT.json` lists
every hazard met in the survey with its line and, where one exists, the
property that watches it.

## 2. The modules

| module | what it is |
|---|---|
| `JobLifecycle` | abstract: what a durable leased job promises |
| `TagJob` | one tag job row, its workers, users, crashes and the clock; implements `JobLifecycle` |
| `TagJobProofs` | theorems about `TagJob` |
| `LLMCache` | one cache identity: row, hot cache, requests, erasure |
| `LLMCacheProofs` | theorems about `LLMCache` |
| `PipelineRun` | the generations of one recording, its workers and its registration |
| `PipelineRunProofs` | theorems about `PipelineRun` |
| `ErasureOutbox` | the erasure of one recording from every store, the sweep, and an indexing attempt in its way |
| `ErasureOutboxProofs` | theorems about `ErasureOutbox` |
| `ReceptionAudio` | one reception: its state, merges by anybody, the guard of a merged file |
| `ReceptionPipeline` | extends it by the automation and its lease |
| `AudioOperation` | extends it by audio operations, their artifacts and reconcilers |
| `Reception` | the composition of both with users and erasure; specification and properties |
| `ReceptionProofs` | theorems about its types, units, tags and readiness |
| `ReceptionFilesProofs` | theorems about its files |
| `Transcript` | abstract: what a live capture promises to whoever speaks |
| `StreamSession` | the server's side of a live capture: handlers, epochs, frames, sentences, permits |
| `StreamCapture` | the composition with the panel and the connections; specification and properties; implements `Transcript` |
| `StreamCaptureProofs` | theorems about its types, permits, leases and staging |
| `StreamSpeechProofs` | theorems about its sentences, and that it implements `Transcript` |
| `MC*` | the instances the runs check |

An operator that a comment calls *Mutant* is a variant of a definition with one
plausible bug; no specification uses it. Each checked property has one that
breaks it.

### TagJob

`job` is the row, `wk[w]` what a worker keeps in memory (the stage of
`_execute_claimed`, the items left, the reservation in hand), `budget` the
job's limits. Each of the row's transactions is one action with the transaction's
WHERE clause as its guard: `Claim`/`ClaimExhausted` (`claim_next_job`),
`Reserve`/`ReserveExhausted`/`ReserveFails`, `Settle`/`SettleExhausted`,
`Advance`, `Publish`,
`Finish`/`FinishRefused`, `Defer`, `Heartbeat`, `UserRetry`, `UserCancel`. What
happens between two transactions is a step of its own: the scan of the next
item, the provider calls (`Process`), the second read of the row after an
exception (`Reread`). `TransactionFails` is a transaction that finds its lease
lost or that the database fails. `Crash` drops `wk[w]`.

Abstractions. A revision only grows and is only compared for equality, so the
model keeps the set `fresh` of workers that hold the current one. Of the three
counted budget dimensions one is modelled, provider calls; a wall-clock limit
makes the budget hard as well, reserves and charges nothing, and is the free
choice to find the budget spent. The job's extraction runs are not modelled:
the publication's check of them may refuse at any time. Time is the lease countdown `ttl`; the
back-off before a retry (`next_attempt_at`) is left out, since any wait is
allowed. `hist` is read by no action and records what really happened.

### LLMCache

`entry` is the row with its references, `erased` the guard rows, `purge` the
purge queue's row for this identity, `hot` the Redis value, `caller[c]` a
request from `LLMGateway._execute` to its end. A request looks in the hot cache
(`HotGet`), checks a hit that carries provenance against the row (`Validate`,
`DropHot`), reads the row (`Read`, `Fill`), and else becomes its process's task
(`Lead`; the task looks in the cache again) or joins one (`Join`). The task
claims (`ClaimBlocked`, `ClaimHit`, `ClaimFollow`, `ClaimInsert`; a row that is
over is read by `ClaimRead` and taken over by `Reclaim`), calls the provider beside a heartbeat (`Provide`, `Renew`), publishes in a lease-checked
transaction (`Publish`) and then writes the hot cache (`SetHot`), or gives the
row up (`Release`). Erasure is a transaction (`Erase`), the deletion in Redis
(`EraseHot`) and the acknowledgement (`EraseAck`); an interrupted one is
finished by `DrainHot` and `DrainAck`.

The read of a takeover locks no row: the UPDATE behind it asks again whether the
row is over, but writes the provenance flag that was read. Until it commits, the
guard rows of its own sources are locked (`LockedBy`). `sourced` is history.

Abstractions. Payloads are numbered in publication order. The other
transactions of the store are one step each. The process-local cache behind Redis is left out, so a read
during an outage goes to the row. Semantic lookup, recipe versions and the
per-request memo are left out.

### PipelineRun

`runs[g]` is the run of generation g with its projection outbox, `rec` the
recording's status and active pointer, `staged[g]` whether the generation has
chunk rows and vectors, `wk[w]` where in `run_pipeline` a worker is, with the
rest of the batch it claimed. `EnsureLegacy` and `Claim` are the two halves of
`poll_once`; `Resolve` is `_resolve_run`; `Transition`, `Require`, `Outboxes`
and `Complete` are the fenced transactions, each at all of its calls; `Persist`
is the chunker, which is not fenced; `Load` and `Embed` are the two ends of
`_stage_extract`; `Check` and `Commit` are one transaction of `_activate_run`,
split because it reads the latest generation before it locks the recording (the
run's row stays locked in between: `Locked`); `Fail` is `_fail_run`.
`Reindex`, `Publish`, `Refuse` and `EncryptionFails` are the requests of
`services/ingestion.py`.

Abstractions. The fence is `(lease_owner, attempt_count)`; a worker works on
one run at a time and a new process has a new name, so the owner is enough and
attempts are not counted. A worker that lost the run and got it again would be
in its new attempt only. Speaker linking, graph merge and tagging change
nothing that publication reads; that the merge may fail is in `Fault`. The
fingerprint that `_activate_run` compares is left out: `audio_sha256` is written
with the recording (`ingestion.py:453`), never changed, and copied by every run
(`ingestion.py:466`, `897`, `indexing.py:412`, `scheduler.py:212`). `Fickle`
lets detection answer differently for the same audio and `Broken` names
generations no attempt can process.

### ErasureOutbox

`rec` is the recording's row, `outbox` its row of `erasure_outbox`, `held` what
rows, durable cache, encrypted audio, reception artifacts and entity vectors may
hold of it, `store[s]` the graph or the file index: the tenant's file and the
copy each process has in memory. A copy is `cold` (not loaded), `clean`, it
`holds` the recording's id, or it is `stripped`: the id is gone, but nodes that
others share keep what was merged into them, and endpoints created by an edge,
which never carried an id, stay (`_remove_graph_refs`,
`remove_recording_graph_refs`). No erasure deletes the vectors.
`Stage` is the transaction of the request, `Repeat` the request made again,
`Scan` and `Claim` the reconciler's poll; `ForgetInGraph`, `SaveGraph`,
`EraseIndex`, `EraseCache`, `EraseAudio`, `EraseArtifacts` are `_cleanup` in
its order, `MarkSucceeded` and `MarkFailed` its two ends. `Sweep` and
`CommitSweep` are the retention job, which cleans first and commits last.
`Begin` to `Activate` are the writes of an indexing attempt, each at the place
the pipeline makes it, with the checks of the recording's row that precede it
(`Fence`). `Load` and `Checkpoint` are the first read of a file by a process
and a save on behalf of another recording.

Abstractions. One recording and its data of one tenant; voiceprints, facts and
tag projections are deleted in the staging transaction (`rows`). A save writes
the whole copy: that is what makes late writers matter, and it is kept. `late`
records the stores that got the recording's id back after the erasure began.
`cache` means the rows of the cache; they are deleted and their purges queued
whether or not Redis answers, and what Redis may still serve is the subject of
`LLMCache`. The audit rows the sweep writes for edges when the advanced graph is
enabled (`core/retention.py:500`) are left out.

### Reception

`visit` is the reception with its timeline, units, tags, status and merged
audio; `disk[p]` what a path holds; `art[p]` the state of its artifact row; `run`
and `op` the automation's and the latest operation's row; `wk[a]` what a user, a
runner or a worker has in hand. A merge is `Prepare` (sources read, session
closed), `Assemble` (the file is sliced, assembled and encrypted) and
`CommitMerge` (the transaction), then `Retire` (the file it replaced). The
same steps serve users, runners and workers, as `merge_recordings` does; a
worker commits with `CommitOperation`, under the operation's lease and
together with the operation's end. `ClaimRun`, `AdvanceMerge`,
`AdvanceSegmentation`, `Segment`, `AdvanceTagging`, `Checkpoint`, `MarkReady`
and `MarkFailed` are `_claim`, one turn of `_advance`, the end of a stage and
its marks. `Ask` and `Cancel` are requests for operations; `Claim`, `Probe`,
`Slice`, `Verify`, `Register`, `End` and `Unlink` the worker;
`ReconcileStale` and `Reclaim` the reconcilers. `Invalidate` is
`invalidate_receptions_for_recording` and has two callers: `Erase`, a request,
whose files wait in the outbox for `EraseFiles`, and `Sweep`, the retention job,
which deletes the files before it commits; `SweepRollsBack` is one whose
transaction fails with any part of the files gone.
`Abort` is an exception or a cancellation at an await, `AbortEncrypting` one
while the encrypting thread is at work, which writes its file afterwards;
`RetireFails` is the logged failure to delete a replaced file, `Crash` the death
of a process, and the two `...Unacknowledged` actions commits whose answer is
lost.

Abstractions. A timeline stands for order, slices and gaps; units, tags and
files are named by the timeline they were made from. A version only grows and
is only compared with the one expected, so `fresh` holds those that expect the
current one. A claim draws a new token and an actor has one claim at a time, so
the token is the actor. Of the operations the latest is kept: a new one is
refused while another is active. Slicing, assembling and encrypting are one
stage (they touch a directory nobody else knows). Left out: locked and edited
units, merge proposals, revision rows, the mapping of recordings to receptions.

### StreamCapture

A connection's number is its epoch, its row and its token. `panel` is the
client, `line[c]` a connection (a `dead` one passes nothing, and neither end
need know), `row[c]` the session row with its watermark, `frame[f]` the staging
row of a frame, `segments` the durable sentences, `hd[c]` the handler:
`Reserve`, `TurnAway`, `Activate`, `Open`, `Replay`, then for every frame `Stage`
(transaction, voice detection), `Hear` (recognition), `Ack`; `Persist` pairs and
stores a sentence wherever the code does, `ReceiveFinalize`, `Disconnect`,
`Drain` and `Close` are the end. Each has its failing counterpart: `StageFails`
starts the drain, `HearFails` acknowledges all the same, `PersistFails` drops the
pair, `ActivateFails` gives the reservation up (or cannot record even that),
`Strand` is an exception before the receive loop. The panel's are `Dial`,
`NoToken`, `Capture`, `Overflow`, `Stop`, `Notice`; `Break` and `Crash` are the
environment's, and `Batch` is the batch scheduler that claims the capture's run,
which has no lease (`scheduler.py:247`), and fails or ends it: its claim and its
outcome in one step.

What the recogniser answers is external and only loosely tied to what it is
given. `push_pcm` sends a frame, reads whatever answer comes next and files it
under that frame's sequence (`adapters/real/streaming_funasr.py:183`); after a
timeout (`:329`) the answer is still to come. So `Hear` lets any push yield a
sentence of the first of the frames heard and not yet answered for
(`Prefixes`), or none, and a failed push of `HearFails` leaves its frame unsent,
or heard, or loses an answer with the frames it was of. The drain at the end
stops at the first confirmed answer or after five seconds (`:223`), and the pool
hands the connection to the tenant's next session without a reset
(`streaming_funasr_pool.py:152`, `196`): a sentence may hold none of this
session's frames (`Answered`, `Leftover`). A sentence is stored under the key
`seq:sentence_id` (`services/streaming_durability.py:190`), and the id is 0 when
the recogniser gives none (`streaming_funasr.py:407`): a second sentence under
one sequence is taken for the stored one or not, as it happens (`Filed`).

Abstractions. Delivery is immediate; an acknowledgement lost in flight is one
sent on a line that had broken. Voice detection, external as well, may close a
segment at any frame; one pair at most is stored at a time. The pending counter of
`StreamSession` never exceeds one because frames are handled one by one, so
its limits are left out, as are sequence gaps, resets of voice detection,
queries over the connection, tickets, speaker linking and the tag scheduler.
Timeouts, disconnects and errors are one reason. The marks DRAINING and
COMMITTING are part of the transactions next to them. `missed` is history: the
frames a failure kept from being recognised or stored, and those consumed by a
sentence while the recogniser had still to answer for them. Of the pool the
permits are kept; whether a connection is new or reused, and what it still
holds, is the choice of what `Hear` and the end may yield.

`Transcript` says the same without connections, leases, buffers or replays: how
many frames are kept, how many of them the panel knows of, and how far the
sentences reach. Its steps are `Begin`, `Keep`, `Tell`, `Miss`, `Say`, `Fail` and
`Close`. `StreamCapture` maps to it by the largest staged frame (`Kept`), the
largest consumed one (`Spoken`), the panel's watermark and the frames of each
stored sentence (`Texts`); that staged and consumed frames have no gap is part of
what the mapping needs and not assumed. All frames of a sentence of `Say` come
behind those of every sentence before, so the order in which segments get their
`idx` is the order in which they were spoken, across epochs; it ends at the last
frame consumed or moves that on. A run that `Batch` has ended (`over`) is written
no more.

## 3. The runs

| run | configuration | shows | bounds |
|---|---|---|---|
| `tagjob` | `MCTagJob.cfg` | `TypeOK`, `SpendIsCovered`, `PublishedIsTruthful`, `CompletedHasNoFailure`, `CompletedIsTruthful`, `ImplementsLifecycle`, `EventuallyAtRest` hold | 2 workers, 2 items, 2 attempts, 1 user retry, lease of 2 ticks; no hard budget, one of time, one of 1 call and time |
| `tagjob_skip` | `MCTagJobSkip.cfg` | `CompletedIsComplete` is violated | 1 worker, 3 items, 3 attempts, a budget of time |
| `llmcache` | `MCLLMCache.cfg` | `TypeOK`, `DurableIsErasable`, `HotCopiesAreChecked`, `ReadyIsImmutable`, `RequestsEnd`, `PurgesEnd` hold | 2 callers, 2 requests, 1 source or none, 1 outage, lease of 1 tick |
| `llmcache_stale` | `MCLLMCacheStale.cfg` | `ErasedIsUnreachable` is violated | 2 callers, 3 requests, 2 sources, no outage |
| `llmcache_shared` | `MCLLMCacheShared.cfg` | `ReuseIsReferenced` is violated | 2 callers, 2 requests, 2 sources |
| `pipeline` | `MCPipelineRun.cfg` | `TypeOK`, `IndexedIsPublished`, `OneReadyGeneration`, `ReadyIsNeverHidden`, `LiveAttemptIsUndisturbed`, `RunsSettle` hold | 2 workers (one claims two runs at a poll), 2 generations, 1 failure, stall or crash, encrypted and legacy registration |
| `pipeline_stale` | `MCPipelineRunStale.cfg` | `ActiveIsSearchable` is violated | 2 workers, 1 generation, 1 stall |
| `pipeline_starved` | `MCPipelineRunStarved.cfg` | `QueuedIsServed` is violated under fairness | 1 worker, 2 generations, the first broken |
| `pipeline_reserved` | `MCPipelineRunReserved.cfg` | `RegistrationIsKept` is violated | 1 worker, 1 encrypted registration |
| `erasure` | `MCErasureOutbox.cfg` | `TypeOK`, `NamedLeftoversAreOwed`, `IntentComesFirst`, `SucceededIsFinal`, `ErasureIsFinished` hold | 2 processes; request against a reconciler of the other process, against one of its own and an indexing attempt, and the sweep against both; lease of 1 tick; 1 failure, stall or crash |
| `reception` | `MCReception.cfg` | `TypeOK`, `MergedAudioPlays`, `DerivedFromTimeline`, `FilesAreAccountedFor`, `OneGeneration`, `ReadyIsEarned`, `OperationsEnd`, `LeftoversGo` hold | 2 recordings in either order or alone, one erasable, 3 paths; two runners, a user and a runner, a user and two workers, two users and a worker; 2 attempts; 1 trouble, 2 where two workers are |
| `streaming` | `MCStreamCapture.cfg` | `TypeOK`, `ConsumedIsDurable`, `SpokenOnce`, `AcknowledgedIsStaged`, `ResendsAreInOrder`, `PermitsReturn`, `ImplementsTranscript`, `CaptureEnds` hold | 2 connections; one permit, 2 frames and 1 trouble (a failure, a crash, an answer of an earlier session or a step of the batch scheduler), or two permits and 1 frame; 1 unacknowledged frame in the panel |

Why the bounds are enough. Every conflict in this code is between a holder of a
lease and one other actor, so two workers or callers show it. Two items let a
job have one that failed and one never tried behind it, or one that failed and
one that succeeded; the case that needs a third is the one `tagjob_skip` finds,
and the theorems hold for any number. Two attempts
and one retry let a job run out of attempts and be revived. A lease of one or
two ticks separates live, nearly over and over. Two generations show an active
and a racing one. Two processes are one with a stale copy and one that erases.
Three paths are a merged file, the one that replaces it and one of a third
party. Two connections are an abandoned handler and the one that resumes; with
one permit the second waits for the first, with two they run at the same time;
the frame after an unacknowledged one shows the panel's limit. Each run fires every action of its module. Deadlock is not
checked because the bounds on requests, retries and troubles stop the models;
the systems themselves stop when nobody asks for anything.

Fairness. Weak fairness on each worker's or request's own steps: the loops
`run_forever`, `start_loop` and the gateway's tasks run for ever and every
model call ends by its client's timeout. Weak fairness on the clock. In the
cache also on the purge loop and on Redis coming back; `PurgesEnd` says nothing
if Redis never does. Erasure: the reconcilers poll every 30 seconds
(`CleanerStep`), back-offs end, and the lease of a cleaner that is not at work
runs out. Receptions: work that was begun goes on (`Work`), the reconciler
polls every five seconds, the lease of a dead owner runs out and outbox rows
are drained; nobody has to claim the automation, and `OperationsEnd` presumes
that there is a worker. Streaming: handlers go on, the panel's timers fire and a
broken line is noticed in the end; nobody has to speak or to stop.
Users, failures, outages and crashes owe nothing, and are
bounded: the liveness properties say what happens when trouble ends, which is
all that can be asked. Leases: a lease in use runs out only if its worker stalls
(`PipelineRun.Tick` counts that as a trouble), because the heartbeat period is a
fraction of the lease.

The properties, in words: the calls a job made never exceed what its row has
charged or reserved, and that never exceeds the limit, also when a worker dies
between call and settlement; a budgeted job publishes, and a job completes,
only after complete work (`CompletedIsTruthful` with the exception of section
5.1); a payload in the durable cache is registered under each of its sources and
none is erased, and a hot copy of it sends every reader to the row; the recording is `indexed` exactly under the publication
predicate of `docs/audio-segmentation-merge-state-space.md`; the pointer names
the only ready generation; queueing, failing or losing later generations never
hides it; a live attempt's run is moved only by its holder or by a new claim;
jobs, requests, purges and runs come to an end.

`IndexedIsPublished` and `ReadyIsNeverHidden` have one exception each, the
registration request: when it publishes a reservation that a worker had
already claimed (5.6), it puts the recording back to `queued`.

Once nothing is owed, no row, file or cached answer of an erased recording is
left, and the graph and the index do not name it, unless a writer put it back
into the file after the erasure had begun; the entity vectors and what the graph
keeps without the id are left (section 5). Nothing outside the database
is deleted before the intent is committed, but by the sweep; an erasure that
is finished is never opened again, and an owed one is finished in the end. The
merged audio of a reception exists and holds the audio of its timeline; units
and tags belong to the timeline there is and use only recordings that exist;
every file on disk is the merged audio, named by a row that a reconciler looks
for, in somebody's hands, owed to an erasure, or lost with the process that
knew it; one generation at most is in the making, for an operation at work;
operations end, and again and again nothing but the merged audio is left.
`MergedAudioPlays` has two exceptions, an unanswered commit and a sweep that was
rolled back (`blind`), and `ReadyIsEarned` that of a merge in the middle of an automation (`disturbed`):
all are what the code does, see section 5. A frame marked CONSUMED is in a
stored sentence, unless a failure the handler saw kept it out or the recogniser
had not answered for it when a sentence was filed behind it (`missed`); no
frame is in two sentences of the sessions that gave it (`SpokenOnce` says
nothing of a sentence an earlier session left on a reused connection); what the
panel forgets is stored; what it resends is never
called out of order; permits come back; sentences are stored in the order they
were spoken, across epochs, and after a normal close, or after the batch
scheduler has ended the run, nothing is added; a panel that is told to stop ends.

## 4. The proofs

All theorems hold for every value of the constants under the assumptions named
in the modules (`WorkersAssumption`, `NumbersAssumption`, `CacheConstants`,
`PipelineConstants`, `ErasureConstants`, `ReceptionConstants`,
`StreamConstants`).
TLC checked every inductive invariant before it was proved.

`TagJobProofs`:

- `TypeCorrect`: `TypeOK` is inductive by itself.
- `BudgetIsRespected`: `SpendIsCovered` is not inductive, because a worker that
  lost its lease still makes the calls it was allowed. `BudgetInv` adds that a
  reservation takes the whole remainder of the limit, so that only one worker at
  a time is between `Reserve` and `Process`, whoever holds the lease by then
  (`AllowanceInv`), and that a holder in the middle of an item owns the
  reservation while a holder elsewhere has none (`ReservationInv`).
- `CompletedMeansNoFailure`: `CountInv`: the successes counted, the failures on
  record and what a holder has still to do never exceed the scope.
- `CompletedTellsTheTruth`: `TruthInv`. What was tried and is not on record as
  failed succeeded; and until every item has been tried they are tried in the
  order of the scope (`InScopeOrder`): the items tried are the first
  `completed + failed`, and a worker that is fenced in has the rest to go. An
  attempt that begins with a failure on record breaks this (5.1), which is what
  the history variable `interrupted` says. It rests on `CompletedHasNoFailure`.
- `PublishedTellsTheTruth`: a worker publishes when the successes counted are
  all and no failure is, so `CountInv` and `TruthInv` say that every item was
  processed. Nothing about the budget enters: a failed item uses up a budget of
  calls, but not one of time, and not when the reservation itself failed, so the
  counters alone decide what is published.
- `LifecycleIsImplemented`: every step of `TagJob` maps to a step of
  `JobLifecycle` or stutters, with the holder read from status and owner.

`LLMCacheProofs`:

- `CacheTypeCorrect`.
- `ErasureReachesDurable`: by `ErasureInv`, which adds that the row a leader may
  still publish to carries the leader's references and flag
  (`LeaderIsReferenced`): an erasure that runs while the leader computes deletes
  that row, and the publication fails. A takeover between its two steps relies on
  the guard rows it has locked (`TakeoverIsGuarded`).
- `HotCopiesAreAlwaysChecked`: the flag goes with a payload wherever it is, in the
  row (`Flagged`) or in the hands of its leader and of readers (`Carried`), and
  nobody holds the number of a payload that is still to be published
  (`Published`). It speaks of the sources the payload was made from; of a source
  attached later it would be false (5, cache).
- `PublishedOnce`: a step that leaves the row ready leaves the payload.

`PipelineRunProofs`:

- `PipelineTypeCorrect`: `TypeOK` needs `GenKnown`, that a worker beyond its
  poll works on a generation that exists.
- `OneReady`, `PublicationPredicate`, `NeverHidden`, `LiveAttempt` rest on
  `PipelineInv`. `GoodRow` says that a projection is acknowledged before it is
  complete and that a ready run has no holder, so no fence lets anyone write it;
  `PointerInv` is `OneReadyGeneration` generation by generation; `StatusInv` is
  the recording's status; `CommitInv` says that between the two halves of an
  activation the run is still the verified, complete run of its worker. The last
  one is the race in the code: it holds because every other writer is either
  fenced out (`Neighbour`) or has to wait for the lock of the run's row.
- All steps but an activation and the registration request are `Quiet`: they
  touch no ready run and make none. The rest of the argument is about those two.

`ErasureOutboxProofs`:

- `ErasureTypeCorrect`: inductive by itself.
- `NothingNamedIsForgotten`: `NamedLeftoversAreOwed` says what is left at the
  end, so the invariant (`IInv`) follows an eraser from store to store. Only one whose work
  will be relied on counts: a cleaner that holds the claim of a recording that
  is gone, or a sweep of one that is not gone yet. What such an eraser has
  passed is clean or late (`Progress`), what it removed for good is removed
  whoever removed it (`Removed`), and rows do not come back (`NoRows`).
- `FinishedOnce`, `IntentBeforeDeletion`: step by step; the second needs that a
  cleaner beyond its claim implies an intent on record (`Claimed`).

`ReceptionProofs`:

- `ReceptionTypeCorrect`: with `Counted`, that a queued operation has an attempt
  left; without it the next claim would count past the limit.
- `DerivedIsCurrent`: inductive by itself, because every transaction that
  changes the timeline takes units and tags with it, and the one that adds
  units compares the timeline again.
- `ReadyMeansProcessed`: the stage of the row is not enough, since the stages do
  not look at the lease. `Progress` says that a stage is only passed with what
  it was to make, and that a runner that still holds the lease is in the stage of
  the row (`Earned`); one that lost it is refused at its checkpoint.

`ReceptionFilesProofs`: `MergedPlays`, `NoFileIsForgotten` and
`OneGenerationAtATime` are parts of one invariant, `Filed`. None holds without
the others: a file is deleted by whoever has it in hand, so it must not be the
merged audio nor anybody else's (`Hands`, `Apart`); an erasure and a reclaim
delete by row, so the merged audio is not among their rows (`Pointed`, `Own`);
a sweep and an erasure of a worker's file leave it empty, a user's is never
among theirs; what is published must have been written (`Content`); and a takeover must not
find the generation of the owner it displaced (`Making`). Steps that move no
file are settled at once (`QuietKeeps`).

`StreamCaptureProofs` and `StreamSpeechProofs` build one invariant in five
layers, each of which rests on the one before:

- `Typed` (`StreamCaptureTypes`, `PermitsAlwaysReturn`): the types, and the
  account of the pool: what is neither free nor lost is in the hands of the
  handlers that run. It is a cardinality, kept by the lemmas that add one
  handler to it or take one away.
- `Leases` (`ClosedStaysFinal`): an epoch that holds its lease or has been
  closed is the newest (`Lease`), and nobody knows the token of one that has not
  been opened (`Secret`). A step that writes needs the lease of the newest
  epoch; once that is closed, nobody passes.
- `Stages` (`AcknowledgedIsAlwaysStaged`): frames are staged without a gap, up
  to what the panel has had acknowledged and what every handler has been fed
  (`Gapless`); the panel asks for the end only after it has sent all it has
  captured (`Told`), so a handler that ends normally has staged all (`Finalized`).
- `Speech` (`ResendsAreAlwaysInOrder`, `SpokenOnceAlways`,
  `ConsumedIsAlwaysDurable`): what a handler has in memory, of which only order
  is known, since answers come when they come. Of every handler (`Sound`,
  `SoundQueue`): a sentence that waits is filed at or after its own frames, and
  these come before what the sentences behind it hold and before what no sentence
  holds yet. Of the one that holds the lease (`Holds`): an ACCEPTED frame has been
  fed to it or will be (`Covered`, `Replayed`); one that was fed is heard, waits
  or was missed (`Accounted`); all that is stored comes before all it has heard
  (`Unspoken`). A stored sentence has consumed everything up to its sequence
  (`Spent`), which is why the next epoch replays nothing that it holds. Six kinds
  of step (a handler idles, begins, rests, speaks, is fed, drops) carry the
  argument; the lemma `Kinds` says that there is no seventh.
- `Order` (`TranscriptIsImplemented`): frames are consumed in the order of their
  numbers (`InTurn`), and the run is handed on only if an epoch has closed, has
  not begun only if there is no epoch, and has a sentence if a handler wrote one
  (`Runs`), so a handler that writes finds it writable. With these every action
  is a step of `Transcript` or a stutter, one lemma for each that is seen there.

Only model-checked: liveness (`EventuallyAtRest`, `RequestsEnd`, `PurgesEnd`,
`RunsSettle`, `ErasureIsFinished`, `OperationsEnd`, `LeftoversGo`,
`CaptureEnds`), which the prover does not reach. Every invariant, every
action property and every refinement of a passing run is a theorem.
`ClosedIsFinal` is a theorem (`ClosedStaysFinal`) and no property of a run, since
`ImplementsTranscript` contains it.

## 5. Where code and documents disagree

1. **A completed tag job may have skipped an item** (`tagjob_skip`,
   `tag_worker.py:647`). A resumed attempt repeats the recorded failures and is
   counted twice; after a second interruption the position
   `completed_items + failed_items` is past items nobody tried. In the run the
   job has a budget of time only, under which a failed item does not stop the
   next, so its pointers were published as well.
2. **An erased payload may come back from the hot cache** (`llmcache_stale`,
   `services/llm_cache_coordinator.py:505`). The hot write after a publication
   is not fenced, and the later check of the hot hit asks only whether the row
   is ready, not whether it is the same payload.
3. **Single flight shares a result without registering the sharer's sources**
   (`llmcache_shared`, `llm/gateway.py:874`).
4. **A stale worker destroys the chunks of the active generation**
   (`pipeline_stale`, `core/chunker.py:570`).
5. **A run that always fails starves younger ones** (`pipeline_starved`,
   `scheduler.py:259`): retried without the documented back-off.
6. **A registration in the middle of its encryption can be claimed, and is then
   undone** (`pipeline_reserved`, `services/ingestion.py:468`).

Met without a run of their own, because the models contain them as behaviour
or leave their data out:

- Indexing: the latest generation is read before the recording is locked
  (`services/indexing.py:650`); a waiting run of a batch is stolen back from a
  live attempt (`:441`); `required_projections` narrowed by a silent attempt is
  never widened (`:532`); `_resolve_run` locks recording, then run, the
  transitions the other way round (`:366`; the database detects it).
- Cache: `acknowledge_purges` deletes the purge row of an identity whichever
  erasure queued it (`storage/llm_cache_store.py:577`). A takeover reads the row
  without a lock and writes back the provenance flag it read
  (`storage/llm_cache_store.py:286`): a request of another source that attaches
  its reference in between leaves a row with references and no flag. `Reclaim`
  behaves so. It takes a request without sources that reads the row when its
  lease is over, an owner that revives the lease or a second takeover, an
  attaching request, and the end of that lease. A publication likewise flags its
  hot copy by its own request's sources only
  (`services/llm_cache_coordinator.py:507`), whoever else has attached.
  `HotCopiesAreChecked` is what is left: the sources a payload was made from are
  never hidden.
- Erasure: a process with an old copy of the graph or the index writes an
  erased recording back to the file (the `late` of `NamedLeftoversAreOwed`);
  nobody cleans it again. A succeeded erasure leaves data that no longer carries
  the recording's id: shared nodes with their descriptions, `source_ids` and
  edges (`services/erasure_outbox.py:76`, `core/retention.py:469`), endpoints an
  edge created (`storage/graph_networkx.py:251`), and the entity vectors, whose
  texts hold name and description (`core/graph.py:325`). With Redis down the
  erasure succeeds with the purge deferred
  (`services/llm_cache_coordinator.py:636`), and a hot write that comes late can
  put the value back (`:505`; `llmcache_stale`). A row that was PREPARING or FAILED lists the plain path
  while the file on disk is the encrypted one (`lost`).
- Receptions: a commit whose answer is lost makes the guard delete a file that
  was published (`services/receptions.py:443`, `blind`); the retention sweep
  deletes it inside a transaction that may still fail (`core/retention.py:355`,
  `blind`), and nobody repairs the pointer before the next sweep or merge. A
  cancelled merge does not wait for its encrypting thread (`receptions.py:2904`),
  whose file is then lost, or found by its row; the model lets the thread write
  as part of the cancellation. A user's merge in the
  middle of an automation leaves a reception `ready` without units
  (`services/reception_pipeline.py:444`, `disturbed`); a direct merge leaves the
  artifact row of the operation's generation ATTACHED; the end by
  LEASE_EXHAUSTED leaves the token in the row; a crash between the commit and
  the deletion of the replaced file leaks it (`lost`); locks are taken as run
  then reception and as reception then run.
- Streaming: an answer of the recogniser is filed under the sequence of the push
  that reads it (`adapters/real/streaming_funasr.py:183`), which
  `adapters/protocols.py:347` describes as the last sequence consumed by the
  answer. After a push that timed out the two differ: the sentence stored
  consumes frames it does not hold, and after a crash nobody replays them
  (`missed`). A reused connection may hand over a sentence of the tenant's
  earlier session, which is stored with this one (`streaming_funasr_pool.py:152`),
  and two sentences under one sequence may have the same key, of which the second
  is dropped as already stored (`services/streaming_durability.py:190`). The run
  of a live capture is in state `asr` without a lease (`ws_stream.py:1282`) and
  claimable by the batch scheduler (`scheduler.py:247`), which may fail or end it
  under the handler (`Batch`); the next sentence then fails to be stored and no
  reconnect is accepted. A database that fails while a failed reservation is
  recorded (`ws_stream.py:380`) loses the permit and leaves the row RESERVING
  (`ActivateFails`). `session_closed` with reason `error`, after an error event marked
  recoverable, makes the panel drop its unacknowledged frames and show
  `committed`, against `docs/audio-segmentation-merge-state-space.md:296`
  (`AcknowledgedIsStaged` therefore speaks of captures that closed for good). A
  failing heartbeat leaves the loop without a reason, which counts as normal:
  the capture is CLOSED and cannot be resumed. An epoch that closes normally
  without a sentence of its own makes the run `partial` with NO_DURABLE_SPEECH
  (`ws_stream.py:1501`), although an earlier epoch may have stored some; `Close`
  of `Transcript` therefore asks for a sentence before `projections` and not for
  the converse. `_persist_session_row` writes the
  last fed sequence over the watermark, so that an epoch that was fed nothing
  makes the next resumption fail. Sentences without a closed segment are dropped
  at the close; a frame skipped by an abandoned generator, or whose sentence
  could not be stored, is consumed by a later one (`missed`). An exception while
  the session is opened or replayed loses the permit and leaves the row ACTIVE
  (`Strand`); a failing connect loses the permit as well
  (`streaming_funasr_pool.py:156`, `pool.lost`). A panel that was never told of an epoch cannot resume it
  (`NoToken`, `TurnAway`). `lease_expires_at` is never read; the counter of
  reconnects is never reset though its message says consecutive.

## 6. Not modelled

Everything numeric (retrieval, ranking, speaker similarity, communities), text
processing (prompts, parsing, PII), bytes (encryption, audio), presentation
(front end but for the capture panel, analytics, reports), authentication, and
the libraries. Models are steps that succeed or fail. Of the components with
state:

- Tag deployments: one row per deployment, changed under its lock by administrators
  and by the monitor; most of the code computes and compares metrics.
- Tag optimizer, harness and evaluation: their jobs repeat the lease of
  `TagJob` around offline computations.
- Integration callbacks: a batch claimed by a worker that dies stays
  `processing` (`services/integration.py:303`, listed as a hazard); beyond that the
  delivery is one request under a timeout.
- Facts and current view: append-only rows and a view that is rebuilt in one
  transaction.
- Which idle connection the recognition pool hands out, the process-local cache
  behind Redis, the semantic lookup: caches in one process, between two awaits.

## 7. Plan

Done: tag jobs, cache, indexing, erasure, receptions with their automation and
operations, live captures; proofs of every safety property the runs check, and
of both refinements. Next: `Deployment` and `CallbackDelivery`, each a small
module with one row and its writers.
