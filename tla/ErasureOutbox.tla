---------------------------- MODULE ErasureOutbox -----------------------------
(***************************************************************************)
(* How a recording is erased from every store that holds data of it.       *)
(*                                                                         *)
(* A request of the person concerned (api/dsar.py) deletes the rows of the *)
(* database and writes a row of erasure_outbox in one transaction; the     *)
(* request itself and the reconcilers of all processes then clean the      *)
(* other stores, under a lease of 60 seconds that nobody renews            *)
(* (services/erasure_outbox.py).  The daily sweep (core/retention.py)      *)
(* cleans the other stores first and deletes the rows last, and has no     *)
(* outbox.  Meanwhile an attempt to index the recording may write to the   *)
(* same stores (services/indexing.py, core/chunker.py).                    *)
(*                                                                         *)
(* The knowledge graph and the file index are one file per tenant.  Every  *)
(* process keeps a copy in memory that it loads once, and a save replaces  *)
(* the file by the whole copy (storage/graph_networkx.py, file_index.py).  *)
(* A claim draws a new lease token; a cleaner has one claim at a time, so  *)
(* the token is the cleaner.                                               *)
(*                                                                         *)
(* To forget a recording in the graph is to take its id off what carries   *)
(* it, and to remove a node or an edge that carries no other.  A node that *)
(* others share keeps its description and its edges, and an endpoint that  *)
(* an edge created never carried an id: a copy that is "stripped" may hold *)
(* such things of it.  The entity vectors in the database are never        *)
(* deleted.                                                                *)
(***************************************************************************)
EXTENDS Integers

CONSTANTS
  Procs,        \* processes that share the database and the working directory
  Cleaners,     \* erasure requests and reconcilers
  Reconcilers,  \* the cleaners that poll the outbox
  Sweepers,     \* retention sweeps
  Indexers,     \* attempts to index the recording
  Home,         \* the process each of them runs in
  Teams,        \* the sets of them that may be at work together
  NoOwner,      \* lease_token IS NULL
  LeaseTTL,     \* clock ticks a lease lasts
  MaxTroubles   \* bound of the model: failures, stalls and crashes

Actors == Cleaners \cup Sweepers \cup Indexers

ASSUME ErasureConstants ==
  /\ Home \in [Actors -> Procs] /\ Teams \subseteq SUBSET Actors
  /\ Cleaners \cap Sweepers = {} /\ (Cleaners \cup Sweepers) \cap Indexers = {}
  /\ Reconcilers \subseteq Cleaners /\ NoOwner \notin Actors
  /\ LeaseTTL \in Nat \ {0} /\ MaxTroubles \in Nat

VARIABLES
  rec,        \* the recording's row
  outbox,     \* its row of erasure_outbox
  held,       \* what the tables, the rows of the cache and the disk hold of it
  guarded,    \* the cache takes nothing derived from it any more
  store,      \* the graph and the index: the file and each process's copy
  wk,         \* where each actor is
  late,       \* history: stores that got data back since the erasure began
  troubles    \* failures, stalls and crashes so far

vars == <<rec, outbox, held, guarded, store, wk, late, troubles>>

Stores == {"graph", "index"}
Holdings == {"rows", "cache", "audio", "artifact", "vectors"}
Files == {"clean", "stripped", "holds"}
Copies == Files \cup {"cold"}
StoreRows == [file : Files, mem : [Procs -> Copies]]
Open == {"pending", "processing", "failed"}
OutboxRows == [status : Open \cup {"none", "succeeded"}, owner : Cleaners \cup {NoOwner},
               ttl : 0..LeaseTTL, due : BOOLEAN]
Phases == {"off", "idle", "claim", "retry", "graph", "save", "index", "cache", "audio",
           "artifacts", "succeed", "fail", "commit", "persist", "set", "segments", "flush",
           "completed", "extract", "vector", "upsert", "reload", "activate"}

TypeOK ==
  /\ rec \in {"unfinished", "indexed", "gone"}
  /\ outbox \in OutboxRows
  /\ held \in SUBSET Holdings
  /\ guarded \in BOOLEAN
  /\ store \in [Stores -> StoreRows]
  /\ wk \in [Actors -> Phases]
  /\ late \in SUBSET Stores
  /\ troubles \in 0..MaxTroubles

NoClaim(status) == [status |-> status, owner |-> NoOwner, ttl |-> 0, due |-> TRUE]

(* The recording is indexed, or it has only been uploaded.  A row of the   *)
(* outbox may be left from an older version or a manual repair.            *)
Init ==
  /\ rec \in {"unfinished", "indexed"}
  /\ outbox \in {NoClaim(s) : s \in {"none", "pending", "succeeded"}}
  /\ held = IF rec = "indexed" THEN Holdings ELSE {"audio"}
  /\ guarded = FALSE
  /\ store = [s \in Stores |-> [file |-> IF rec = "indexed" THEN "holds" ELSE "clean",
                                mem |-> [p \in Procs |-> "cold"]]]
  /\ \E team \in Teams : wk = [a \in Actors |-> IF a \in team THEN "idle" ELSE "off"]
  /\ late = {}
  /\ troubles = 0

-----------------------------------------------------------------------------
At(a, phase) == wk[a] = phase
Goto(a, phase) == wk' = [wk EXCEPT ![a] = phase]

(* Copies and files.                                                       *)

Copy(s, p) == store[s].mem[p]
SetCopy(s, p, copy) == [store EXCEPT ![s].mem[p] = copy]

(* The file is replaced by what is in the memory of p.                     *)
Saved(s, p, copy) ==
  [store EXCEPT ![s] = [file |-> copy, mem |-> [store[s].mem EXCEPT ![p] = copy]]]

(* What a process finds when it loads the file, and what it works on.      *)
Loaded(s) == store[s].file
InMemory(s, p) == IF Copy(s, p) = "cold" THEN Loaded(s) ELSE Copy(s, p)

(* What is left in a copy of the graph when the ids are taken off.         *)
Stripped(copy) == IF copy = "holds" THEN "stripped" ELSE copy

Regained(s, new) ==
  \/ new.file = "holds" /\ store[s].file # "holds"
  \/ \E p \in Procs : new.mem[p] = "holds" /\ Copy(s, p) \in {"clean", "stripped"}

Put(new) ==
  /\ store' = new
  /\ late' = late \cup {s \in Stores : Regained(s, new[s])}

-----------------------------------------------------------------------------
(* The request: erase_recording and stage_recording_erasure.               *)

(* Mutant: an outbox that exists already is left as it is.                 *)
StagedKeepingOld == IF outbox.status = "none" THEN NoClaim("pending") ELSE outbox

Staged == NoClaim("pending")

(* Mutant: the cleanup starts before the transaction.                      *)
StageLater(c) ==
  /\ c \in Cleaners \ Reconcilers /\ At(c, "idle")
  /\ rec # "gone"
  /\ Goto(c, "graph")
  /\ UNCHANGED <<rec, outbox, held, guarded, store, late, troubles>>

(* One transaction deletes the rows and records the intent.                *)
Stage(c) ==
  /\ c \in Cleaners \ Reconcilers /\ At(c, "idle")
  /\ rec # "gone"
  /\ rec' = "gone"
  /\ guarded' = TRUE
  /\ held' = held \ {"rows"}
  /\ outbox' = Staged
  /\ late' = {}
  /\ Goto(c, "claim")
  /\ UNCHANGED <<store, troubles>>

(* The request is repeated: a retry that does not wait for the backoff.    *)
Repeat(c) ==
  /\ c \in Cleaners \ Reconcilers /\ At(c, "idle")
  /\ rec = "gone" /\ outbox.status # "none"
  /\ Goto(c, "retry")
  /\ UNCHANGED <<rec, outbox, held, guarded, store, late, troubles>>

(* drain_pending finds the row.                                            *)
Scan(c) ==
  /\ c \in Reconcilers /\ At(c, "idle")
  /\ outbox.due
  /\ \/ outbox.status \in {"pending", "failed"}
     \/ outbox.status = "processing" /\ outbox.ttl = 0
  /\ Goto(c, "claim")
  /\ UNCHANGED <<rec, outbox, held, guarded, store, late, troubles>>

(* Mutant: a claim whose holder is dead is never taken over.               *)
ClaimableUnlessHeld(c) ==
  outbox.status \in {"pending", "failed"} /\ (At(c, "retry") \/ outbox.due)

(* Mutant: a repeated request starts a finished erasure again.             *)
ClaimableAgain(c) ==
  /\ outbox.status \in Open \cup {"succeeded"}
  /\ ~(outbox.status = "processing" /\ outbox.ttl > 0)
  /\ At(c, "retry") \/ outbox.due

(* _claim                                                                  *)
Claimable(c) ==
  /\ outbox.status \in Open
  /\ ~(outbox.status = "processing" /\ outbox.ttl > 0)
  /\ At(c, "retry") \/ outbox.due

Claim(c) ==
  /\ c \in Cleaners /\ (At(c, "claim") \/ At(c, "retry"))
  /\ IF Claimable(c)
       THEN /\ outbox' = [outbox EXCEPT !.status = "processing", !.owner = c,
                                        !.ttl = LeaseTTL]
            /\ Goto(c, "graph")
       ELSE Goto(c, "idle") /\ UNCHANGED outbox
  /\ UNCHANGED <<rec, held, guarded, store, late, troubles>>

-----------------------------------------------------------------------------
(* The steps of _perform_cleanup, which _delete_one of the sweep takes     *)
(* too.                                                                    *)

Eraser(a) == a \in Cleaners \cup Sweepers

(* remove_recording_graph_refs, _remove_graph_refs, in memory.             *)
ForgetInGraph(a) ==
  /\ Eraser(a) /\ At(a, "graph")
  /\ Put(SetCopy("graph", Home[a], Stripped(InMemory("graph", Home[a]))))
  /\ Goto(a, "save")
  /\ UNCHANGED <<rec, outbox, held, guarded, troubles>>

(* The memory of the process is what is saved, whoever changed it since.   *)
SaveGraph(a) ==
  /\ Eraser(a) /\ At(a, "save")
  /\ Put(Saved("graph", Home[a], InMemory("graph", Home[a])))
  /\ Goto(a, "index")
  /\ UNCHANGED <<rec, outbox, held, guarded, troubles>>

(* erase_recording: one step under the lock of the index.                  *)
EraseIndex(a) ==
  /\ Eraser(a) /\ At(a, "index")
  /\ Put(Saved("index", Home[a], "clean"))
  /\ Goto(a, "cache")
  /\ UNCHANGED <<rec, outbox, held, guarded, troubles>>

(* delete_by_provenance: the rows of the cache, committed whether or not   *)
(* Redis answers (its copies are LLMCache's subject); the guard blocks     *)
(* what is still being computed.                                           *)
EraseCache(a) ==
  /\ Eraser(a) /\ At(a, "cache")
  /\ held' = held \ {"cache"}
  /\ guarded' = TRUE
  /\ Goto(a, "audio")
  /\ UNCHANGED <<rec, outbox, store, late, troubles>>

(* Mutant: the cleanup ends with the audio.                                *)
AfterAudioDone(a) == IF a \in Cleaners THEN "succeed" ELSE "commit"

AfterAudio(a) == IF a \in Cleaners THEN "artifacts" ELSE "commit"

EraseAudio(a) ==
  /\ Eraser(a) /\ At(a, "audio")
  /\ held' = held \ {"audio"}
  /\ Goto(a, AfterAudio(a))
  /\ UNCHANGED <<rec, outbox, guarded, store, late, troubles>>

EraseArtifacts(c) ==
  /\ c \in Cleaners /\ At(c, "artifacts")
  /\ held' = held \ {"artifact"}
  /\ Goto(c, "succeed")
  /\ UNCHANGED <<rec, outbox, guarded, store, late, troubles>>

(* Mutant: the verdict is written whoever holds the lease.                 *)
HoldsAnyClaim(c) == outbox.status = "processing"

(* status = 'processing' AND lease_token = the token of the claim          *)
HoldsClaim(c) == outbox.status = "processing" /\ outbox.owner = c

(* _mark_succeeded.  A lost lease raises, and nothing is recorded.         *)
MarkSucceeded(c) ==
  /\ c \in Cleaners /\ At(c, "succeed")
  /\ outbox' = IF HoldsClaim(c) THEN NoClaim("succeeded") ELSE outbox
  /\ Goto(c, "idle")
  /\ UNCHANGED <<rec, held, guarded, store, late, troubles>>

(* _mark_failed, with the exponential backoff.                             *)
MarkFailed(c) ==
  /\ c \in Cleaners /\ At(c, "fail")
  /\ outbox' = IF HoldsClaim(c) THEN [NoClaim("failed") EXCEPT !.due = FALSE] ELSE outbox
  /\ Goto(c, "idle")
  /\ UNCHANGED <<rec, held, guarded, store, late, troubles>>

CleanerStep(c) ==
  \/ Scan(c) \/ Claim(c) \/ ForgetInGraph(c) \/ SaveGraph(c) \/ EraseIndex(c)
  \/ EraseCache(c) \/ EraseAudio(c) \/ EraseArtifacts(c) \/ MarkSucceeded(c) \/ MarkFailed(c)

-----------------------------------------------------------------------------
(* The retention sweep: run_sweep and _delete_one.                         *)

Busy(a) == wk[a] \notin {"off", "idle"}

(* Only an indexed recording, past its retention, is a candidate.          *)
Sweep(s) ==
  /\ s \in Sweepers /\ At(s, "idle")
  /\ rec = "indexed"
  /\ late' = IF \E t \in Sweepers : Busy(t) THEN late ELSE {}
  /\ Goto(s, "graph")
  /\ UNCHANGED <<rec, outbox, held, guarded, store, troubles>>

(* The last step: the rows, and before the commit the artifacts.           *)
CommitSweep(s) ==
  /\ s \in Sweepers /\ At(s, "commit")
  /\ rec' = "gone"
  /\ held' = held \ {"rows", "artifact"}
  /\ Goto(s, "idle")
  /\ UNCHANGED <<outbox, guarded, store, late, troubles>>

(* The artifacts are deleted and the commit fails.                         *)
RollBackSweep(s) ==
  /\ s \in Sweepers /\ At(s, "commit")
  /\ troubles < MaxTroubles /\ troubles' = troubles + 1
  /\ held' = held \ {"artifact"}
  /\ Goto(s, "idle")
  /\ UNCHANGED <<rec, outbox, guarded, store, late>>

SweeperStep(s) ==
  \/ Sweep(s) \/ ForgetInGraph(s) \/ SaveGraph(s) \/ EraseIndex(s)
  \/ EraseCache(s) \/ EraseAudio(s) \/ CommitSweep(s)

-----------------------------------------------------------------------------
(* An attempt to index the recording, by the stores it writes to.          *)

(* The run went with the recording: the fence of the next stage fails.     *)
Fence(i, phase) == Goto(i, IF rec = "gone" THEN "idle" ELSE phase)

Begin(i) ==
  /\ i \in Indexers /\ At(i, "idle")
  /\ rec # "gone"
  /\ Goto(i, "persist")
  /\ UNCHANGED <<rec, outbox, held, guarded, store, late, troubles>>

(* Mutant: the rows are written whether or not the recording is there.     *)
PersistRowsUnchecked(i) ==
  /\ i \in Indexers /\ At(i, "persist")
  /\ held' = held \cup {"rows"}
  /\ Goto(i, "set")
  /\ UNCHANGED <<rec, outbox, guarded, store, late, troubles>>

(* _persist_to_mysql: the foreign key refuses rows without a recording.    *)
PersistRows(i) ==
  /\ i \in Indexers /\ At(i, "persist")
  /\ held' = IF rec = "gone" THEN held ELSE held \cup {"rows"}
  /\ Fence(i, "set")
  /\ UNCHANGED <<rec, outbox, guarded, store, late, troubles>>

(* _persist_to_file_index, in memory only.                                 *)
SetIndex(i) ==
  /\ i \in Indexers /\ At(i, "set")
  /\ Put(SetCopy("index", Home[i], "holds"))
  /\ Goto(i, "segments")
  /\ UNCHANGED <<rec, outbox, held, guarded, troubles>>

(* The fenced transitions between the writes.                              *)
Transition(i) ==
  /\ i \in Indexers
  /\ \/ At(i, "segments") /\ Fence(i, "flush")
     \/ At(i, "completed") /\ Fence(i, "extract")
     \/ At(i, "vector") /\ Fence(i, "upsert")
  /\ UNCHANGED <<rec, outbox, held, guarded, store, late, troubles>>

FlushIndex(i) ==
  /\ i \in Indexers /\ At(i, "flush")
  /\ Put(Saved("index", Home[i], InMemory("index", Home[i])))
  /\ Goto(i, "completed")
  /\ UNCHANGED <<rec, outbox, held, guarded, troubles>>

(* _stage_extract; what the model answers goes into the cache.             *)
Extract(i) ==
  /\ i \in Indexers /\ At(i, "extract")
  /\ held' = IF guarded \/ "rows" \notin held THEN held ELSE held \cup {"cache"}
  /\ Goto(i, "vector")
  /\ UNCHANGED <<rec, outbox, guarded, store, late, troubles>>

(* build_from_extractions, then load(): three steps without a fence.       *)
UpsertGraph(i) ==
  /\ i \in Indexers /\ At(i, "upsert")
  /\ Put(SetCopy("graph", Home[i], "holds"))
  /\ Goto(i, "save")
  /\ UNCHANGED <<rec, outbox, held, guarded, troubles>>

SaveMerged(i) ==
  /\ i \in Indexers /\ At(i, "save")
  /\ Put(Saved("graph", Home[i], InMemory("graph", Home[i])))
  /\ Goto(i, "reload")
  /\ UNCHANGED <<rec, outbox, held, guarded, troubles>>

(* Before it, _embed_entities writes the vectors.  If it fails, it only    *)
(* logs, and less is held.                                                 *)
ReloadMerged(i) ==
  /\ i \in Indexers /\ At(i, "reload")
  /\ held' = held \cup {"vectors"}
  /\ Put(SetCopy("graph", Home[i], Loaded("graph")))
  /\ Goto(i, "activate")
  /\ UNCHANGED <<rec, outbox, guarded, troubles>>

Activate(i) ==
  /\ i \in Indexers /\ At(i, "activate")
  /\ rec' = IF rec = "gone" THEN rec ELSE "indexed"
  /\ Goto(i, "idle")
  /\ UNCHANGED <<outbox, held, guarded, store, late, troubles>>

IndexerStep(i) ==
  \/ Begin(i) \/ PersistRows(i) \/ SetIndex(i) \/ Transition(i) \/ FlushIndex(i)
  \/ Extract(i) \/ UpsertGraph(i) \/ SaveMerged(i) \/ ReloadMerged(i) \/ Activate(i)

-----------------------------------------------------------------------------
(* The other recordings of the tenant, troubles and time.                  *)

(* The processes of the actors at work.                                    *)
Up(p) == \E a \in Actors : Home[a] = p /\ ~At(a, "off")

(* An attempt of another recording loads a store, or reloads the graph.    *)
Load(s, p) ==
  /\ Up(p)
  /\ s = "graph" \/ Copy(s, p) = "cold"
  /\ Put(SetCopy(s, p, Loaded(s)))
  /\ UNCHANGED <<rec, outbox, held, guarded, wk, troubles>>

(* An attempt of another recording saves the whole copy of its process;    *)
(* _warn_if_superseded only logs that the file had changed.                *)
Checkpoint(s, p) ==
  /\ Copy(s, p) # "cold"
  /\ Put(Saved(s, p, InMemory(s, p)))
  /\ UNCHANGED <<rec, outbox, held, guarded, wk, troubles>>

Trouble == troubles < MaxTroubles /\ troubles' = troubles + 1

(* A step raises.                                                          *)
Fail(a) ==
  /\ Busy(a) /\ Trouble
  /\ Goto(a, IF wk[a] \in {"graph", "save", "index", "cache", "audio", "artifacts"}
                /\ a \in Cleaners THEN "fail" ELSE "idle")
  /\ UNCHANGED <<rec, outbox, held, guarded, store, late>>

Crash(p) ==
  /\ Up(p) /\ Trouble
  /\ wk' = [a \in Actors |-> IF Home[a] = p /\ ~At(a, "off") THEN "idle" ELSE wk[a]]
  /\ store' = [s \in Stores |-> [store[s] EXCEPT !.mem[p] = "cold"]]
  /\ UNCHANGED <<rec, outbox, held, guarded, late>>

Working(c) == c \in Cleaners /\ wk[c] \notin {"off", "idle", "claim", "retry"}

(* Mutant: the countdown runs past zero.                                   *)
ExpirePastZero ==
  /\ outbox.status = "processing"
  /\ outbox' = [outbox EXCEPT !.ttl = outbox.ttl - 1]
  /\ UNCHANGED <<rec, held, guarded, store, wk, late, troubles>>

(* The lease of a dead claim runs out, or that of a cleanup that is slow.  *)
Expire ==
  /\ outbox.status = "processing" /\ outbox.ttl > 0
  /\ outbox' = [outbox EXCEPT !.ttl = outbox.ttl - 1]
  /\ IF Working(outbox.owner) THEN Trouble ELSE UNCHANGED troubles
  /\ UNCHANGED <<rec, held, guarded, store, wk, late>>

BackoffEnds ==
  /\ ~outbox.due
  /\ outbox' = [outbox EXCEPT !.due = TRUE]
  /\ UNCHANGED <<rec, held, guarded, store, wk, late, troubles>>

Next ==
  \/ \E c \in Cleaners : Stage(c) \/ Repeat(c) \/ CleanerStep(c)
  \/ \E s \in Sweepers : SweeperStep(s) \/ RollBackSweep(s)
  \/ \E i \in Indexers : IndexerStep(i)
  \/ \E s \in Stores, p \in Procs : Load(s, p) \/ Checkpoint(s, p)
  \/ \E a \in Actors : Fail(a)
  \/ \E p \in Procs : Crash(p)
  \/ Expire \/ BackoffEnds

Spec == Init /\ [][Next]_vars

(* The reconcilers poll every 30 seconds, a request that was accepted goes *)
(* on, and time passes.                                                    *)
FairSpec == /\ Spec
            /\ \A c \in Cleaners : WF_vars(CleanerStep(c))
            /\ WF_vars(Expire /\ ~Working(outbox.owner))
            /\ WF_vars(BackoffEnds)

-----------------------------------------------------------------------------
(* When the recording is gone and no erasure is owed any more, no row,     *)
(* file or answer of it is left, and the graph and the index do not name   *)
(* it, for DSAR and retention alike and whatever failed, crashed or was    *)
(* done twice (erasure_outbox.py, retention.py).  What may be left is what *)
(* the code never deletes (the entity vectors, and in the graph what it    *)
(* shares with others or what carried no id) and the id that a concurrent  *)
(* writer put back into a file after the erasure had begun (late).         *)
NamedLeftoversAreOwed ==
  rec = "gone" /\ outbox.status \notin Open =>
    /\ held \subseteq {"vectors"}
    /\ \A s \in Stores : store[s].file = "holds" => s \in late

(* "DB commit 前不得做外部删除": what is not in the database is deleted     *)
(* only once the intent is committed; the retention sweep alone deletes    *)
(* first and commits last (docs/audio-segmentation-merge-state-space.md).  *)
IntentComesFirst ==
  [][~(held \subseteq held') =>
       \/ rec' = "gone" \/ outbox.status # "none"
       \/ \E s \in Sweepers : Busy(s)]_vars

(* The erasure of a recording that is gone is finished once: no cleanup    *)
(* that was delayed, retried or repeated opens it again.                   *)
SucceededIsFinal ==
  [][rec = "gone" /\ outbox.status = "succeeded" => outbox'.status = "succeeded"]_vars

(* "失败保留重试状态": an erasure that is owed is finished in the end, as   *)
(* often as the cleanup fails, its lease runs out or its process dies.     *)
ErasureIsFinished ==
  (rec = "gone" /\ outbox.status \in Open) ~> (outbox.status = "succeeded")
=============================================================================
