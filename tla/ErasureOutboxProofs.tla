------------------------- MODULE ErasureOutboxProofs --------------------------
(***************************************************************************)
(* For any number of processes, requests, reconcilers, sweeps and indexing *)
(* attempts: the types of ErasureOutbox, and that what still names a       *)
(* recording is owed or was written late.                                  *)
(*                                                                         *)
(* The invariant follows an eraser from step to step.  What counts is only *)
(* an eraser whose work will be relied on: a cleaner that holds the claim  *)
(* of a recording that is gone, or a sweep of one that is not gone yet.    *)
(* What it has cleaned stays clean, or is late.                            *)
(***************************************************************************)
EXTENDS ErasureOutbox, TLAPS

-----------------------------------------------------------------------------
(* Types.                                                                  *)

(* What the actions need to know of store.                                 *)
LEMMA StoreTypes ==
  ASSUME TypeOK, NEW s \in Stores, NEW p \in Procs
  PROVE  /\ Copy(s, p) \in Copies
         /\ Loaded(s) \in Files /\ InMemory(s, p) \in Files
         /\ \A copy \in Files :
              /\ SetCopy(s, p, copy) \in [Stores -> StoreRows]
              /\ Saved(s, p, copy) \in [Stores -> StoreRows]
  <1>1. store \in [Stores -> StoreRows] /\ store[s] \in StoreRows
    BY DEF TypeOK
  <1>2. Copy(s, p) \in Copies /\ Loaded(s) \in Files
    BY <1>1 DEF StoreRows, Copy, Loaded
  <1>3. InMemory(s, p) \in Files
    BY <1>2 DEF InMemory, Copies
  <1>4. ASSUME NEW copy \in Files
        PROVE  /\ SetCopy(s, p, copy) \in [Stores -> StoreRows]
               /\ Saved(s, p, copy) \in [Stores -> StoreRows]
    <2>1. copy \in Copies
      BY DEF Copies
    <2>2. [store[s] EXCEPT !.mem[p] = copy] \in StoreRows
      BY <1>1, <2>1 DEF StoreRows
    <2>3. [file |-> copy, mem |-> [store[s].mem EXCEPT ![p] = copy]] \in StoreRows
      BY <1>1, <2>1 DEF StoreRows
    <2> QED
      BY <1>1, <2>2, <2>3 DEF SetCopy, Saved
  <1> QED
    BY <1>2, <1>3, <1>4

(* What forgetting leaves of the copy a process works on.                  *)
LEMMA StrippedIsForgotten ==
  ASSUME TypeOK, NEW s \in Stores, NEW p \in Procs
  PROVE  /\ Stripped(InMemory(s, p)) \in Files
         /\ Stripped(InMemory(s, p)) \in {"clean", "stripped"}
  BY DEF TypeOK, Stripped, InMemory, Copy, Loaded, Copies, Files, StoreRows

(* What is put into the stores has their type.                             *)
LEMMA PutTypes ==
  ASSUME TypeOK, NEW new \in [Stores -> StoreRows], Put(new)
  PROVE  /\ store' \in [Stores -> StoreRows]
         /\ late' \in SUBSET Stores
  BY DEF TypeOK, Put

(* A move to a phase keeps the phases typed.                               *)
LEMMA GotoTypes ==
  ASSUME TypeOK, NEW a \in Actors, NEW phase \in Phases, Goto(a, phase)
  PROVE  wk' \in [Actors -> Phases]
  BY DEF TypeOK, Goto

(* Every actor runs in a process.                                          *)
LEMMA HomeIsProc ==
  ASSUME NEW a \in Actors
  PROVE  Home[a] \in Procs
  BY ErasureConstants

(* A row without a claim is a row.                                         *)
LEMMA NoClaimTypes ==
  ASSUME NEW status \in Open \cup {"none", "succeeded"}
  PROVE  NoClaim(status) \in OutboxRows
  BY ErasureConstants DEF NoClaim, OutboxRows

(* What Claim and BackoffEnds make of a row is a row.                      *)
LEMMA RowTypes ==
  ASSUME NEW row \in OutboxRows
  PROVE  /\ [row EXCEPT !.due = FALSE] \in OutboxRows
         /\ \A c \in Cleaners :
              [row EXCEPT !.status = "processing", !.owner = c, !.ttl = LeaseTTL] \in OutboxRows
  <1>1. LeaseTTL \in 0..LeaseTTL
    BY ErasureConstants
  <1>2. [row EXCEPT !.due = FALSE] \in OutboxRows
    BY DEF OutboxRows
  <1>3. ASSUME NEW c \in Cleaners
        PROVE  [row EXCEPT !.status = "processing", !.owner = c, !.ttl = LeaseTTL] \in OutboxRows
    BY <1>1 DEF OutboxRows, Open
  <1> QED
    BY <1>2, <1>3

(* The initial state is typed.                                             *)
LEMMA TypeInit == Init => TypeOK
  <1> SUFFICES ASSUME Init PROVE TypeOK
    OBVIOUS
  <1>1. outbox \in OutboxRows
    BY NoClaimTypes DEF Init, Open
  <1>2. held \in SUBSET Holdings
    BY DEF Init, Holdings
  <1>3. store \in [Stores -> StoreRows]
    BY DEF Init, Copies, Files, StoreRows
  <1>4. wk \in [Actors -> Phases]
    BY DEF Init, Phases
  <1>5. troubles \in 0..MaxTroubles
    BY ErasureConstants DEF Init
  <1>6. rec \in {"unfinished", "indexed", "gone"} /\ guarded \in BOOLEAN /\ late \in SUBSET Stores
    BY DEF Init
  <1> QED
    BY <1>1, <1>2, <1>3, <1>4, <1>5, <1>6 DEF TypeOK

(* A request that is staged, repeated, found or claimed.                   *)
LEMMA TypeRequest ==
  ASSUME TypeOK, NEW c \in Cleaners, Stage(c) \/ Repeat(c) \/ Scan(c) \/ Claim(c)
  PROVE  TypeOK'
  <1> c \in Actors
    BY DEF Actors
  <1>1. CASE Stage(c)
    BY <1>1, GotoTypes, NoClaimTypes DEF TypeOK, Stage, Staged, Phases, Open
  <1>2. CASE Repeat(c)
    BY <1>2, GotoTypes DEF TypeOK, Repeat, Phases
  <1>3. CASE Scan(c)
    BY <1>3, GotoTypes DEF TypeOK, Scan, Phases
  <1>4. CASE Claim(c)
    <2>1. wk' \in [Actors -> Phases]
      BY <1>4, GotoTypes DEF Claim, Phases
    <2>2. outbox' \in OutboxRows
      <3>1. \/ outbox' = [outbox EXCEPT !.status = "processing", !.owner = c, !.ttl = LeaseTTL]
            \/ outbox' = outbox
        BY <1>4 DEF Claim
      <3>2. outbox \in OutboxRows
        BY DEF TypeOK
      <3>3. [outbox EXCEPT !.status = "processing", !.owner = c, !.ttl = LeaseTTL] \in OutboxRows
        BY <3>2, RowTypes
      <3> QED
        BY <3>1, <3>2, <3>3
    <2>3. UNCHANGED <<rec, held, guarded, store, late, troubles>>
      BY <1>4 DEF Claim
    <2> QED
      BY <2>1, <2>2, <2>3 DEF TypeOK
  <1> QED
    BY <1>1, <1>2, <1>3, <1>4

(* The steps that erase from a store.                                      *)
LEMMA TypeErase ==
  ASSUME TypeOK, NEW a \in Actors,
         \/ ForgetInGraph(a) \/ SaveGraph(a) \/ EraseIndex(a) \/ EraseCache(a)
         \/ EraseAudio(a) \/ EraseArtifacts(a)
  PROVE  TypeOK'
  <1> Home[a] \in Procs /\ "graph" \in Stores /\ "index" \in Stores
    BY HomeIsProc DEF Stores
  <1>1. CASE ForgetInGraph(a)
    BY <1>1, GotoTypes, PutTypes, StoreTypes, StrippedIsForgotten
       DEF TypeOK, ForgetInGraph, Phases
  <1>2. CASE SaveGraph(a)
    BY <1>2, GotoTypes, PutTypes, StoreTypes DEF TypeOK, SaveGraph, Phases
  <1>3. CASE EraseIndex(a)
    BY <1>3, GotoTypes, PutTypes, StoreTypes DEF TypeOK, EraseIndex, Phases, Copies, Files
  <1>4. CASE EraseCache(a)
    BY <1>4, GotoTypes DEF TypeOK, EraseCache, Phases
  <1>5. CASE EraseAudio(a)
    BY <1>5, GotoTypes DEF TypeOK, EraseAudio, AfterAudio, Phases
  <1>6. CASE EraseArtifacts(a)
    BY <1>6, GotoTypes DEF TypeOK, EraseArtifacts, Phases
  <1> QED
    BY <1>1, <1>2, <1>3, <1>4, <1>5, <1>6

(* What a cleanup records in the outbox.                                   *)
LEMMA TypeVerdict ==
  ASSUME TypeOK, NEW c \in Cleaners, MarkSucceeded(c) \/ MarkFailed(c)
  PROVE  TypeOK'
  <1> c \in Actors
    BY DEF Actors
  <1>1. CASE MarkSucceeded(c)
    BY <1>1, GotoTypes, NoClaimTypes DEF TypeOK, MarkSucceeded, Phases
  <1>2. CASE MarkFailed(c)
    <2>1. outbox' \in OutboxRows
      BY <1>2, RowTypes, NoClaimTypes DEF MarkFailed, TypeOK, Open
    <2>2. wk' \in [Actors -> Phases]
      BY <1>2, GotoTypes DEF MarkFailed, Phases
    <2> QED
      BY <1>2, <2>1, <2>2 DEF TypeOK, MarkFailed
  <1> QED
    BY <1>1, <1>2

(* The steps only the sweep takes.                                         *)
LEMMA TypeSweep ==
  ASSUME TypeOK, NEW s \in Sweepers, Sweep(s) \/ CommitSweep(s) \/ RollBackSweep(s)
  PROVE  TypeOK'
  <1> s \in Actors
    BY DEF Actors
  <1>1. CASE Sweep(s)
    BY <1>1, GotoTypes DEF TypeOK, Sweep, Phases
  <1>2. CASE CommitSweep(s)
    BY <1>2, GotoTypes DEF TypeOK, CommitSweep, Phases
  <1>3. CASE RollBackSweep(s)
    BY <1>3, GotoTypes, ErasureConstants DEF TypeOK, RollBackSweep, Phases
  <1> QED
    BY <1>1, <1>2, <1>3

(* The steps of an indexing attempt.                                       *)
LEMMA TypeIndexer ==
  ASSUME TypeOK, NEW i \in Indexers, IndexerStep(i)
  PROVE  TypeOK'
  <1> i \in Actors
    BY DEF Actors
  <1> Home[i] \in Procs /\ "graph" \in Stores /\ "index" \in Stores
    BY HomeIsProc DEF Stores
  <1>1. CASE Begin(i) \/ Transition(i) \/ Activate(i)
    <2>1. wk' \in [Actors -> Phases]
      BY <1>1, GotoTypes DEF Begin, Transition, Activate, Fence, Phases
    <2> QED
      BY <1>1, <2>1 DEF TypeOK, Begin, Transition, Activate
  <1>2. CASE PersistRows(i) \/ Extract(i)
    <2>1. wk' \in [Actors -> Phases]
      BY <1>2, GotoTypes DEF PersistRows, Extract, Fence, Phases
    <2> QED
      BY <1>2, <2>1 DEF TypeOK, PersistRows, Extract, Holdings
  <1>3. CASE SetIndex(i)
    BY <1>3, GotoTypes, PutTypes, StoreTypes DEF TypeOK, SetIndex, Phases, Copies, Files
  <1>4. CASE FlushIndex(i)
    BY <1>4, GotoTypes, PutTypes, StoreTypes DEF TypeOK, FlushIndex, Phases
  <1>5. CASE UpsertGraph(i)
    BY <1>5, GotoTypes, PutTypes, StoreTypes DEF TypeOK, UpsertGraph, Phases, Copies, Files
  <1>6. CASE SaveMerged(i)
    BY <1>6, GotoTypes, PutTypes, StoreTypes DEF TypeOK, SaveMerged, Phases
  <1>7. CASE ReloadMerged(i)
    BY <1>7, GotoTypes, PutTypes, StoreTypes DEF TypeOK, ReloadMerged, Phases, Holdings
  <1> QED
    BY <1>1, <1>2, <1>3, <1>4, <1>5, <1>6, <1>7 DEF IndexerStep

(* Other recordings, failures, crashes and time.                           *)
LEMMA TypeWorld ==
  ASSUME TypeOK,
         \/ \E s \in Stores, p \in Procs : Load(s, p) \/ Checkpoint(s, p)
         \/ \E a \in Actors : Fail(a)
         \/ \E p \in Procs : Crash(p)
         \/ Expire \/ BackoffEnds
  PROVE  TypeOK'
  <1>1. ASSUME NEW s \in Stores, NEW p \in Procs, Load(s, p)
        PROVE  TypeOK'
    BY <1>1, PutTypes, StoreTypes DEF TypeOK, Load
  <1>2. ASSUME NEW s \in Stores, NEW p \in Procs, Checkpoint(s, p)
        PROVE  TypeOK'
    BY <1>2, PutTypes, StoreTypes DEF TypeOK, Checkpoint
  <1>3. ASSUME NEW a \in Actors, Fail(a)
        PROVE  TypeOK'
    <2>1. wk' \in [Actors -> Phases]
      BY <1>3, GotoTypes DEF Fail, Phases
    <2>2. troubles' \in 0..MaxTroubles
      BY <1>3, ErasureConstants DEF Fail, Trouble, TypeOK
    <2> QED
      BY <1>3, <2>1, <2>2 DEF TypeOK, Fail
  <1>4. ASSUME NEW p \in Procs, Crash(p)
        PROVE  TypeOK'
    <2>1. wk' \in [Actors -> Phases]
      BY <1>4 DEF Crash, TypeOK, Phases
    <2>2. troubles' \in 0..MaxTroubles
      BY <1>4, ErasureConstants DEF Crash, Trouble, TypeOK
    <2>3. store' \in [Stores -> StoreRows]
      BY <1>4 DEF Crash, TypeOK, Copies, StoreRows
    <2> QED
      BY <1>4, <2>1, <2>2, <2>3 DEF TypeOK, Crash
  <1>5. CASE Expire
    <2>1. outbox' \in OutboxRows
      BY <1>5, ErasureConstants DEF Expire, TypeOK, OutboxRows
    <2>2. troubles' \in 0..MaxTroubles
      BY <1>5, ErasureConstants DEF Expire, Trouble, TypeOK
    <2> QED
      BY <1>5, <2>1, <2>2 DEF TypeOK, Expire
  <1>6. CASE BackoffEnds
    BY <1>6 DEF BackoffEnds, TypeOK, OutboxRows
  <1> QED
    BY <1>1, <1>2, <1>3, <1>4, <1>5, <1>6

(* Types are kept by every step.                                           *)
LEMMA TypeNext == TypeOK /\ [Next]_vars => TypeOK'
  <1> SUFFICES ASSUME TypeOK, [Next]_vars PROVE TypeOK'
    OBVIOUS
  <1> Cleaners \subseteq Actors /\ Sweepers \subseteq Actors /\ Indexers \subseteq Actors
    BY DEF Actors
  <1>1. ASSUME NEW c \in Cleaners, Stage(c) \/ Repeat(c) \/ CleanerStep(c)
        PROVE  TypeOK'
    BY <1>1, TypeRequest, TypeErase, TypeVerdict DEF CleanerStep
  <1>2. ASSUME NEW s \in Sweepers, SweeperStep(s) \/ RollBackSweep(s)
        PROVE  TypeOK'
    BY <1>2, TypeErase, TypeSweep DEF SweeperStep
  <1>3. ASSUME NEW i \in Indexers, IndexerStep(i)
        PROVE  TypeOK'
    BY <1>3, TypeIndexer
  <1>4. CASE UNCHANGED vars
    BY <1>4 DEF TypeOK, vars
  <1> QED
    BY <1>1, <1>2, <1>3, <1>4, TypeWorld DEF Next

(* Rows, claims, copies and actors are well typed in every reachable state *)
(* (models/erasure_outbox.py).                                             *)
THEOREM ErasureTypeCorrect == Spec => []TypeOK
  BY TypeInit, TypeNext, PTL DEF Spec

-----------------------------------------------------------------------------
(* What an eraser has achieved at each phase.                              *)

Clean(s) == store[s].file = "holds" => s \in late

(* The recording's id is taken off a copy.                                 *)
Forgotten(copy) == copy \in {"clean", "stripped"}

GraphDone == {"index", "cache", "audio", "artifacts", "succeed", "commit"}
IndexDone == GraphDone \ {"index"}
CacheDone == IndexDone \ {"cache"}
AudioDone == CacheDone \ {"audio"}

(* The eraser's work will be relied on.                                    *)
Counts(a) ==
  \/ a \in Sweepers /\ rec # "gone"
  \/ a \in Cleaners /\ rec = "gone" /\ HoldsClaim(a)

StoresDone(a) ==
  /\ At(a, "save") => Clean("graph") \/ Forgotten(Copy("graph", Home[a]))
  /\ wk[a] \in GraphDone => Clean("graph")
  /\ wk[a] \in IndexDone => Clean("index")

HeldDone(a) ==
  /\ wk[a] \in CacheDone => guarded /\ "cache" \notin held
  /\ wk[a] \in AudioDone => "audio" \notin held
  /\ wk[a] = "succeed" => "artifact" \notin held

NoRows == rec = "gone" => "rows" \notin held

Progress == \A a \in Cleaners \cup Sweepers : Counts(a) => StoresDone(a)
Removed == \A a \in Cleaners \cup Sweepers : HeldDone(a)
(* Who may be where.                                                       *)
Roles ==
  /\ \A c \in Cleaners : wk[c] # "commit"
  /\ \A s \in Sweepers : wk[s] \notin {"artifacts", "succeed"}

IInv == TypeOK /\ NoRows /\ Progress /\ Removed /\ Roles /\ NamedLeftoversAreOwed
(* What every change of a store respects.                                  *)
Kept ==
  \A s \in Stores :
    /\ Clean(s) => Clean(s)'
    /\ \A p \in Procs : Forgotten(Copy(s, p)) => Forgotten(Copy(s, p)') \/ Clean(s)'

-----------------------------------------------------------------------------
(* A change of a copy or of a file keeps what is clean, or it is late.     *)
LEMMA StoreKept ==
  ASSUME TypeOK, NEW s \in Stores, NEW p \in Procs, NEW copy \in Files,
         Put(SetCopy(s, p, copy)) \/ Put(Saved(s, p, copy))
  PROVE  Kept
  <1> DEFINE new == store'
  <1>1. /\ new \in [Stores -> StoreRows]
        /\ \A t \in Stores : Regained(t, new[t]) => t \in late'
        /\ late \subseteq late'
    <2>1. CASE Put(SetCopy(s, p, copy))
      <3>1. store' = SetCopy(s, p, copy)
        BY <2>1 DEF Put
      <3>2. late' = late \cup {t \in Stores : Regained(t, new[t])}
        BY <2>1 DEF Put
      <3> QED
        BY <3>1, <3>2, StoreTypes
    <2>2. CASE Put(Saved(s, p, copy))
      <3>1. store' = Saved(s, p, copy)
        BY <2>2 DEF Put
      <3>2. late' = late \cup {t \in Stores : Regained(t, new[t])}
        BY <2>2 DEF Put
      <3> QED
        BY <3>1, <3>2, StoreTypes
    <2> QED
      BY <2>1, <2>2
  <1>2. \A t \in Stores, q \in Procs :
          new[t].mem[q] = (IF t = s /\ q = p THEN copy ELSE store[t].mem[q])
    BY DEF Put, SetCopy, Saved, TypeOK, StoreRows
  <1>3. ASSUME NEW t \in Stores, Clean(t)
        PROVE  Clean(t)'
    BY <1>1, <1>3 DEF Clean, Regained, TypeOK
  <1>4. ASSUME NEW t \in Stores, NEW q \in Procs, Forgotten(Copy(t, q))
        PROVE  Forgotten(Copy(t, q)') \/ Clean(t)'
    <2>1. new[t].mem[q] # "cold"
      <3>1. copy # "cold"
        BY DEF Files
      <3>2. store[t].mem[q] # "cold"
        BY <1>4 DEF Copy, Forgotten
      <3> QED
        BY <1>2, <3>1, <3>2
    <2>2. new[t].mem[q] \in Copies
      BY <1>1 DEF StoreRows
    <2>3. CASE new[t].mem[q] = "holds"
      BY <1>1, <1>4, <2>3 DEF Regained, Clean, Copy, Forgotten
    <2> QED
      BY <2>1, <2>2, <2>3 DEF Copies, Files, Copy, Forgotten
  <1> QED
    BY <1>3, <1>4 DEF Kept

(* A step that leaves the stores alone.                                    *)
LEMMA SameKept ==
  ASSUME UNCHANGED <<store, late>>
  PROVE  Kept
  BY DEF Kept, Clean, Copy

(* An eraser that does not move keeps what it has achieved.                *)
LEMMA StoresKept ==
  ASSUME TypeOK, Kept, NEW a \in Cleaners \cup Sweepers, wk'[a] = wk[a], StoresDone(a)
  PROVE  StoresDone(a)'
  <1>1. Home[a] \in Procs /\ "graph" \in Stores /\ "index" \in Stores
    BY HomeIsProc DEF Actors, Stores
  <1> QED
    BY <1>1 DEF StoresDone, Kept, At

(* What an eraser has removed stays removed while nobody adds to it.       *)
LEMMA HeldKept ==
  ASSUME NEW a \in Cleaners \cup Sweepers, wk'[a] = wk[a], HeldDone(a),
         guarded => guarded', "audio" \in held' => "audio" \in held,
         "artifact" \in held' => "artifact" \in held,
         "cache" \in held' => "cache" \in held \/ ~guarded
  PROVE  HeldDone(a)'
  BY DEF HeldDone, CacheDone, AudioDone, IndexDone, GraphDone

(* A step of b moves nobody else.                                          *)
LEMMA OthersStay ==
  ASSUME TypeOK, NEW b \in Actors, NEW phase, Goto(b, phase), NEW a \in Actors, a # b
  PROVE  wk'[a] = wk[a]
  BY DEF Goto, TypeOK

(* A move changes the phase of one actor.                                  *)
LEMMA Moves ==
  ASSUME TypeOK, NEW b \in Actors, NEW phase, Goto(b, phase)
  PROVE  wk'[b] = phase
  BY DEF Goto, TypeOK

(* A step of an actor that reaches a phase where nothing is claimed yet,   *)
(* and that lets nobody else begin to count.                               *)
Fresh == {"off", "idle", "claim", "retry", "graph", "fail"}

(* An eraser that has just begun has cleaned nothing yet.                  *)
LEMMA FreshDone ==
  ASSUME NEW a, wk'[a] \in Fresh
  PROVE  StoresDone(a)' /\ HeldDone(a)'
  BY DEF Fresh, StoresDone, HeldDone, At, CacheDone, AudioDone, IndexDone, GraphDone

-----------------------------------------------------------------------------
(* The invariant holds at first, and every step keeps it.                  *)

(* The invariant holds at first.                                           *)
LEMMA IInvInit == Init => IInv
  <1> SUFFICES ASSUME Init PROVE IInv
    OBVIOUS
  <1>1. \A a \in Actors : wk[a] \in {"idle", "off"}
    BY DEF Init
  <1>2. Progress /\ Removed /\ Roles
    BY <1>1 DEF Progress, Removed, Roles, StoresDone, HeldDone, At, GraphDone, IndexDone,
                CacheDone, AudioDone, Actors
  <1>3. NoRows /\ NamedLeftoversAreOwed
    BY DEF Init, NoRows, NamedLeftoversAreOwed
  <1> QED
    BY <1>2, <1>3, TypeInit DEF IInv

(* The steps that write a store, and nothing else that is shared but the   *)
(* entity vectors.                                                         *)
LEMMA StoreStep ==
  ASSUME IInv, TypeOK', Kept, UNCHANGED <<rec, outbox, guarded>>,
         held' = held \/ held' = held \cup {"vectors"},
         NEW b \in Actors, NEW phase, Goto(b, phase),
         b \in Cleaners \cup Sweepers => phase \notin {"commit", "artifacts", "succeed"},
         b \in Cleaners \cup Sweepers /\ Counts(b) => StoresDone(b)',
         b \in Cleaners \cup Sweepers => HeldDone(b)'
  PROVE  IInv'
  <1> USE DEF IInv
  <1>1. \A a \in Cleaners \cup Sweepers : Counts(a)' => Counts(a)
    BY DEF Counts, HoldsClaim
  <1>2. Progress'
    BY <1>1, OthersStay, StoresKept DEF Progress, Actors
  <1>3. Removed'
    BY OthersStay, HeldKept DEF Removed, Actors
  <1>4. Roles'
    BY OthersStay, Moves DEF Roles, Actors
  <1>5. NoRows' /\ NamedLeftoversAreOwed'
    BY DEF NoRows, NamedLeftoversAreOwed, Kept, Clean
  <1> QED
    BY <1>2, <1>3, <1>4, <1>5

(* Erasing from the graph and the index keeps the invariant.               *)
LEMMA KeepErase ==
  ASSUME IInv, TypeOK', NEW a \in Cleaners \cup Sweepers,
         ForgetInGraph(a) \/ SaveGraph(a) \/ EraseIndex(a)
  PROVE  IInv'
  <1> a \in Actors /\ Home[a] \in Procs /\ "graph" \in Stores /\ "index" \in Stores
    BY HomeIsProc DEF Actors, Stores
  <1> TypeOK
    BY DEF IInv
  <1>1. CASE ForgetInGraph(a)
    <2>1. Kept
      BY <1>1, StoreKept, StrippedIsForgotten DEF ForgetInGraph
    <2>2. wk'[a] = "save"
      BY <1>1, Moves DEF ForgetInGraph
    <2>3. Forgotten(Copy("graph", Home[a])')
      <3>1. Copy("graph", Home[a])' = Stripped(InMemory("graph", Home[a]))
        BY <1>1 DEF ForgetInGraph, Put, SetCopy, Copy, TypeOK, StoreRows
      <3> QED
        BY <3>1, StrippedIsForgotten DEF Forgotten
    <2>4. StoresDone(a)' /\ HeldDone(a)'
      BY <2>2, <2>3 DEF StoresDone, HeldDone, GraphDone, IndexDone, CacheDone, AudioDone
    <2> QED
      BY <1>1, <2>1, <2>4, StoreStep DEF ForgetInGraph
  <1>2. CASE SaveGraph(a)
    <2>1. Kept
      BY <1>2, StoreKept, StoreTypes DEF SaveGraph
    <2>2. wk'[a] = "index"
      BY <1>2, Moves DEF SaveGraph
    <2>3. ASSUME Counts(a)
          PROVE  Clean("graph")'
      <3>1. Clean("graph") \/ Forgotten(Copy("graph", Home[a]))
        BY <1>2, <2>3 DEF IInv, Progress, StoresDone, SaveGraph
      <3>2. CASE Clean("graph")
        BY <3>2, <2>1 DEF Kept
      <3>3. CASE Forgotten(Copy("graph", Home[a]))
        <4>1. InMemory("graph", Home[a]) # "holds"
          BY <3>3 DEF Forgotten, InMemory
        <4>2. store'["graph"].file = InMemory("graph", Home[a])
          BY <1>2 DEF SaveGraph, Put, Saved, TypeOK
        <4> QED
          BY <4>1, <4>2 DEF Clean
      <3> QED
        BY <3>1, <3>2, <3>3
    <2>4. Counts(a) => StoresDone(a)'
      BY <2>2, <2>3 DEF StoresDone, GraphDone, IndexDone, At
    <2>5. HeldDone(a)'
      BY <2>2 DEF HeldDone, GraphDone, IndexDone, CacheDone, AudioDone
    <2> QED
      BY <1>2, <2>1, <2>4, <2>5, StoreStep DEF SaveGraph
  <1>3. CASE EraseIndex(a)
    <2>1. Kept
      BY <1>3, StoreKept DEF EraseIndex, Copies, Files
    <2>2. wk'[a] = "cache"
      BY <1>3, Moves DEF EraseIndex
    <2>3. Clean("index")'
      BY <1>3 DEF EraseIndex, Put, Saved, Clean, TypeOK, StoreRows
    <2>4. Counts(a) => Clean("graph")'
      BY <1>3, <2>1 DEF IInv, Progress, StoresDone, EraseIndex, At, GraphDone, Kept
    <2>5. Counts(a) => StoresDone(a)'
      BY <2>2, <2>3, <2>4 DEF StoresDone, At
    <2>6. HeldDone(a)'
      BY <2>2 DEF HeldDone, GraphDone, IndexDone, CacheDone, AudioDone
    <2> QED
      BY <1>3, <2>1, <2>5, <2>6, StoreStep DEF EraseIndex
  <1> QED
    BY <1>1, <1>2, <1>3
(* The later steps of an eraser remove what is held, and nothing comes     *)
(* back.                                                                   *)
LEMMA KeepRemove ==
  ASSUME IInv, TypeOK', NEW a \in Cleaners \cup Sweepers,
         EraseCache(a) \/ EraseAudio(a) \/ EraseArtifacts(a)
  PROVE  IInv'
  <1> a \in Actors
    BY DEF Actors
  <1> TypeOK
    BY DEF IInv
  <1>1. /\ UNCHANGED <<rec, outbox, store, late>>
        /\ held' \subseteq held /\ (guarded => guarded')
    BY DEF EraseCache, EraseAudio, EraseArtifacts
  <1>2. Kept
    BY <1>1, SameKept
  <1>3. PICK phase \in {"audio", "artifacts", "commit", "succeed"} :
          /\ Goto(a, phase)
          /\ phase = "commit" => a \notin Cleaners
          /\ phase \in {"artifacts", "succeed"} => a \notin Sweepers
    BY ErasureConstants DEF EraseCache, EraseAudio, EraseArtifacts, AfterAudio
  <1>4. wk'[a] = phase
    BY <1>3, Moves
  <1>5. HeldDone(a)'
    <2>1. CASE EraseCache(a)
      <3>1. wk'[a] = "audio"
        BY <2>1, Moves DEF EraseCache
      <3> QED
        BY <2>1, <3>1 DEF EraseCache, HeldDone, GraphDone, IndexDone, CacheDone, AudioDone
    <2>2. CASE EraseAudio(a)
      <3>1. wk'[a] \in {"artifacts", "commit"}
        BY <2>2, Moves DEF EraseAudio, AfterAudio
      <3>2. guarded /\ "cache" \notin held
        BY <2>2 DEF IInv, Removed, HeldDone, EraseAudio, At, GraphDone, IndexDone, CacheDone
      <3> QED
        BY <2>2, <3>1, <3>2 DEF EraseAudio, HeldDone
    <2>3. CASE EraseArtifacts(a)
      <3>1. guarded /\ "cache" \notin held /\ "audio" \notin held
        BY <2>3 DEF IInv, Removed, HeldDone, EraseArtifacts, At, GraphDone, IndexDone,
                    CacheDone, AudioDone
      <3> QED
        BY <2>3, <3>1 DEF EraseArtifacts, HeldDone
    <2> QED
      BY <2>1, <2>2, <2>3
  <1>6. Counts(a) => StoresDone(a)'
    <2>1. wk[a] \in {"cache", "audio", "artifacts"}
      BY DEF EraseCache, EraseAudio, EraseArtifacts, At
    <2>2. Counts(a) => Clean("graph") /\ Clean("index")
      BY <2>1 DEF IInv, Progress, StoresDone, GraphDone, IndexDone
    <2> QED
      BY <1>1, <1>3, <1>4, <2>2 DEF StoresDone, Clean, At
  <1>7. Progress'
    <2>1. \A b \in Cleaners \cup Sweepers : Counts(b)' => Counts(b)
      BY <1>1 DEF Counts, HoldsClaim
    <2> QED
      BY <1>2, <1>3, <1>6, <2>1, OthersStay, StoresKept DEF Progress, Actors, IInv
  <1>8. Removed'
    BY <1>1, <1>3, <1>5, OthersStay, HeldKept DEF Removed, Actors, IInv
  <1>9. Roles'
    BY <1>3, <1>4, OthersStay DEF Roles, Actors, IInv
  <1>10. NoRows' /\ NamedLeftoversAreOwed'
    BY <1>1 DEF IInv, NoRows, NamedLeftoversAreOwed
  <1> QED
    BY <1>7, <1>8, <1>9, <1>10 DEF IInv

(* A step that takes a cleaner to a fresh phase and changes at most the    *)
(* claim.                                                                  *)
LEMMA KeepFresh ==
  ASSUME IInv, TypeOK', UNCHANGED <<rec, held, guarded, store, late>>,
         NEW b \in Actors, NEW phase \in Fresh, Goto(b, phase),
         \A a \in Cleaners \ {b} : HoldsClaim(a)' => HoldsClaim(a),
         NamedLeftoversAreOwed'
  PROVE  IInv'
  <1> TypeOK
    BY DEF IInv
  <1>1. Kept
    BY SameKept
  <1>2. wk'[b] = phase
    BY Moves
  <1>3. Progress'
    <2>1. \A a \in (Cleaners \cup Sweepers) \ {b} : Counts(a)' => Counts(a)
      BY DEF Counts
    <2>2. StoresDone(b)'
      BY <1>2, FreshDone
    <2> QED
      BY <1>1, <2>1, <2>2, OthersStay, StoresKept DEF Progress, Actors, IInv
  <1>4. Removed'
    BY <1>2, FreshDone, OthersStay, HeldKept DEF Removed, Actors, IInv
  <1>5. Roles'
    BY <1>2, OthersStay DEF Roles, Actors, IInv, Fresh
  <1> QED
    BY <1>3, <1>4, <1>5 DEF IInv, NoRows

(* So do the steps of a request before it erases.                          *)
LEMMA KeepRequest ==
  ASSUME IInv, TypeOK', NEW c \in Cleaners, Repeat(c) \/ Scan(c) \/ Claim(c)
  PROVE  IInv'
  <1> c \in Actors
    BY DEF Actors
  <1>1. CASE Repeat(c) \/ Scan(c)
    <2>1. UNCHANGED <<rec, outbox, held, guarded, store, late>>
      BY <1>1 DEF Repeat, Scan
    <2>2. PICK phase \in Fresh : Goto(c, phase)
      BY <1>1 DEF Repeat, Scan, Fresh
    <2> QED
      BY <2>1, <2>2, KeepFresh DEF HoldsClaim, NamedLeftoversAreOwed, IInv
  <1>2. CASE Claim(c)
    <2>1. UNCHANGED <<rec, held, guarded, store, late>>
      BY <1>2 DEF Claim
    <2>2. PICK phase \in Fresh : Goto(c, phase)
      BY <1>2 DEF Claim, Fresh
    <2>3. \/ outbox' = [outbox EXCEPT !.status = "processing", !.owner = c, !.ttl = LeaseTTL]
          \/ outbox' = outbox
      BY <1>2 DEF Claim
    <2>4. outbox \in OutboxRows
      BY DEF IInv, TypeOK
    <2>5. CASE outbox' = outbox
      BY <2>1, <2>2, <2>5, KeepFresh DEF HoldsClaim, NamedLeftoversAreOwed, IInv
    <2>6. CASE outbox' = [outbox EXCEPT !.status = "processing", !.owner = c, !.ttl = LeaseTTL]
      <3>1. outbox'.owner = c /\ outbox'.status = "processing"
        BY <2>4, <2>6 DEF OutboxRows
      <3>2. NamedLeftoversAreOwed'
        BY <3>1 DEF NamedLeftoversAreOwed, Open
      <3>3. \A a \in Cleaners \ {c} : ~HoldsClaim(a)'
        BY <3>1 DEF HoldsClaim
      <3> QED
        BY <2>1, <2>2, <3>2, <3>3, KeepFresh
    <2> QED
      BY <2>3, <2>5, <2>6
  <1> QED
    BY <1>1, <1>2

(* So does the staging transaction.                                        *)
LEMMA KeepStage ==
  ASSUME IInv, TypeOK', NEW c \in Cleaners, Stage(c)
  PROVE  IInv'
  <1> c \in Actors /\ TypeOK
    BY DEF Actors, IInv
  <1>1. wk'[c] = "claim"
    BY Moves DEF Stage
  <1>2. rec' = "gone" /\ outbox' = NoClaim("pending") /\ guarded' /\ held' = held \ {"rows"}
    BY DEF Stage, Staged
  <1>3. Progress'
    <2>1. \A a \in Cleaners \cup Sweepers : ~Counts(a)'
      BY <1>2, ErasureConstants DEF Counts, HoldsClaim, NoClaim
    <2> QED
      BY <2>1 DEF Progress
  <1>4. Removed'
    <2>1. HeldDone(c)'
      BY <1>1, FreshDone DEF Fresh
    <2> QED
      BY <1>2, <2>1, OthersStay, HeldKept DEF Removed, Actors, IInv, Stage
  <1>5. Roles'
    BY <1>1, OthersStay DEF Roles, Actors, IInv, Stage
  <1>6. NoRows' /\ NamedLeftoversAreOwed'
    BY <1>2 DEF NoRows, NamedLeftoversAreOwed, NoClaim, Open
  <1> QED
    BY <1>3, <1>4, <1>5, <1>6 DEF IInv

(* The verdict of the claim that counts: everything is done.               *)
LEMMA KeepVerdict ==
  ASSUME IInv, TypeOK', NEW c \in Cleaners, MarkSucceeded(c) \/ MarkFailed(c)
  PROVE  IInv'
  <1> c \in Actors /\ TypeOK
    BY DEF Actors, IInv
  <1>1. UNCHANGED <<rec, held, guarded, store, late>> /\ Goto(c, "idle") /\ "idle" \in Fresh
    BY DEF MarkSucceeded, MarkFailed, Fresh
  <1>2. CASE ~HoldsClaim(c)
    <2>1. outbox' = outbox
      BY <1>2 DEF MarkSucceeded, MarkFailed
    <2> QED
      BY <1>1, <2>1, KeepFresh DEF HoldsClaim, NamedLeftoversAreOwed, IInv
  <1>3. CASE HoldsClaim(c) /\ MarkSucceeded(c)
    <2>1. outbox'.status = "succeeded"
      BY <1>3 DEF MarkSucceeded, NoClaim
    <2>2. ASSUME rec = "gone"
          PROVE  held \subseteq {"vectors"} /\ \A s \in Stores : Clean(s)
      <3>1. Counts(c)
        BY <1>3, <2>2 DEF Counts
      <3>2. wk[c] = "succeed"
        BY <1>3 DEF MarkSucceeded, At
      <3>3. Clean("graph") /\ Clean("index")
        BY <3>1, <3>2 DEF IInv, Progress, StoresDone, GraphDone, IndexDone
      <3>4. "cache" \notin held /\ "audio" \notin held /\ "artifact" \notin held
        BY <3>2 DEF IInv, Removed, HeldDone, GraphDone, IndexDone, CacheDone, AudioDone
      <3>5. "rows" \notin held
        BY <2>2 DEF IInv, NoRows
      <3> QED
        BY <3>3, <3>4, <3>5 DEF TypeOK, Holdings, Stores
    <2>3. NamedLeftoversAreOwed'
      BY <1>1, <2>2 DEF NamedLeftoversAreOwed, Clean
    <2>4. \A a \in Cleaners : ~HoldsClaim(a)'
      BY <2>1 DEF HoldsClaim
    <2> QED
      BY <1>1, <2>3, <2>4, KeepFresh
  <1>4. CASE HoldsClaim(c) /\ MarkFailed(c)
    <2>1. outbox'.status = "failed"
      BY <1>4 DEF MarkFailed, NoClaim
    <2> QED
      BY <1>1, <2>1, KeepFresh DEF HoldsClaim, NamedLeftoversAreOwed, Open
  <1> QED
    BY <1>2, <1>3, <1>4
(* A sweep that starts may forget what was late only if no other runs; the *)
(* one that commits has cleaned everything.                                *)
LEMMA KeepSweep ==
  ASSUME IInv, TypeOK', NEW s \in Sweepers, Sweep(s) \/ CommitSweep(s) \/ RollBackSweep(s)
  PROVE  IInv'
  <1> s \in Actors /\ s \notin Cleaners /\ TypeOK
    BY ErasureConstants DEF Actors, IInv
  <1>1. CASE Sweep(s)
    <2>1. /\ UNCHANGED <<rec, outbox, held, guarded, store>> /\ Goto(s, "graph") /\ rec = "indexed"
          /\ (late' = late \/ \A t \in Sweepers : wk[t] \in {"off", "idle"})
      BY <1>1 DEF Sweep, Busy
    <2>2. wk'[s] = "graph"
      BY <2>1, Moves
    <2>3. Progress'
      <3>1. SUFFICES ASSUME NEW a \in Cleaners \cup Sweepers, Counts(a)'
                     PROVE  StoresDone(a)'
        BY DEF Progress
      <3>2. a \in Sweepers /\ Counts(a)
        BY <2>1, <3>1 DEF Counts
      <3>3. CASE a = s
        BY <2>2, <3>3, FreshDone DEF Fresh
      <3>4. CASE a # s /\ late' = late
        BY <2>1, <3>2, <3>4, SameKept, StoresKept, OthersStay DEF IInv, Progress, Actors
      <3>5. CASE a # s /\ late' # late
        <4>1. wk'[a] \in {"off", "idle"}
          BY <2>1, <3>2, <3>5, OthersStay DEF Actors
        <4> QED
          BY <4>1, FreshDone DEF Fresh
      <3> QED
        BY <3>3, <3>4, <3>5
    <2>4. Removed'
      BY <2>1, <2>2, FreshDone, OthersStay, HeldKept DEF Removed, Actors, IInv, Fresh
    <2>5. Roles'
      BY <2>1, <2>2, OthersStay DEF Roles, Actors, IInv
    <2> QED
      BY <2>1, <2>3, <2>4, <2>5 DEF IInv, NoRows, NamedLeftoversAreOwed
  <1>2. CASE CommitSweep(s)
    <2>1. /\ UNCHANGED <<outbox, guarded, store, late>> /\ Goto(s, "idle")
          /\ rec' = "gone" /\ held' = held \ {"rows", "artifact"} /\ wk[s] = "commit"
      BY <1>2 DEF CommitSweep, At
    <2>2. wk'[s] = "idle"
      BY <2>1, Moves
    <2>3. rec # "gone" => Clean("graph") /\ Clean("index")
      BY <2>1 DEF IInv, Progress, Counts, StoresDone, GraphDone, IndexDone
    <2>4. Kept
      BY <2>1, SameKept
    <2>5. Progress'
      <3>1. SUFFICES ASSUME NEW a \in Cleaners, HoldsClaim(a)
                     PROVE  StoresDone(a)'
        BY <2>1 DEF Progress, Counts, HoldsClaim
      <3>2. wk'[a] = wk[a]
        BY <2>1, OthersStay DEF Actors
      <3>3. StoresDone(a)
        <4>1. CASE rec = "gone"
          BY <3>1, <4>1 DEF IInv, Progress, Counts
        <4>2. CASE rec # "gone"
          BY <2>3, <4>2 DEF StoresDone
        <4> QED
          BY <4>1, <4>2
      <3> QED
        BY <2>4, <3>2, <3>3, StoresKept
    <2>6. Removed'
      BY <2>1, <2>2, FreshDone, OthersStay, HeldKept DEF Removed, Actors, IInv, Fresh
    <2>7. Roles'
      BY <2>1, <2>2, OthersStay DEF Roles, Actors, IInv
    <2>8. NamedLeftoversAreOwed'
      <3>1. CASE rec = "gone"
        BY <2>1, <3>1 DEF NamedLeftoversAreOwed, IInv
      <3>2. CASE rec # "gone"
        <4>1. "cache" \notin held /\ "audio" \notin held
          BY <2>1 DEF IInv, Removed, HeldDone, GraphDone, IndexDone, CacheDone, AudioDone
        <4>2. held' \subseteq {"vectors"}
          BY <2>1, <4>1 DEF TypeOK, Holdings
        <4> QED
          BY <2>1, <2>3, <3>2, <4>2 DEF NamedLeftoversAreOwed, Clean, Stores
      <3> QED
        BY <3>1, <3>2
    <2> QED
      BY <2>1, <2>5, <2>6, <2>7, <2>8 DEF IInv, NoRows
  <1>3. CASE RollBackSweep(s)
    <2>1. /\ UNCHANGED <<rec, outbox, guarded, store, late>> /\ Goto(s, "idle")
          /\ held' = held \ {"artifact"}
      BY <1>3 DEF RollBackSweep
    <2>2. wk'[s] = "idle"
      BY <2>1, Moves
    <2>3. Progress'
      <3>1. \A a \in Cleaners \cup Sweepers : Counts(a)' => Counts(a)
        BY <2>1 DEF Counts, HoldsClaim
      <3> QED
        BY <2>1, <2>2, <3>1, FreshDone, SameKept, OthersStay, StoresKept
           DEF Progress, Actors, IInv, Fresh
    <2>4. Removed'
      BY <2>1, <2>2, FreshDone, OthersStay, HeldKept DEF Removed, Actors, IInv, Fresh
    <2>5. Roles'
      BY <2>1, <2>2, OthersStay DEF Roles, Actors, IInv
    <2> QED
      BY <2>1, <2>3, <2>4, <2>5 DEF IInv, NoRows, NamedLeftoversAreOwed
  <1> QED
    BY <1>1, <1>2, <1>3

(* An attempt writes rows only of a recording that is there, and nothing   *)
(* to the cache behind the guard; what it writes to the stores is late.    *)
LEMMA KeepIndexer ==
  ASSUME IInv, TypeOK', NEW i \in Indexers, IndexerStep(i)
  PROVE  IInv'
  <1> i \in Actors /\ i \notin Cleaners \cup Sweepers /\ TypeOK
    BY ErasureConstants DEF Actors, IInv
  <1> Home[i] \in Procs /\ "graph" \in Stores /\ "index" \in Stores
    BY HomeIsProc DEF Stores
  <1>1. CASE Begin(i) \/ PersistRows(i) \/ Transition(i) \/ Extract(i) \/ Activate(i)
    <2>1. /\ UNCHANGED <<outbox, guarded, store, late>>
          /\ rec' = "gone" <=> rec = "gone"
          /\ held' \subseteq held \cup {"rows", "cache"}
          /\ "rows" \in held' => "rows" \in held \/ rec # "gone"
          /\ "cache" \in held' => "cache" \in held \/ (~guarded /\ "rows" \in held)
      BY <1>1 DEF Begin, PersistRows, Transition, Extract, Activate
    <2>2. \E phase : Goto(i, phase)
      BY <1>1 DEF Begin, PersistRows, Transition, Extract, Activate, Fence
    <2>3. \A a \in Cleaners \cup Sweepers : wk'[a] = wk[a]
      BY <2>2, OthersStay DEF Actors
    <2>4. Progress'
      <3>1. \A a \in Cleaners \cup Sweepers : Counts(a)' => Counts(a)
        BY <2>1 DEF Counts, HoldsClaim
      <3> QED
        BY <2>1, <2>3, <3>1, SameKept, StoresKept DEF Progress, IInv
    <2>5. Removed'
      BY <2>1, <2>3, HeldKept DEF Removed, IInv
    <2>6. Roles'
      BY <2>3 DEF Roles, IInv
    <2>7. NoRows' /\ NamedLeftoversAreOwed'
      BY <2>1 DEF NoRows, NamedLeftoversAreOwed, IInv
    <2> QED
      BY <2>4, <2>5, <2>6, <2>7 DEF IInv
  <1>2. CASE SetIndex(i) \/ FlushIndex(i) \/ UpsertGraph(i) \/ SaveMerged(i) \/ ReloadMerged(i)
    <2>1. Kept
      BY <1>2, StoreKept, StoreTypes
         DEF SetIndex, FlushIndex, UpsertGraph, SaveMerged, ReloadMerged, Copies, Files, Loaded,
             TypeOK, StoreRows
    <2>2. UNCHANGED <<rec, outbox, guarded>> /\ (held' = held \/ held' = held \cup {"vectors"})
      BY <1>2 DEF SetIndex, FlushIndex, UpsertGraph, SaveMerged, ReloadMerged
    <2>3. \E phase : Goto(i, phase)
      BY <1>2 DEF SetIndex, FlushIndex, UpsertGraph, SaveMerged, ReloadMerged
    <2> QED
      BY <2>1, <2>2, <2>3, StoreStep
  <1> QED
    BY <1>1, <1>2 DEF IndexerStep

(* So do other recordings, failures, crashes and time.                     *)
LEMMA KeepWorld ==
  ASSUME IInv, TypeOK',
         \/ \E s \in Stores, p \in Procs : Load(s, p) \/ Checkpoint(s, p)
         \/ \E a \in Actors : Fail(a)
         \/ \E p \in Procs : Crash(p)
         \/ Expire \/ BackoffEnds
  PROVE  IInv'
  <1> TypeOK
    BY DEF IInv
  <1>1. ASSUME NEW s \in Stores, NEW p \in Procs, Load(s, p) \/ Checkpoint(s, p)
        PROVE  IInv'
    <2>1. Kept
      BY <1>1, StoreKept, StoreTypes
         DEF Load, Checkpoint, Loaded, Copies, Files, TypeOK, StoreRows
    <2>2. UNCHANGED <<rec, outbox, held, guarded, wk>>
      BY <1>1 DEF Load, Checkpoint
    <2>3. Progress'
      BY <2>1, <2>2, StoresKept DEF Progress, IInv, Counts, HoldsClaim
    <2>4. NoRows' /\ Removed' /\ Roles' /\ NamedLeftoversAreOwed'
      BY <2>1, <2>2 DEF IInv, NoRows, Removed, HeldDone, Roles, NamedLeftoversAreOwed, Kept, Clean
    <2> QED
      BY <2>3, <2>4 DEF IInv
  <1>2. ASSUME NEW a \in Actors, Fail(a)
        PROVE  IInv'
    <2>1. UNCHANGED <<rec, outbox, held, guarded, store, late>>
      BY <1>2 DEF Fail
    <2>2. PICK phase \in Fresh : Goto(a, phase)
      BY <1>2 DEF Fail, Fresh
    <2> QED
      BY <2>1, <2>2, KeepFresh DEF HoldsClaim, NamedLeftoversAreOwed, IInv
  <1>3. ASSUME NEW p \in Procs, Crash(p)
        PROVE  IInv'
    <2>1. UNCHANGED <<rec, outbox, held, guarded, late>>
      BY <1>3 DEF Crash
    <2>2. \A a \in Actors : \/ wk'[a] \in Fresh
                            \/ wk'[a] = wk[a] /\ Home[a] # p
      BY <1>3 DEF Crash, TypeOK, At, Fresh
    <2>3. \A s \in Stores : store'[s].file = store[s].file
      BY <1>3 DEF Crash, TypeOK, StoreRows
    <2>4. \A s \in Stores, q \in Procs : q # p => store'[s].mem[q] = store[s].mem[q]
      BY <1>3 DEF Crash, TypeOK, StoreRows
    <2>5. Progress'
      <3>1. SUFFICES ASSUME NEW a \in Cleaners \cup Sweepers, Counts(a)'
                     PROVE  StoresDone(a)'
        BY DEF Progress
      <3>2. a \in Actors /\ Home[a] \in Procs /\ "graph" \in Stores /\ "index" \in Stores
        BY HomeIsProc DEF Actors, Stores
      <3>3. CASE wk'[a] \in Fresh
        BY <3>3, FreshDone
      <3>4. CASE wk'[a] = wk[a] /\ Home[a] # p
        <4>1. StoresDone(a)
          BY <2>1, <3>1 DEF IInv, Progress, Counts, HoldsClaim
        <4>2. Copy("graph", Home[a])' = Copy("graph", Home[a])
          BY <2>4, <3>2, <3>4 DEF Copy
        <4> QED
          BY <2>1, <2>3, <3>2, <3>4, <4>1, <4>2 DEF StoresDone, Clean, At
      <3> QED
        BY <2>2, <3>2, <3>3, <3>4
    <2>6. Removed'
      BY <2>1, <2>2, FreshDone DEF Removed, HeldDone, IInv, Actors
    <2>7. Roles'
      BY <2>2 DEF Roles, IInv, Actors, Fresh
    <2>8. NoRows' /\ NamedLeftoversAreOwed'
      BY <2>1, <2>3 DEF NoRows, NamedLeftoversAreOwed, IInv
    <2> QED
      BY <2>5, <2>6, <2>7, <2>8 DEF IInv
  <1>4. CASE Expire \/ BackoffEnds
    <2>1. UNCHANGED <<rec, held, guarded, store, wk, late>>
      BY <1>4 DEF Expire, BackoffEnds
    <2>2. outbox'.status = outbox.status /\ outbox'.owner = outbox.owner
      BY <1>4 DEF Expire, BackoffEnds, TypeOK, OutboxRows
    <2>3. Progress'
      BY <2>1, <2>2 DEF IInv, Progress, Counts, HoldsClaim, StoresDone, Clean, Copy, At
    <2> QED
      BY <2>1, <2>2, <2>3 DEF IInv, NoRows, Removed, HeldDone, Roles, NamedLeftoversAreOwed
  <1> QED
    BY <1>1, <1>2, <1>3, <1>4

(* The invariant is kept by every step.                                    *)
LEMMA IInvNext == IInv /\ [Next]_vars => IInv'
  <1> SUFFICES ASSUME IInv, [Next]_vars PROVE IInv'
    OBVIOUS
  <1>1. TypeOK'
    BY TypeNext DEF IInv
  <1>2. ASSUME NEW c \in Cleaners, Stage(c) \/ Repeat(c) \/ CleanerStep(c)
        PROVE  IInv'
    BY <1>1, <1>2, KeepStage, KeepRequest, KeepErase, KeepRemove, KeepVerdict DEF CleanerStep
  <1>3. ASSUME NEW s \in Sweepers, SweeperStep(s) \/ RollBackSweep(s)
        PROVE  IInv'
    BY <1>1, <1>3, KeepErase, KeepRemove, KeepSweep DEF SweeperStep
  <1>4. ASSUME NEW i \in Indexers, IndexerStep(i)
        PROVE  IInv'
    BY <1>1, <1>4, KeepIndexer
  <1>5. CASE UNCHANGED vars
    BY <1>5 DEF vars, IInv, TypeOK, NoRows, Progress, Removed, Roles, NamedLeftoversAreOwed, Counts,
                HoldsClaim, StoresDone, HeldDone, Clean, Copy, At
  <1> QED
    BY <1>1, <1>2, <1>3, <1>4, <1>5, KeepWorld DEF Next

(* What still names an erased recording is owed or was written late, and   *)
(* nothing else is left of it but what the code never deletes: for DSAR    *)
(* and retention, after any failures, crashes and double cleanups          *)
(* (erasure_outbox.py, retention.py).                                      *)
THEOREM NothingNamedIsForgotten == Spec => []NamedLeftoversAreOwed
  <1>1. IInv => NamedLeftoversAreOwed
    BY DEF IInv
  <1> QED
    BY <1>1, IInvInit, IInvNext, PTL DEF Spec

-----------------------------------------------------------------------------
(* Only Claim, the verdicts and the staging write the row's status.        *)
LEMMA SucceededStays ==
  ASSUME TypeOK, [Next]_vars, rec = "gone", outbox.status = "succeeded"
  PROVE  outbox'.status = "succeeded"
  <1>1. ASSUME NEW c \in Cleaners, Stage(c) \/ Repeat(c) \/ CleanerStep(c)
        PROVE  outbox'.status = "succeeded"
    <2>1. ~Stage(c)
      BY DEF Stage
    <2>2. ~HoldsClaim(c) /\ ~Claimable(c)
      BY DEF HoldsClaim, Claimable, Open
    <2> QED
      BY <1>1, <2>1, <2>2
         DEF CleanerStep, Repeat, Scan, Claim, ForgetInGraph, SaveGraph, EraseIndex, EraseCache,
             EraseAudio, EraseArtifacts, MarkSucceeded, MarkFailed
  <1>2. ASSUME NEW s \in Sweepers, SweeperStep(s) \/ RollBackSweep(s)
        PROVE  outbox'.status = "succeeded"
    BY <1>2 DEF SweeperStep, Sweep, ForgetInGraph, SaveGraph, EraseIndex, EraseCache, EraseAudio,
                CommitSweep, RollBackSweep
  <1>3. ASSUME NEW i \in Indexers, IndexerStep(i)
        PROVE  outbox'.status = "succeeded"
    BY <1>3 DEF IndexerStep, Begin, PersistRows, SetIndex, Transition, FlushIndex, Extract,
                UpsertGraph, SaveMerged, ReloadMerged, Activate
  <1>4. CASE \/ \E s \in Stores, p \in Procs : Load(s, p) \/ Checkpoint(s, p)
             \/ \E a \in Actors : Fail(a)
             \/ \E p \in Procs : Crash(p)
    BY <1>4 DEF Load, Checkpoint, Fail, Crash
  <1>5. CASE Expire \/ BackoffEnds
    BY <1>5 DEF Expire, BackoffEnds, TypeOK, OutboxRows
  <1>6. CASE UNCHANGED vars
    BY <1>6 DEF vars
  <1> QED
    BY <1>1, <1>2, <1>3, <1>4, <1>5, <1>6 DEF Next

(* A finished erasure of a recording that is gone stays finished           *)
(* (_claim, _mark_succeeded, _mark_failed).                                *)
THEOREM FinishedOnce == Spec => SucceededIsFinal
  <1>1. TypeOK /\ [Next]_vars =>
          [rec = "gone" /\ outbox.status = "succeeded" => outbox'.status = "succeeded"]_vars
    BY SucceededStays
  <1> QED
    BY <1>1, ErasureTypeCorrect, PTL DEF Spec, SucceededIsFinal
-----------------------------------------------------------------------------
(* A cleaner that cleans has claimed a row, and rows are never deleted.    *)
Claimed ==
  \A c \in Cleaners :
    wk[c] \notin {"off", "idle", "claim", "retry"} => outbox.status # "none"

(* A cleaner is past its claim only if there is a row of the outbox.       *)
LEMMA ClaimedStep ==
  ASSUME TypeOK, Claimed, [Next]_vars
  PROVE  Claimed'
  <1>1. outbox.status # "none" => outbox'.status # "none"
    <2>1. CASE outbox' = outbox
      BY <2>1
    <2>2. ASSUME NEW c \in Cleaners, Stage(c) \/ Claim(c) \/ MarkSucceeded(c) \/ MarkFailed(c)
          PROVE  outbox.status # "none" => outbox'.status # "none"
      <3>1. CASE Stage(c)
        BY <3>1 DEF Stage, Staged, NoClaim
      <3>2. CASE Claim(c)
        <4>1. \/ outbox' = [outbox EXCEPT !.status = "processing", !.owner = c, !.ttl = LeaseTTL]
              \/ outbox' = outbox
          BY <3>2 DEF Claim
        <4> QED
          BY <4>1 DEF TypeOK, OutboxRows
      <3>3. CASE MarkSucceeded(c)
        BY <3>3 DEF MarkSucceeded, NoClaim
      <3>4. CASE MarkFailed(c)
        <4>1. outbox' = outbox \/ outbox'.status = "failed"
          BY <3>4 DEF MarkFailed, NoClaim
        <4> QED
          BY <4>1
      <3> QED
        BY <2>2, <3>1, <3>2, <3>3, <3>4
    <2>3. CASE Expire \/ BackoffEnds
      BY <2>3 DEF Expire, BackoffEnds, TypeOK, OutboxRows
    <2>4. \/ outbox' = outbox
          \/ \E c \in Cleaners : Stage(c) \/ Claim(c) \/ MarkSucceeded(c) \/ MarkFailed(c)
          \/ Expire \/ BackoffEnds
      BY DEF Next, vars, CleanerStep, SweeperStep, IndexerStep, Repeat, Scan, ForgetInGraph,
             SaveGraph, EraseIndex, EraseCache, EraseAudio, EraseArtifacts, Sweep, CommitSweep,
             RollBackSweep, Begin, PersistRows, SetIndex, Transition, FlushIndex, Extract,
             UpsertGraph, SaveMerged, ReloadMerged, Activate, Load, Checkpoint, Fail, Crash
    <2> QED
      BY <2>1, <2>2, <2>3, <2>4
  <1>2. ASSUME NEW c \in Cleaners, wk'[c] \notin {"off", "idle", "claim", "retry"}
        PROVE  wk[c] \notin {"off", "idle", "claim", "retry"} \/ outbox'.status # "none"
    <2> c \in Actors /\ wk \in [Actors -> Phases]
      BY DEF Actors, TypeOK
    <2>1. CASE wk'[c] = wk[c]
      BY <1>2, <2>1
    <2>2. ASSUME NEW b \in Actors, NEW phase, Goto(b, phase), b # c
          PROVE  wk'[c] = wk[c]
      BY <2>2, OthersStay
    <2>3. ASSUME NEW phase, Goto(c, phase)
          PROVE  wk'[c] = phase
      BY <2>3, Moves
    <2>4. CASE \E b \in Cleaners : Stage(b) \/ Repeat(b) \/ CleanerStep(b)
      <3>1. PICK b \in Cleaners : Stage(b) \/ Repeat(b) \/ CleanerStep(b)
        BY <2>4
      <3>2. CASE b # c
        <4>1. \E phase : Goto(b, phase)
          BY <3>1 DEF Stage, Repeat, CleanerStep, Scan, Claim, ForgetInGraph, SaveGraph,
                      EraseIndex, EraseCache, EraseAudio, EraseArtifacts, MarkSucceeded, MarkFailed
        <4> QED
          BY <2>1, <2>2, <3>2, <4>1 DEF Actors
      <3>3. CASE b = c /\ Claim(c)
        BY <1>2, <2>3, <3>3 DEF Claim, TypeOK, OutboxRows
      <3>4. CASE b = c /\ (Stage(c) \/ Repeat(c) \/ Scan(c))
        BY <1>2, <2>3, <3>4 DEF Stage, Repeat, Scan
      <3>5. CASE /\ b = c
                 /\ \/ ForgetInGraph(c) \/ SaveGraph(c) \/ EraseIndex(c) \/ EraseCache(c)
                    \/ EraseAudio(c) \/ EraseArtifacts(c) \/ MarkSucceeded(c) \/ MarkFailed(c)
        BY <3>5 DEF ForgetInGraph, SaveGraph, EraseIndex, EraseCache, EraseAudio, EraseArtifacts,
                    MarkSucceeded, MarkFailed, At
      <3> QED
        BY <3>1, <3>2, <3>3, <3>4, <3>5 DEF CleanerStep
    <2>5. CASE \E s \in Sweepers : SweeperStep(s) \/ RollBackSweep(s)
      <3>1. \E s \in Sweepers : \E phase : Goto(s, phase)
        BY <2>5 DEF SweeperStep, RollBackSweep, Sweep, ForgetInGraph, SaveGraph, EraseIndex,
                    EraseCache, EraseAudio, CommitSweep
      <3> QED
        BY <2>1, <2>2, <3>1, ErasureConstants DEF Actors
    <2>6. CASE \E i \in Indexers : IndexerStep(i)
      <3>1. \E i \in Indexers : \E phase : Goto(i, phase)
        BY <2>6 DEF IndexerStep, Begin, PersistRows, SetIndex, Transition, FlushIndex, Extract,
                    UpsertGraph, SaveMerged, ReloadMerged, Activate, Fence
      <3> QED
        BY <2>1, <2>2, <3>1, ErasureConstants DEF Actors
    <2>7. CASE \E a \in Actors : Fail(a)
      <3>1. PICK a \in Actors : Fail(a)
        BY <2>7
      <3>2. \E phase : Goto(a, phase)
        BY <3>1 DEF Fail
      <3>3. CASE a # c
        BY <2>1, <2>2, <3>2, <3>3
      <3>4. CASE a = c
        <4>1. \/ Goto(c, "idle")
              \/ wk[c] \in {"graph", "save", "index", "cache", "audio", "artifacts"}
          BY <3>1, <3>4 DEF Fail
        <4> QED
          BY <1>2, <2>3, <4>1
      <3> QED
        BY <3>3, <3>4
    <2>8. CASE \E p \in Procs : Crash(p)
      BY <1>2, <2>8 DEF Crash
    <2>9. CASE \/ \E s \in Stores, p \in Procs : Load(s, p) \/ Checkpoint(s, p)
               \/ Expire \/ BackoffEnds \/ UNCHANGED vars
      BY <2>1, <2>9 DEF Load, Checkpoint, Expire, BackoffEnds, vars
    <2> QED
      BY <2>4, <2>5, <2>6, <2>7, <2>8, <2>9 DEF Next
  <1> QED
    BY <1>1, <1>2 DEF Claimed

(* What a step removes is removed by a cleaner, by the sweep or with the   *)
(* recording's row.                                                        *)
LEMMA RemovalIsIntended ==
  ASSUME TypeOK, Claimed, [Next]_vars, ~(held \subseteq held')
  PROVE  \/ rec' = "gone" \/ outbox.status # "none" \/ \E s \in Sweepers : Busy(s)
  <1>1. ASSUME NEW c \in Cleaners, CleanerStep(c)
        PROVE  outbox.status # "none"
    <2>1. EraseCache(c) \/ EraseAudio(c) \/ EraseArtifacts(c)
      BY <1>1 DEF CleanerStep, Scan, Claim, ForgetInGraph, SaveGraph, EraseIndex, MarkSucceeded,
                  MarkFailed
    <2> QED
      BY <2>1 DEF Claimed, EraseCache, EraseAudio, EraseArtifacts, At
  <1>2. ASSUME NEW c \in Cleaners, Stage(c) \/ Repeat(c)
        PROVE  rec' = "gone"
    BY <1>2 DEF Stage, Repeat
  <1>3. ASSUME NEW s \in Sweepers, SweeperStep(s) \/ RollBackSweep(s)
        PROVE  rec' = "gone" \/ Busy(s)
    BY <1>3 DEF SweeperStep, Sweep, ForgetInGraph, SaveGraph, EraseIndex, EraseCache, EraseAudio,
                CommitSweep, RollBackSweep, Busy, At
  <1>4. ASSUME NEW i \in Indexers, IndexerStep(i)
        PROVE  FALSE
    BY <1>4 DEF IndexerStep, Begin, PersistRows, SetIndex, Transition, FlushIndex, Extract,
                UpsertGraph, SaveMerged, ReloadMerged, Activate
  <1>5. CASE \/ \E s \in Stores, p \in Procs : Load(s, p) \/ Checkpoint(s, p)
             \/ \E a \in Actors : Fail(a)
             \/ \E p \in Procs : Crash(p)
             \/ Expire \/ BackoffEnds \/ UNCHANGED vars
    BY <1>5 DEF Load, Checkpoint, Fail, Crash, Expire, BackoffEnds, vars
  <1> QED
    BY <1>1, <1>2, <1>3, <1>4, <1>5 DEF Next

(* Nothing outside the database is deleted before the intent is committed, *)
(* but by the retention sweep (stage_recording_erasure, _delete_one).      *)
THEOREM IntentBeforeDeletion == Spec => IntentComesFirst
  <1>1. Init => Claimed
    BY DEF Init, Claimed, Actors
  <1>2. TypeOK /\ Claimed /\ [Next]_vars => Claimed'
    BY ClaimedStep
  <1>3. TypeOK /\ Claimed /\ [Next]_vars =>
          [~(held \subseteq held') =>
             \/ rec' = "gone" \/ outbox.status # "none"
             \/ \E s \in Sweepers : Busy(s)]_vars
    BY RemovalIsIntended
  <1> QED
    BY <1>1, <1>2, <1>3, ErasureTypeCorrect, PTL DEF Spec, IntentComesFirst
=============================================================================
