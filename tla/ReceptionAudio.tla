---------------------------- MODULE ReceptionAudio ----------------------------
(***************************************************************************)
(* The recordings of one reception and how they are merged: what users,    *)
(* the automation of a reception (ReceptionPipeline) and audio operations  *)
(* (AudioOperation) share.                                                 *)
(*                                                                         *)
(* merge_recordings (services/receptions.py) lays the recordings of a      *)
(* reception out on a timeline and, in physical mode, assembles them into  *)
(* one file before it opens the transaction that publishes both.  The      *)
(* transaction succeeds only at the version of the reception the caller    *)
(* expects.  Every file is a new generation with a path of its own.        *)
(*                                                                         *)
(* A timeline stands for the order, the slices and the gaps of the         *)
(* recordings on it.  Dialogue units and tags are represented by the       *)
(* timeline they were derived from, and a file by the timeline it plays;   *)
(* Empty stands for none.  An expected version is represented by whether   *)
(* it is still the current one.                                            *)
(***************************************************************************)
EXTENDS Integers

CONSTANTS
  Recordings, Timelines, Empty,
  Erasable,     \* the recordings whose erasure is asked for
  Uses,         \* the recordings on a timeline
  Without,      \* a timeline after a recording was taken off it
  Paths,        \* where merged files are put
  NoPath,       \* merged_audio_path IS NULL
  Users,        \* requests of users, each of which does one thing
  Runners,      \* workers that advance the automation of the reception
  Workers,      \* workers that run audio operations
  Teams,        \* the sets of them that may be at work together
  NoOwner,      \* lease_token IS NULL
  MaxAttempts,  \* attempts an audio operation has
  MaxTroubles,  \* bound of the model: failures, stalls and crashes
  Spared        \* how many of them a team is spared

Actors == Users \cup Runners \cup Workers
Operation == "operation"

ASSUME ReceptionConstants ==
  /\ Empty \in Timelines
  /\ Uses \in [Timelines -> SUBSET Recordings] /\ Uses[Empty] = {}
  /\ Without \in [Timelines -> [Recordings -> Timelines]]
  /\ \A t \in Timelines, r \in Recordings : Uses[Without[t][r]] = Uses[t] \ {r}
  /\ Erasable \subseteq Recordings /\ NoPath \notin Paths /\ Teams \subseteq SUBSET Actors
  /\ Users \cap Runners = {} /\ (Users \cup Runners) \cap Workers = {}
  /\ NoOwner \notin Actors /\ Operation \notin Actors
  /\ MaxAttempts \in Nat \ {0} /\ MaxTroubles \in Nat
  /\ Spared \in [Teams -> 0..MaxTroubles]

VARIABLES
  visit,      \* the row of the reception, its mappings, units and tags
  alive,      \* the recordings that are not erased
  disk,       \* what each path holds
  art,        \* the state of the row of reception_audio_artifacts of a path
  run,        \* the row of reception_automation_runs
  op,         \* the latest row of reception_audio_operations
  wk,         \* what each actor is doing
  fresh,      \* who holds the current version of the reception
  owed,       \* paths an erasure has in its outbox
  lost,       \* history: files nobody can know of any more
  blind,      \* history: files deleted against the outcome of a transaction
  disturbed,  \* history: a merge took the units from an automation under way
  troubles    \* failures, stalls and crashes so far

vars == <<visit, alive, disk, art, run, op, wk, fresh, owed, lost, blind,
          disturbed, troubles>>

Visits == [timeline : Timelines, units : Timelines, tags : Timelines,
           status : {"needs_review", "processing", "ready"}, physical : BOOLEAN,
           audio : Paths \cup {NoPath}]
Kept == {"PREPARING", "READY", "RETIRED", "FAILED", "ORPHANED"}
ArtifactStates == Kept \cup {"none", "ATTACHED"}
Runs == [status : {"pending", "running", "failed", "ready"}, live : BOOLEAN,
         stage : {"merge", "segmentation", "tagging", "ready"},
         owner : Runners \cup {NoOwner}]
Active == {"claimed", "probing", "assembling", "verifying"}
Operations == [status : Active \cup {"none", "queued", "succeeded", "failed", "cancelled"},
               owner : Workers \cup {NoOwner}, live : BOOLEAN, cancel : BOOLEAN,
               want : Timelines, physical : BOOLEAN, attempts : 0..MaxAttempts]
Phases == {"off", "idle", "done", "prepare", "assemble", "verify", "register", "commit",
           "retire", "checkpoint", "advance", "segment", "fail", "probe", "slice",
           "cancel", "unlink"}
Works == [at : Phases, want : Timelines, file : Paths \cup {NoPath},
          old : Paths \cup {NoPath}]

TypeOK ==
  /\ visit \in Visits
  /\ alive \in SUBSET Recordings
  /\ disk \in [Paths -> Timelines]
  /\ art \in [Paths -> ArtifactStates]
  /\ run \in Runs
  /\ op \in Operations
  /\ wk \in [Actors -> Works]
  /\ fresh \in SUBSET (Actors \cup {Operation})
  /\ owed \in SUBSET Paths /\ lost \in SUBSET Paths /\ blind \in SUBSET Paths
  /\ disturbed \in BOOLEAN
  /\ troubles \in 0..MaxTroubles

Resting(phase) == [at |-> phase, want |-> Empty, file |-> NoPath, old |-> NoPath]
NoOperation == [status |-> "none", owner |-> NoOwner, live |-> FALSE, cancel |-> FALSE,
                want |-> Empty, physical |-> FALSE, attempts |-> 0]

(* The reception is accepted: its recordings are mapped and its automation *)
(* is pending.                                                             *)
Init ==
  /\ alive = Recordings
  /\ \E t \in Timelines, physical \in BOOLEAN :
       /\ Uses[t] = Recordings
       /\ visit = [timeline |-> t, units |-> Empty, tags |-> Empty, physical |-> physical,
                   status |-> "needs_review", audio |-> NoPath]
  /\ disk = [p \in Paths |-> Empty]
  /\ art = [p \in Paths |-> "none"]
  /\ run = [status |-> "pending", live |-> FALSE, stage |-> "merge", owner |-> NoOwner]
  /\ op = NoOperation
  /\ \E team \in Teams :
       /\ wk = [a \in Actors |-> Resting(IF a \in team THEN "idle" ELSE "off")]
       /\ troubles = Spared[team]
  /\ fresh = {} /\ owed = {} /\ lost = {} /\ blind = {}
  /\ disturbed = FALSE

-----------------------------------------------------------------------------
At(a, phase) == wk[a].at = phase
Goto(a, phase) == wk' = [wk EXCEPT ![a].at = phase]
Rest(a, phase) == wk' = [wk EXCEPT ![a] = Resting(phase)]
Becomes(a, phase, want, file, old) ==
  wk' = [wk EXCEPT ![a] = [at |-> phase, want |-> want, file |-> file, old |-> old]]

(* Where a merge that failed, and one that succeeded, leave their caller.  *)
Failed(a) == IF a \in Users THEN "done" ELSE "fail"
Merged(a) == IF a \in Users THEN "done" ELSE IF a \in Runners THEN "checkpoint" ELSE "idle"

Held == {wk[a].file : a \in Actors} \cup {wk[a].old : a \in Actors}
Free == {p \in Paths \ (Held \cup owed \cup lost \cup blind) :
           disk[p] = Empty /\ art[p] = "none" /\ p # visit.audio}

(* A file loses the last that knew of it, unless a row still names it.     *)
Forgotten(a, rows) ==
  {p \in {wk[a].file, wk[a].old} \cap Paths : rows[p] \notin Kept /\ p # visit.audio}

Emptied(ps) == [p \in Paths |-> IF p \in ps THEN Empty ELSE disk[p]]

-----------------------------------------------------------------------------
(* A user asks for a merge, at the version the page was read.              *)
Submit(u) ==
  /\ u \in Users /\ At(u, "idle")
  /\ \E t \in Timelines \ {Empty}, phase \in {"prepare", "commit"} :
       /\ Uses[t] \subseteq alive
       /\ Becomes(u, phase, t, NoPath, NoPath)
  /\ fresh' = fresh \cup {u}
  /\ UNCHANGED <<visit, alive, disk, art, run, op, owed, lost, blind, disturbed, troubles>>

Current(a) == a \in fresh /\ Uses[wk[a].want] \subseteq alive

(* _prepare_physical_merge reads the sources and closes its session.       *)
Prepare(a) ==
  /\ At(a, "prepare")
  /\ IF Current(a) THEN Goto(a, "assemble") ELSE Rest(a, Failed(a))
  /\ UNCHANGED <<visit, alive, disk, art, run, op, fresh, owed, lost, blind,
                 disturbed, troubles>>

(* The file of an operation has its row and its path already.              *)
Assemble(a) ==
  /\ At(a, "assemble")
  /\ \E p \in IF a \in Workers THEN {wk[a].file} ELSE Free :
       /\ a \notin Workers => \A q \in Free : p <= q
       /\ disk' = [disk EXCEPT ![p] = wk[a].want]
       /\ Becomes(a, IF a \in Workers THEN "verify" ELSE "commit", wk[a].want, p, NoPath)
  /\ UNCHANGED <<visit, alive, art, run, op, fresh, owed, lost, blind, disturbed, troubles>>

-----------------------------------------------------------------------------
(* The transaction.  A changed timeline takes the units and tags with it.  *)

Changed(t) == t # visit.timeline

(* Mutant: a logical merge keeps the file of the old timeline.             *)
RelaidKeepingAudio(t, p) ==
  [visit EXCEPT !.timeline = t, !.physical = (p # NoPath),
                !.audio = IF p = NoPath THEN @ ELSE p,
                !.units = IF Changed(t) THEN Empty ELSE @,
                !.tags = IF Changed(t) THEN Empty ELSE @,
                !.status = IF Changed(t) THEN "needs_review" ELSE @]

Relaid(t, p) ==
  [visit EXCEPT !.timeline = t, !.audio = p, !.physical = (p # NoPath),
                !.units = IF Changed(t) THEN Empty ELSE @,
                !.tags = IF Changed(t) THEN Empty ELSE @,
                !.status = IF Changed(t) THEN "needs_review" ELSE @]

Publish(a) ==
  /\ visit' = Relaid(wk[a].want, wk[a].file)
  /\ fresh' = {}
  /\ disturbed' = (disturbed \/ (Changed(wk[a].want) /\ run.stage # "merge"))

Retiring(a) == Becomes(a, "retire", wk[a].want, NoPath, visit.audio)

(* _PhysicalArtifactGuard deletes what was not published.                  *)
Refuse(a) ==
  /\ disk' = Emptied({wk[a].file})
  /\ Rest(a, Failed(a))
  /\ UNCHANGED <<visit, fresh, disturbed>>

CommitMerge(a) ==
  /\ a \in Users \cup Runners /\ At(a, "commit")
  /\ IF Current(a)
       THEN Publish(a) /\ Retiring(a) /\ UNCHANGED disk
       ELSE Refuse(a)
  /\ UNCHANGED <<alive, art, run, op, owed, lost, blind, troubles>>

(* The transaction is committed but its acknowledgement is lost, or the    *)
(* caller is cancelled while it waits: the guard deletes the file.         *)
Unacknowledged(a) ==
  /\ Publish(a)
  /\ disk' = Emptied({wk[a].file})
  /\ blind' = blind \cup ({wk[a].file} \cap Paths)
  /\ Rest(a, Failed(a))
  /\ troubles' = troubles + 1

CommitMergeUnacknowledged(a) ==
  /\ a \in Users \cup Runners /\ At(a, "commit") /\ troubles < MaxTroubles
  /\ Current(a)
  /\ Unacknowledged(a)
  /\ lost' = lost \cup {p \in {visit.audio} \cap Paths : art[p] \notin Kept}
  /\ UNCHANGED <<alive, art, run, op, owed>>

(* _retire_physical_artifact: the file that was replaced.                  *)
Retire(a) ==
  /\ At(a, "retire")
  /\ disk' = Emptied({wk[a].old})
  /\ Rest(a, Merged(a))
  /\ UNCHANGED <<visit, alive, art, run, op, fresh, owed, lost, blind, disturbed, troubles>>

(* It logs that the file could not be deleted, and goes on.                *)
RetireFails(a) ==
  /\ At(a, "retire") /\ troubles < MaxTroubles
  /\ lost' = lost \cup Forgotten(a, art)
  /\ Rest(a, Merged(a))
  /\ troubles' = troubles + 1
  /\ UNCHANGED <<visit, alive, disk, art, run, op, fresh, owed, blind, disturbed>>

-----------------------------------------------------------------------------
(* A failure or a cancellation at an await: what is not published is       *)
(* deleted, what should have been retired stays.                           *)
Abort(a) ==
  /\ troubles < MaxTroubles
  /\ wk[a].at \in {"prepare", "assemble", "verify", "register", "commit", "retire",
                   "segment", "advance"}
  /\ disk' = Emptied({wk[a].file})
  /\ lost' = lost \cup {p \in Forgotten(a, art) : p # wk[a].file}
  /\ Rest(a, Failed(a))
  /\ troubles' = troubles + 1
  /\ UNCHANGED <<visit, alive, art, run, op, fresh, owed, blind, disturbed>>

(* A cancellation while the file is encrypted, which is done in a thread:  *)
(* the thread goes on and puts the file there after it was deleted.        *)
AbortEncrypting(a) ==
  /\ troubles < MaxTroubles /\ At(a, "assemble")
  /\ \E p \in IF a \in Workers THEN {wk[a].file} ELSE Free :
       /\ a \notin Workers => \A q \in Free : p <= q
       /\ disk' = [disk EXCEPT ![p] = wk[a].want]
       /\ lost' = lost \cup {q \in {p} \cap Paths : art[q] \notin Kept}
  /\ Rest(a, Failed(a))
  /\ troubles' = troubles + 1
  /\ UNCHANGED <<visit, alive, art, run, op, fresh, owed, blind, disturbed>>

(* The process of an actor dies.                                           *)
Crash(a) ==
  /\ troubles < MaxTroubles /\ wk[a].at \notin {"off", "idle", "done"}
  /\ lost' = lost \cup Forgotten(a, art)
  /\ Rest(a, IF a \in Users THEN "done" ELSE "idle")
  /\ troubles' = troubles + 1
  /\ UNCHANGED <<visit, alive, disk, art, run, op, fresh, owed, blind, disturbed>>

MergeStep(a) == Prepare(a) \/ Assemble(a) \/ CommitMerge(a) \/ Retire(a)
=============================================================================
