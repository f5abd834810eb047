------------------------- MODULE ReceptionFilesProofs -------------------------
(***************************************************************************)
(* Where the files of a reception are, for every number of users, runners, *)
(* workers, recordings, paths and mishaps: the merged audio plays, no file *)
(* is forgotten, and one generation at most is being prepared.             *)
(***************************************************************************)
EXTENDS ReceptionProofs

(* Only somebody at work on a file holds one, and a worker has one from    *)
(* the registration of its path on.                                        *)
Hands ==
  /\ \A w \in Workers :
       wk[w].at \in {"prepare", "assemble", "verify", "register"} => wk[w].file # NoPath
  /\ \A a \in Actors :
       /\ wk[a].file # NoPath =>
            wk[a].at \in {"prepare", "assemble", "verify", "register", "commit", "unlink"}
       /\ wk[a].old # NoPath => wk[a].at = "retire"

(* No two hold the same file, and nobody holds the merged audio.           *)
Apart ==
  \A a \in Actors :
    /\ wk[a].file # NoPath =>
         /\ wk[a].file # visit.audio
         /\ \A b \in Actors \ {a} : wk[b].file # wk[a].file /\ wk[b].old # wk[a].file
    /\ wk[a].old # NoPath => wk[a].old # visit.audio

(* The merged audio is neither owed to an erasure nor in the making.       *)
Pointed == visit.audio # NoPath => visit.audio \notin owed /\ visit.audio \notin InWork

(* A file without a row belongs to its writer alone.                       *)
Own ==
  /\ \A a \in Users \cup Runners :
       wk[a].file # NoPath => art[wk[a].file] = "none" /\ wk[a].file \notin owed
  /\ \A p \in owed : art[p] = "none"

(* What a file holds while it is written and after.                        *)
Content ==
  \A a \in Actors :
    wk[a].file # NoPath =>
      /\ wk[a].at \in {"prepare", "assemble"} => disk[wk[a].file] = Empty
      /\ wk[a].at \in {"verify", "register", "commit"} =>
           \/ disk[wk[a].file] = wk[a].want
           \/ a \in Workers /\ disk[wk[a].file] = Empty

(* A generation in the making is in the hands of the operation's owner.    *)
Making ==
  /\ \A p \in InWork, a \in Actors :
       wk[a].old # p /\ (wk[a].file = p => a = op.owner)
  /\ \A w \in Workers :
       (op.owner = w /\ op.status = "verifying" /\ At(w, "commit") /\ wk[w].file = NoPath)
         => InWork = {}

(* Where the files are.                                                    *)
Filed ==
  /\ Hands /\ Apart /\ Pointed /\ Own /\ Content
  /\ OneGeneration /\ Making
  /\ MergedAudioPlays /\ FilesAreAccountedFor

-----------------------------------------------------------------------------
(* Steps that move no file, and steps that let go of one.                  *)

(* The steps that move no file.                                            *)
Unmoved(a) ==
  \/ wk'[a] = wk[a]
  \/ /\ wk[a].file = NoPath /\ wk[a].old = NoPath
     /\ wk'[a].file = NoPath /\ wk'[a].old = NoPath
     /\ a \in Workers =>
          /\ wk'[a].at \notin {"prepare", "assemble", "verify", "register"}
          /\ wk'[a].at = "commit" => InWork = {}
  \/ /\ wk[a].at = "prepare" /\ wk'[a].at = "assemble"
     /\ wk'[a].file = wk[a].file /\ wk'[a].old = wk[a].old

Quiet ==
  /\ UNCHANGED <<disk, art, owed, lost, blind>>
  /\ visit'.audio = visit.audio /\ visit'.timeline = visit.timeline
  /\ InWork = {} \/ (op'.owner = op.owner /\ op'.status = op.status)
  /\ \A a \in Actors : Unmoved(a)

(* A path is not the absence of one.                                       *)
LEMMA PathIsSome ==
  ASSUME NEW p \in Paths PROVE p # NoPath
BY ReceptionConstants

(* They keep the invariant.                                                *)
LEMMA QuietKeeps ==
  ASSUME TypeOK, Filed, Quiet
  PROVE  Filed'
<1>0. InWork' = InWork BY DEF Quiet, InWork
<1>1. \A a \in Actors : wk'[a].file = wk[a].file /\ wk'[a].old = wk[a].old
  BY DEF Quiet, Unmoved
<1>2. Hands'
  <2>1. ASSUME NEW a \in Actors
        PROVE  /\ wk'[a].file # NoPath =>
                    wk'[a].at \in {"prepare", "assemble", "verify", "register", "commit", "unlink"}
               /\ wk'[a].old # NoPath => wk'[a].at = "retire"
    BY DEF Filed, Hands, Quiet, Unmoved
  <2>2. ASSUME NEW w \in Workers,
               wk'[w].at \in {"prepare", "assemble", "verify", "register"}
        PROVE  wk'[w].file # NoPath
    <3>1. w \in Actors BY Kinds
    <3> QED BY <2>2, <3>1 DEF Filed, Hands, Quiet, Unmoved
  <2> QED BY <2>1, <2>2 DEF Hands
<1>3. Apart' BY <1>1 DEF Filed, Apart, Quiet
<1>4. Pointed' BY <1>0 DEF Filed, Pointed, Quiet
<1>5. Own' BY <1>1, Kinds DEF Filed, Own, Quiet
<1>6. Content'
  <2>1. ASSUME NEW a \in Actors, wk'[a].file # NoPath
        PROVE  /\ wk'[a].at \in {"prepare", "assemble"} => disk[wk'[a].file] = Empty
               /\ wk'[a].at \in {"verify", "register", "commit"} =>
                    \/ disk[wk'[a].file] = wk'[a].want
                    \/ a \in Workers /\ disk[wk'[a].file] = Empty
    BY <2>1 DEF Filed, Content, Quiet, Unmoved
  <2> QED BY <2>1 DEF Content, Quiet
<1>7. OneGeneration' BY <1>0 DEF Filed, OneGeneration, Quiet
<1>8. Making'
  <2>1. ASSUME NEW p \in InWork, NEW a \in Actors
        PROVE  wk'[a].old # p /\ (wk'[a].file = p => a = op'.owner)
    BY <1>1 DEF Filed, Making, Quiet
  <2>2. ASSUME NEW w \in Workers, op'.owner = w, op'.status = "verifying",
               wk'[w].at = "commit", wk'[w].file = NoPath
        PROVE  InWork = {}
    <3>1. w \in Actors BY Kinds
    <3> QED BY <2>2, <3>1 DEF Filed, Making, Quiet, Unmoved, At
  <2> QED BY <1>0, <2>1, <2>2 DEF Making, At
<1>9. MergedAudioPlays' BY DEF Filed, MergedAudioPlays, Quiet
<1>10. FilesAreAccountedFor'
  <2>1. Held' = Held BY <1>1 DEF Held
  <2> QED BY <2>1 DEF Filed, FilesAreAccountedFor, Quiet
<1> QED BY <1>2, <1>3, <1>4, <1>5, <1>6, <1>7, <1>8, <1>9, <1>10 DEF Filed

(* The steps with which an actor lets go of what it holds: paths of its    *)
(* own are deleted or written, and what is left there, or was held, is     *)
(* lost unless somebody knows of it.                                       *)
Dropped(a, ps) ==
  /\ \A p \in ps :
       /\ p # visit.audio /\ \A b \in Actors \ {a} : wk[b].file # p
       /\ disk'[p] = Empty \/ art[p] \in Kept \/ p \in lost'
  /\ \A p \in Paths \ ps : disk'[p] = disk[p]
  /\ \A p \in Forgotten(a, art) \ ps : disk[p] = Empty \/ p \in lost'
  /\ lost \subseteq lost'
  /\ UNCHANGED <<visit, art, op, owed, blind>>
  /\ wk'[a].file = NoPath /\ wk'[a].old = NoPath
  /\ a \in Workers => wk'[a].at \notin {"prepare", "assemble", "verify", "register", "commit"}
  /\ \A b \in Actors \ {a} : wk'[b] = wk[b]

(* They keep the invariant.                                                *)
LEMMA DroppedKeeps ==
  ASSUME TypeOK, Filed, NEW a \in Actors, NEW ps, Dropped(a, ps)
  PROVE  Filed'
<1>0. InWork' = InWork BY DEF Dropped, InWork
<1>1. \A p \in Paths \ ps : disk'[p] = disk[p] BY DEF Dropped
<1>2. Hands'
  <2>1. ASSUME NEW b \in Actors
        PROVE  /\ wk'[b].file # NoPath =>
                    wk'[b].at \in {"prepare", "assemble", "verify", "register", "commit", "unlink"}
               /\ wk'[b].old # NoPath => wk'[b].at = "retire"
    BY DEF Filed, Hands, Dropped
  <2>2. ASSUME NEW w \in Workers,
               wk'[w].at \in {"prepare", "assemble", "verify", "register"}
        PROVE  wk'[w].file # NoPath
    <3>1. w \in Actors BY Kinds
    <3> QED BY <2>2, <3>1 DEF Filed, Hands, Dropped
  <2> QED BY <2>1, <2>2 DEF Hands
<1>3. Apart'
  <2>1. ASSUME NEW b \in Actors
        PROVE  /\ wk'[b].file # NoPath =>
                    /\ wk'[b].file # visit.audio
                    /\ \A c \in Actors \ {b} : wk'[c].file # wk'[b].file /\ wk'[c].old # wk'[b].file
               /\ wk'[b].old # NoPath => wk'[b].old # visit.audio
    BY DEF Filed, Apart, Dropped
  <2> QED BY <2>1 DEF Apart, Dropped
<1>4. Pointed' BY <1>0 DEF Filed, Pointed, Dropped
<1>5. Own' BY Kinds DEF Filed, Own, Dropped
<1>6. Content'
  <2>1. ASSUME NEW b \in Actors, wk'[b].file # NoPath
        PROVE  /\ wk'[b] = wk[b] /\ disk'[wk[b].file] = disk[wk[b].file]
    <3>1. b # a /\ wk'[b] = wk[b] BY <2>1 DEF Dropped
    <3>2. wk[b].file \notin ps BY <3>1 DEF Dropped
    <3>3. wk[b].file \in Paths BY <2>1, <3>1, FileTypes
    <3> QED BY <1>1, <3>1, <3>2, <3>3
  <2> QED BY <2>1 DEF Filed, Content
<1>7. OneGeneration' BY <1>0 DEF Filed, OneGeneration, Dropped
<1>8. Making'
  <2>1. ASSUME NEW p \in InWork, NEW b \in Actors
        PROVE  wk'[b].old # p /\ (wk'[b].file = p => b = op.owner)
    BY PathIsSome DEF Filed, Making, Dropped, InWork
  <2>2. ASSUME NEW w \in Workers, op.owner = w, op.status = "verifying",
               wk'[w].at = "commit", wk'[w].file = NoPath
        PROVE  InWork = {}
    <3>1. w \in Actors BY Kinds
    <3> QED BY <2>2, <3>1 DEF Filed, Making, Dropped, At
  <2> QED BY <1>0, <2>1, <2>2 DEF Making, At, Dropped
<1>9. MergedAudioPlays'
  <2>1. visit.audio # NoPath => visit.audio \in Paths \ ps BY DEF Dropped, TypeOK, Visits
  <2> QED BY <1>1, <2>1 DEF Filed, MergedAudioPlays, Dropped
<1>10. FilesAreAccountedFor'
  <2>1. ASSUME NEW p \in Paths, disk'[p] # Empty
        PROVE  \/ p = visit.audio \/ art[p] \in Kept
               \/ p \in owed \cup lost' \cup Held'
    <3>1. CASE p \in ps BY <2>1, <3>1 DEF Dropped
    <3>2. CASE p \in {wk[a].file, wk[a].old} \ ps
      BY <1>1, <2>1, <3>2 DEF Dropped, Forgotten
    <3>3. CASE p \in Held \ {wk[a].file, wk[a].old}
      <4>1. PICK b \in Actors : p = wk[b].file \/ p = wk[b].old BY <3>3 DEF Held
      <4>2. wk'[b] = wk[b] BY <3>3, <4>1 DEF Dropped
      <4> QED BY <4>1, <4>2 DEF Held
    <3>4. CASE p \notin Held \cup ps
      BY <1>1, <2>1, <3>4 DEF Filed, FilesAreAccountedFor, Dropped
    <3> QED BY <3>1, <3>2, <3>3, <3>4
  <2> QED BY <2>1 DEF FilesAreAccountedFor, Dropped
<1> QED BY <1>2, <1>3, <1>4, <1>5, <1>6, <1>7, <1>8, <1>9, <1>10 DEF Filed

(* Most phases are those of actors that hold nothing.                      *)
Holding == {"prepare", "assemble", "verify", "register", "commit", "unlink", "retire"}

(* In every other phase nothing is held.                                   *)
LEMMA EmptyHanded ==
  ASSUME Filed, NEW a \in Actors, wk[a].at \notin Holding
  PROVE  wk[a].file = NoPath /\ wk[a].old = NoPath
BY DEF Filed, Hands, Holding

(* Only an operation that has a path registered prepares a generation.     *)
LEMMA NothingInWork ==
  ASSUME Filed, op.status \notin {"assembling", "verifying"}
  PROVE  InWork = {}
BY DEF Filed, OneGeneration

(* A step of one actor that holds nothing before it and nothing after it   *)
(* is quiet, if the reception keeps its audio and its timeline.            *)
LEMMA QuietStep ==
  ASSUME TypeOK, Filed, NEW a \in Actors,
         wk[a].at \notin Holding, wk'[a].file = NoPath, wk'[a].old = NoPath,
         \A b \in Actors \ {a} : wk'[b] = wk[b],
         a \in Workers =>
           /\ wk'[a].at \notin {"prepare", "assemble", "verify", "register"}
           /\ wk'[a].at = "commit" => InWork = {},
         UNCHANGED <<disk, art, owed, lost, blind>>,
         visit'.audio = visit.audio, visit'.timeline = visit.timeline,
         InWork = {} \/ (op'.owner = op.owner /\ op'.status = op.status)
  PROVE  Filed'
<1>1. wk[a].file = NoPath /\ wk[a].old = NoPath BY EmptyHanded
<1>2. \A b \in Actors : Unmoved(b) BY <1>1 DEF Unmoved
<1>3. Quiet BY <1>2 DEF Quiet
<1> QED BY <1>3, QuietKeeps

(* What an actor has in hand after a step that gives it something.          *)
LEMMA TakesInHand ==
  ASSUME TypeOK, NEW a \in Actors, NEW phase, NEW want, NEW file, NEW old,
         Becomes(a, phase, want, file, old)
  PROVE  /\ wk'[a].at = phase /\ wk'[a].want = want
         /\ wk'[a].file = file /\ wk'[a].old = old
         /\ \A b \in Actors \ {a} : wk'[b] = wk[b]
BY DEF TypeOK, Becomes, Works

(* What users ask for.                                                     *)
LEMMA FiledUser ==
  ASSUME TypeOK, Filed, NEW u \in Users, UserStep(u)
  PROVE  Filed'
<1>0. u \in Actors /\ u \notin Workers /\ wk[u].at \notin Holding
  BY Kinds DEF UserStep, Submit, Ask, Cancel, At, Holding
<1>1. CASE Submit(u)
  <2>1. /\ wk'[u].file = NoPath /\ wk'[u].old = NoPath
        /\ \A b \in Actors \ {u} : wk'[b] = wk[b]
    <3>1. PICK phase, t : Becomes(u, phase, t, NoPath, NoPath) BY <1>1 DEF Submit
    <3> QED BY <1>0, <3>1, TakesInHand
  <2> QED BY <1>0, <1>1, <2>1, QuietStep DEF Submit
<1>2. CASE Ask(u)
  <2>1. /\ wk'[u].file = NoPath /\ wk'[u].old = NoPath
        /\ \A b \in Actors \ {u} : wk'[b] = wk[b]
    BY <1>0, <1>2, Doing DEF Ask
  <2>2. InWork = {} BY <1>2, NothingInWork DEF Ask
  <2> QED BY <1>0, <1>2, <2>1, <2>2, QuietStep DEF Ask, Elsewhere
<1>3. CASE Cancel(u)
  <2>1. /\ wk'[u].file = NoPath /\ wk'[u].old = NoPath
        /\ \A b \in Actors \ {u} : wk'[b] = wk[b]
    BY <1>0, <1>3, Doing DEF Cancel
  <2>2. InWork = {} \/ (op'.owner = op.owner /\ op'.status = op.status)
    BY <1>3, NothingInWork DEF Cancel, TypeOK, Operations
  <2> QED BY <1>0, <1>3, <2>1, <2>2, QuietStep DEF Cancel, Elsewhere
<1> QED BY <1>1, <1>2, <1>3 DEF UserStep

(* The automation itself touches no file.                                  *)
LEMMA FiledRunner ==
  ASSUME TypeOK, Filed, NEW n \in Runners, ClaimRun(n) \/ RunnerStep(n)
  PROVE  Filed'
<1>0. n \in Actors /\ n \notin Workers /\ wk[n].at \notin Holding
  BY Kinds DEF RunnerStep, ClaimRun, AdvanceMerge, AdvanceSegmentation, Segment, AdvanceTagging,
               Checkpoint, MarkReady, MarkFailed, At, Holding
<1>1. /\ wk[n].file = NoPath /\ wk[n].old = NoPath
  BY <1>0, EmptyHanded
<1>2. /\ wk'[n].file = NoPath /\ wk'[n].old = NoPath
      /\ \A b \in Actors \ {n} : wk'[b] = wk[b]
  <2>1. CASE ClaimRun(n) BY <1>0, <1>1, <2>1, Doing DEF ClaimRun
  <2>2. CASE AdvanceMerge(n) BY <1>0, <1>1, <2>2, Doing DEF AdvanceMerge
  <2>3. CASE AdvanceSegmentation(n) BY <1>0, <1>1, <2>3, Doing DEF AdvanceSegmentation
  <2>4. CASE Segment(n) BY <1>0, <1>1, <2>4, Doing DEF Segment
  <2>5. CASE AdvanceTagging(n) BY <1>0, <1>1, <2>5, Doing DEF AdvanceTagging
  <2>6. CASE Checkpoint(n) BY <1>0, <1>1, <2>6, Doing DEF Checkpoint
  <2>7. CASE MarkReady(n) BY <1>0, <1>1, <2>7, Doing DEF MarkReady
  <2>8. CASE MarkFailed(n) BY <1>0, <1>1, <2>8, Doing DEF MarkFailed
  <2> QED BY <2>1, <2>2, <2>3, <2>4, <2>5, <2>6, <2>7, <2>8 DEF RunnerStep
<1>3. visit'.audio = visit.audio /\ visit'.timeline = visit.timeline
  BY DEF RunnerStep, ClaimRun, AdvanceMerge, AdvanceSegmentation, Segment, AdvanceTagging,
         Checkpoint, MarkReady, MarkFailed, TypeOK, Visits
<1>4. UNCHANGED <<disk, art, op, owed, lost, blind>>
  BY DEF RunnerStep, ClaimRun, AdvanceMerge, AdvanceSegmentation, Segment, AdvanceTagging,
         Checkpoint, MarkReady, MarkFailed, Untouched
<1> QED BY <1>0, <1>2, <1>3, <1>4, QuietStep

(* Steps after which everybody does what they did before.                  *)
LEMMA FiledAside ==
  ASSUME TypeOK, Filed, UNCHANGED <<visit, disk, art, wk, owed, lost, blind>>,
         op'.owner = op.owner, op'.status = op.status
  PROVE  Filed'
<1>1. \A a \in Actors : Unmoved(a) BY DEF Unmoved
<1>2. Quiet BY <1>1 DEF Quiet
<1> QED BY <1>2, QuietKeeps

(* An actor that rests lets go of what it holds.                           *)
LEMMA RestDrops ==
  ASSUME TypeOK, Filed, NEW a \in Actors, NEW phase, Rest(a, phase),
         phase \notin {"prepare", "assemble", "verify", "register", "commit"},
         NEW ps, ps \subseteq {wk[a].file, wk[a].old}, disk' = Emptied(ps),
         \A p \in Forgotten(a, art) \ ps : p \in lost',
         lost \subseteq lost', UNCHANGED <<visit, art, op, owed, blind>>
  PROVE  Filed'
<1>1. /\ wk'[a].at = phase /\ wk'[a].file = NoPath /\ wk'[a].old = NoPath
      /\ \A b \in Actors \ {a} : wk'[b] = wk[b]
  BY Doing
<1>2. ASSUME NEW p \in ps \cap Paths
      PROVE  /\ p # visit.audio /\ \A b \in Actors \ {a} : wk[b].file # p
             /\ disk'[p] = Empty
  <2>1. p # NoPath BY PathIsSome
  <2>2. p \in {wk[a].file, wk[a].old} BY <1>2
  <2> QED BY <2>1, <2>2 DEF Filed, Apart, Emptied
<1>3. \A p \in Paths \ ps : disk'[p] = disk[p] BY DEF Emptied
<1>4. Dropped(a, ps \cap Paths)
  <2>1. \A p \in Forgotten(a, art) \ (ps \cap Paths) : p \in lost' BY DEF Forgotten
  <2> QED BY <1>1, <1>2, <1>3, <2>1 DEF Dropped
<1> QED BY <1>4, DroppedKeeps

(* Before the file is assembled there is nothing to delete.                *)
LEMMA NothingThere ==
  ASSUME TypeOK, Filed, NEW a \in Actors, wk[a].at \in {"prepare", "assemble"}
  PROVE  Emptied({wk[a].file}) = disk
<1>1. disk = [p \in Paths |-> disk[p]] BY DEF TypeOK
<1>2. \A p \in Paths : p = wk[a].file => disk[p] = Empty
  BY PathIsSome DEF Filed, Content
<1> QED BY <1>1, <1>2 DEF Emptied

(* Deleting nothing leaves the disk as it is.                              *)
LEMMA EmptiedNone == ASSUME TypeOK PROVE Emptied({}) = disk
<1>1. disk = [p \in Paths |-> disk[p]] BY DEF TypeOK
<1> QED BY <1>1 DEF Emptied

(* Who holds a new file has not one to retire, and the other way round.    *)
LEMMA OneInHand ==
  ASSUME Filed, NEW a \in Actors
  PROVE  /\ wk[a].at # "retire" => wk[a].old = NoPath
         /\ wk[a].at = "retire" => wk[a].file = NoPath
BY DEF Filed, Hands

(* Everything in the hands of who gives up is deleted.                     *)
LEMMA NothingForgotten ==
  ASSUME Filed, NEW a \in Actors
  PROVE  /\ wk[a].at # "retire" => Forgotten(a, art) \ {wk[a].file} = {}
         /\ wk[a].at = "retire" => Forgotten(a, art) \ {wk[a].old} = {}
BY OneInHand, PathIsSome DEF Forgotten

(* Steps that end with their actor at rest: a refusal or a clean-up,       *)
LEMMA FiledRefused ==
  ASSUME TypeOK, Filed, NEW a \in Actors, NEW phase, Rest(a, phase),
         phase \notin {"prepare", "assemble", "verify", "register", "commit"},
         wk[a].at # "retire", disk' = Emptied({wk[a].file}),
         UNCHANGED <<visit, art, op, owed, lost, blind>>
  PROVE  Filed'
BY NothingForgotten, RestDrops

(* the replaced file being deleted, or not,                                *)
LEMMA FiledRetire ==
  ASSUME TypeOK, Filed, NEW a \in Actors, Retire(a) \/ RetireFails(a)
  PROVE  Filed'
<1>1. Merged(a) \notin {"prepare", "assemble", "verify", "register", "commit"} BY DEF Merged
<1>2. CASE Retire(a)
  <2>1. \A p \in Forgotten(a, art) \ {wk[a].old} : p \in lost'
    BY <1>2, NothingForgotten DEF Retire, At
  <2> QED BY <1>1, <1>2, <2>1, RestDrops DEF Retire
<1>3. CASE RetireFails(a)
  <2>1. \A p \in Forgotten(a, art) \ {} : p \in lost' BY <1>3 DEF RetireFails
  <2>2. lost \subseteq lost' /\ disk' = Emptied({}) BY <1>3, EmptiedNone DEF RetireFails
  <2> QED BY <1>1, <1>3, <2>1, <2>2, RestDrops DEF RetireFails
<1> QED BY <1>2, <1>3

(* a failure,                                                              *)
LEMMA FiledAbort ==
  ASSUME TypeOK, Filed, NEW a \in Actors, Abort(a)
  PROVE  Filed'
<1>1. Failed(a) \notin {"prepare", "assemble", "verify", "register", "commit"} BY DEF Failed
<1>2. \A p \in Forgotten(a, art) \ {wk[a].file} : p \in lost' BY DEF Abort
<1>3. lost \subseteq lost' BY DEF Abort
<1> QED BY <1>1, <1>2, <1>3, RestDrops DEF Abort

(* a cancellation that leaves an encrypted file,                           *)
LEMMA FiledEncrypting ==
  ASSUME TypeOK, Filed, NEW a \in Actors, AbortEncrypting(a)
  PROVE  Filed'
<1>1. PICK p \in IF a \in Workers THEN {wk[a].file} ELSE Free :
        /\ disk' = [disk EXCEPT ![p] = wk[a].want]
        /\ lost' = lost \cup {q \in {p} \cap Paths : art[q] \notin Kept}
  BY DEF AbortEncrypting
<1>2. PICK phase : /\ phase \in {"done", "fail"} /\ Rest(a, phase)
  BY DEF AbortEncrypting, Failed
<1>3. /\ wk'[a].at = phase /\ wk'[a].file = NoPath /\ wk'[a].old = NoPath
      /\ \A b \in Actors \ {a} : wk'[b] = wk[b]
  BY <1>2, Doing
<1>4. p \in Paths
  <2>1. CASE a \in Workers
    <3>1. wk[a].file # NoPath BY <2>1 DEF Filed, Hands, AbortEncrypting, At
    <3> QED BY <1>1, <2>1, <3>1, FileTypes
  <2>2. CASE a \notin Workers BY <1>1, <2>2 DEF Free
  <2> QED BY <2>1, <2>2
<1>5. p # visit.audio /\ \A b \in Actors \ {a} : wk[b].file # p
  <2>1. CASE a \in Workers BY <1>1, <1>4, <2>1, PathIsSome DEF Filed, Apart
  <2>2. CASE a \notin Workers BY <1>1, <1>4, <2>2, PathIsSome DEF Free, Held
  <2> QED BY <2>1, <2>2
<1>6. \A q \in Paths \ {p} : disk'[q] = disk[q] BY <1>1, <1>4 DEF TypeOK
<1>7. art[p] \in Kept \/ p \in lost' BY <1>1, <1>4
<1>8. wk[a].old = NoPath /\ (wk[a].file # NoPath => disk[wk[a].file] = Empty)
  BY DEF Filed, Hands, Content, AbortEncrypting, At
<1>9. Dropped(a, {p})
  <2>1. \A q \in Forgotten(a, art) \ {p} : disk[q] = Empty \/ q \in lost'
    BY <1>8, PathIsSome DEF Forgotten
  <2>2. lost \subseteq lost' /\ UNCHANGED <<visit, art, op, owed, blind>>
    BY <1>1 DEF AbortEncrypting
  <2> QED BY <1>2, <1>3, <1>4, <1>5, <1>6, <1>7, <2>1, <2>2 DEF Dropped
<1> QED BY <1>9, DroppedKeeps

(* a crash.                                                                *)
LEMMA FiledCrash ==
  ASSUME TypeOK, Filed, NEW a \in Actors, Crash(a)
  PROVE  Filed'
<1>1. PICK phase \in {"done", "idle"} : Rest(a, phase) BY DEF Crash
<1>2. \A p \in Forgotten(a, art) \ {} : p \in lost' BY DEF Crash
<1>3. lost \subseteq lost' /\ disk' = Emptied({}) BY EmptiedNone DEF Crash
<1> QED BY <1>1, <1>2, <1>3, RestDrops DEF Crash

-----------------------------------------------------------------------------
(* A merge, by whomever.                                                   *)

(* A user or a runner with a file to publish, or a worker with a file that *)
(* has its row.                                                            *)
LEMMA FiledPrepare ==
  ASSUME TypeOK, Filed, NEW a \in Actors, Prepare(a)
  PROVE  Filed'
<1>1. CASE Current(a)
  <2>1. Goto(a, "assemble") BY <1>1 DEF Prepare
  <2>2. /\ wk'[a].at = "assemble" /\ wk'[a].file = wk[a].file /\ wk'[a].old = wk[a].old
        /\ \A b \in Actors \ {a} : wk'[b] = wk[b]
    BY <2>1, Doing
  <2>3. \A b \in Actors : Unmoved(b) BY <2>2 DEF Unmoved, Prepare, At
  <2>4. Quiet BY <2>3 DEF Quiet, Prepare
  <2> QED BY <2>4, QuietKeeps
<1>2. CASE ~Current(a)
  <2>1. Rest(a, Failed(a)) /\ wk[a].at = "prepare" BY <1>2 DEF Prepare, At
  <2>2. disk' = Emptied({wk[a].file}) BY <2>1, NothingThere DEF Prepare
  <2>3. Failed(a) \notin {"prepare", "assemble", "verify", "register", "commit"} BY DEF Failed
  <2> QED BY <2>1, <2>2, <2>3, FiledRefused DEF Prepare
<1> QED BY <1>1, <1>2

(* A file is written to a path nobody else has, or to that of its row.     *)
LEMMA FiledAssemble ==
  ASSUME TypeOK, Filed, NEW a \in Actors, Assemble(a)
  PROVE  Filed'
<1>1. PICK p \in IF a \in Workers THEN {wk[a].file} ELSE Free :
        /\ disk' = [disk EXCEPT ![p] = wk[a].want]
        /\ Becomes(a, IF a \in Workers THEN "verify" ELSE "commit", wk[a].want, p, NoPath)
  BY DEF Assemble
<1>2. p \in Paths
  <2>1. CASE a \in Workers
    <3>1. wk[a].file # NoPath BY <2>1 DEF Filed, Hands, Assemble, At
    <3> QED BY <1>1, <2>1, <3>1, FileTypes
  <2>2. CASE a \notin Workers BY <1>1, <2>2 DEF Free
  <2> QED BY <2>1, <2>2
<1>3. /\ wk'[a].at = (IF a \in Workers THEN "verify" ELSE "commit") /\ wk'[a].want = wk[a].want
      /\ wk'[a].file = p /\ wk'[a].old = NoPath
      /\ \A b \in Actors \ {a} : wk'[b] = wk[b]
  BY <1>1, TakesInHand
<1>4. /\ disk'[p] = wk[a].want
      /\ \A q \in Paths \ {p} : disk'[q] = disk[q]
  BY <1>1, <1>2 DEF TypeOK
<1>5. UNCHANGED <<visit, alive, art, op, owed, lost, blind>> /\ InWork' = InWork
  BY DEF Assemble, InWork
<1>6. p # NoPath /\ p # visit.audio /\ \A b \in Actors \ {a} : wk[b].file # p /\ wk[b].old # p
  <2>1. CASE a \in Workers BY <1>1, <1>2, <2>1, PathIsSome DEF Filed, Apart
  <2>2. CASE a \notin Workers BY <1>1, <1>2, <2>2, PathIsSome DEF Free, Held
  <2> QED BY <2>1, <2>2
<1>7. wk[a].old = NoPath /\ (wk[a].file # NoPath => disk[wk[a].file] = Empty)
  BY DEF Filed, Hands, Content, Assemble, At
<1>8. Hands'
  <2>1. ASSUME NEW b \in Actors
        PROVE  /\ wk'[b].file # NoPath =>
                    wk'[b].at \in {"prepare", "assemble", "verify", "register", "commit", "unlink"}
               /\ wk'[b].old # NoPath => wk'[b].at = "retire"
    BY <1>3 DEF Filed, Hands
  <2>2. ASSUME NEW w \in Workers,
               wk'[w].at \in {"prepare", "assemble", "verify", "register"}
        PROVE  wk'[w].file # NoPath
    BY <1>3, <1>6, <2>2, Kinds DEF Filed, Hands
  <2> QED BY <2>1, <2>2 DEF Hands
<1>9. Apart'
  <2>1. ASSUME NEW b \in Actors
        PROVE  /\ wk'[b].file # NoPath =>
                    /\ wk'[b].file # visit.audio
                    /\ \A c \in Actors \ {b} : wk'[c].file # wk'[b].file /\ wk'[c].old # wk'[b].file
               /\ wk'[b].old # NoPath => wk'[b].old # visit.audio
    <3>1. CASE b = a BY <1>3, <1>6, <3>1
    <3>2. CASE b # a BY <1>3, <1>6, <3>2 DEF Filed, Apart
    <3> QED BY <3>1, <3>2
  <2> QED BY <1>5, <2>1 DEF Apart
<1>10. Pointed' BY <1>5 DEF Filed, Pointed
<1>11. Own'
  <2>1. ASSUME NEW b \in Users \cup Runners, wk'[b].file # NoPath
        PROVE  art[wk'[b].file] = "none" /\ wk'[b].file \notin owed
    <3>1. CASE b = a
      <4>1. a \notin Workers BY <3>1, Kinds
      <4> QED BY <1>1, <1>3, <3>1, <4>1 DEF Free
    <3>2. CASE b # a
      <4>1. wk'[b] = wk[b] BY <1>3, <3>2, Kinds
      <4> QED BY <2>1, <4>1 DEF Filed, Own
    <3> QED BY <3>1, <3>2
  <2> QED BY <1>5, <2>1 DEF Filed, Own
<1>12. Content'
  <2>1. ASSUME NEW b \in Actors, wk'[b].file # NoPath
        PROVE  /\ wk'[b].at \in {"prepare", "assemble"} => disk'[wk'[b].file] = Empty
               /\ wk'[b].at \in {"verify", "register", "commit"} =>
                    \/ disk'[wk'[b].file] = wk'[b].want
                    \/ b \in Workers /\ disk'[wk'[b].file] = Empty
    <3>1. CASE b = a BY <1>3, <1>4, <3>1
    <3>2. CASE b # a
      <4>1. wk'[b] = wk[b] BY <1>3, <3>2
      <4>2. wk[b].file \in Paths \ {p} BY <1>6, <2>1, <3>2, <4>1, FileTypes
      <4> QED BY <1>4, <2>1, <4>1, <4>2 DEF Filed, Content
    <3> QED BY <3>1, <3>2
  <2> QED BY <2>1 DEF Content
<1>13. OneGeneration' BY <1>5 DEF Filed, OneGeneration
<1>14. Making'
  <2>1. ASSUME NEW q \in InWork, NEW b \in Actors
        PROVE  wk'[b].old # q /\ (wk'[b].file = q => b = op.owner)
    <3>1. CASE b # a BY <1>3, <2>1, <3>1 DEF Filed, Making
    <3>2. CASE b = a /\ a \in Workers
      BY <1>1, <1>3, <2>1, <3>2, PathIsSome DEF Filed, Making, InWork
    <3>3. CASE b = a /\ a \notin Workers
      BY <1>1, <1>3, <2>1, <3>3, PathIsSome DEF Free, InWork
    <3> QED BY <3>1, <3>2, <3>3
  <2>2. ASSUME NEW w \in Workers, op.owner = w, op.status = "verifying",
               wk'[w].at = "commit", wk'[w].file = NoPath
        PROVE  InWork = {}
    <3>1. w \in Actors /\ w # a BY <1>3, <1>6, <2>2, Kinds
    <3> QED BY <1>3, <2>2, <3>1 DEF Filed, Making, At
  <2> QED BY <1>5, <2>1, <2>2 DEF Making, At
<1>15. MergedAudioPlays'
  <2>1. visit.audio # NoPath => visit.audio \in Paths \ {p} BY <1>6 DEF TypeOK, Visits
  <2> QED BY <1>4, <1>5, <2>1 DEF Filed, MergedAudioPlays
<1>16. FilesAreAccountedFor'
  <2>1. ASSUME NEW q \in Paths, disk'[q] # Empty
        PROVE  \/ q = visit.audio \/ art[q] \in Kept
               \/ q \in owed \cup lost \cup Held'
    <3>1. CASE q = p BY <1>3, <3>1 DEF Held
    <3>2. CASE q # p /\ q \in Held
      <4>1. PICK b \in Actors : q = wk[b].file \/ q = wk[b].old BY <3>2 DEF Held
      <4>2. b # a BY <1>4, <1>7, <2>1, <3>2, <4>1, PathIsSome
      <4> QED BY <1>3, <4>1, <4>2 DEF Held
    <3>3. CASE q # p /\ q \notin Held
      BY <1>4, <2>1, <3>3 DEF Filed, FilesAreAccountedFor
    <3> QED BY <3>1, <3>2, <3>3
  <2> QED BY <1>5, <2>1 DEF FilesAreAccountedFor
<1> QED BY <1>8, <1>9, <1>10, <1>11, <1>12, <1>13, <1>14, <1>15, <1>16 DEF Filed

(* A publication, acknowledged or not: the file becomes the merged audio,  *)
(* and the one it replaces is to be retired, or lost unless it has a row.  *)
LEMMA PublishKeeps ==
  ASSUME TypeOK, Filed, NEW a \in Actors, wk[a].at = "commit",
         visit'.audio = wk[a].file, visit'.timeline = wk[a].want,
         wk'[a].at \notin {"prepare", "assemble", "verify", "register", "commit"},
         wk'[a].file = NoPath,
         wk'[a].old = NoPath \/ (wk'[a].old = visit.audio /\ wk'[a].at = "retire"),
         \A b \in Actors \ {a} : wk'[b] = wk[b],
         UNCHANGED owed, lost \subseteq lost',
         \/ wk'[a].old = visit.audio \/ visit.audio = NoPath
         \/ art'[visit.audio] \in Kept \/ visit.audio \in lost',
         \/ disk' = disk /\ (wk[a].file # NoPath => disk[wk[a].file] = wk[a].want)
         \/ disk' = Emptied({wk[a].file}) /\ (wk[a].file # NoPath => wk[a].file \in blind'),
         wk[a].file # NoPath => wk[a].file \notin owed,
         \A p \in Paths \ {wk[a].file} :
           /\ art[p] = "none" => art'[p] = "none"
           /\ art[p] \in Kept => art'[p] \in Kept,
         InWork' \subseteq InWork \ {wk[a].file},
         InWork' = {} \/ (UNCHANGED op /\ a \notin Workers)
  PROVE  Filed'
<1>1. \A p \in Paths \ {wk[a].file} : disk'[p] = disk[p] BY DEF Emptied
<1>2. Hands'
  <2>1. ASSUME NEW b \in Actors
        PROVE  /\ wk'[b].file # NoPath =>
                    wk'[b].at \in {"prepare", "assemble", "verify", "register", "commit", "unlink"}
               /\ wk'[b].old # NoPath => wk'[b].at = "retire"
    BY DEF Filed, Hands
  <2>2. ASSUME NEW w \in Workers,
               wk'[w].at \in {"prepare", "assemble", "verify", "register"}
        PROVE  wk'[w].file # NoPath
    BY <2>2, Kinds DEF Filed, Hands
  <2> QED BY <2>1, <2>2 DEF Hands
<1>3. ASSUME NEW b \in Actors, wk'[b].file # NoPath
      PROVE  /\ b # a /\ wk'[b] = wk[b] /\ wk[b].file \in Paths \ {wk[a].file}
             /\ disk'[wk[b].file] = disk[wk[b].file]
  <2>1. b # a /\ wk'[b] = wk[b] BY <1>3
  <2>2. wk[b].file # wk[a].file BY <1>3, <2>1 DEF Filed, Apart
  <2>3. wk[b].file \in Paths BY <1>3, <2>1, FileTypes
  <2> QED BY <1>1, <2>1, <2>2, <2>3
<1>4. Apart'
  <2>1. ASSUME NEW b \in Actors, wk'[b].file # NoPath
        PROVE  /\ wk'[b].file # wk[a].file
               /\ \A c \in Actors \ {b} : wk'[c].file # wk'[b].file /\ wk'[c].old # wk'[b].file
    BY <1>3, <2>1 DEF Filed, Apart
  <2>2. ASSUME NEW b \in Actors, wk'[b].old # NoPath
        PROVE  wk'[b].old # wk[a].file
    <3>1. CASE b = a BY <2>2, <3>1 DEF Filed, Apart
    <3>2. CASE b # a BY <2>2, <3>2 DEF Filed, Apart
    <3> QED BY <3>1, <3>2
  <2> QED BY <2>1, <2>2 DEF Apart
<1>5. Pointed' BY DEF Pointed
<1>6. Own'
  <2>1. ASSUME NEW b \in Users \cup Runners, wk'[b].file # NoPath
        PROVE  art'[wk'[b].file] = "none" /\ wk'[b].file \notin owed
    <3>1. b \in Actors BY Kinds
    <3> QED BY <1>3, <2>1, <3>1 DEF Filed, Own
  <2>2. ASSUME NEW p \in owed PROVE art'[p] = "none"
    <3>1. p \in Paths BY DEF TypeOK
    <3>2. p # wk[a].file BY <3>1, PathIsSome
    <3> QED BY <3>1, <3>2 DEF Filed, Own
  <2> QED BY <2>1, <2>2 DEF Own
<1>7. Content' BY <1>3 DEF Filed, Content
<1>8. OneGeneration' BY DEF Filed, OneGeneration
<1>9. Making'
  <2>1. ASSUME NEW p \in InWork', NEW b \in Actors
        PROVE  wk'[b].old # p /\ (wk'[b].file = p => b = op'.owner)
    <3>1. p \in InWork /\ p \in Paths /\ p # NoPath BY <2>1, PathIsSome DEF InWork
    <3>2. CASE b = a
      <4>1. wk'[b].old # p BY <3>1, <3>2 DEF Filed, Pointed
      <4> QED BY <3>1, <3>2, <4>1
    <3>3. CASE b # a BY <2>1, <3>1, <3>3 DEF Filed, Making
    <3> QED BY <3>2, <3>3
  <2>2. ASSUME NEW w \in Workers, op'.owner = w, op'.status = "verifying",
               wk'[w].at = "commit", wk'[w].file = NoPath
        PROVE  InWork' = {}
    <3>1. w \in Actors BY Kinds
    <3>2. CASE InWork' = {} BY <3>2
    <3>3. CASE UNCHANGED op /\ a \notin Workers
      <4>1. InWork = {} BY <2>2, <3>1, <3>3 DEF Filed, Making, At
      <4> QED BY <4>1
    <3> QED BY <3>2, <3>3
  <2> QED BY <2>1, <2>2 DEF Making, At
<1>10. MergedAudioPlays'
  <2>1. wk[a].file # NoPath => wk[a].file \in Paths BY FileTypes
  <2> QED BY <2>1 DEF MergedAudioPlays, Emptied
<1>11. FilesAreAccountedFor'
  <2>1. ASSUME NEW p \in Paths, disk'[p] # Empty
        PROVE  \/ p = wk[a].file \/ art'[p] \in Kept
               \/ p \in owed \cup lost' \cup Held'
    <3>1. CASE p = wk[a].file BY <3>1
    <3>2. CASE p # wk[a].file /\ p = visit.audio BY <3>2, PathIsSome DEF Held
    <3>3. CASE p # wk[a].file /\ p # visit.audio /\ p \in Held
      <4>1. PICK b \in Actors : p = wk[b].file \/ p = wk[b].old BY <3>3 DEF Held
      <4>2. b # a BY <3>3, <4>1, PathIsSome DEF Filed, Hands
      <4> QED BY <4>1, <4>2 DEF Held
    <3>4. CASE p # wk[a].file /\ p # visit.audio /\ p \notin Held
      BY <1>1, <2>1, <3>4 DEF Filed, FilesAreAccountedFor
    <3> QED BY <3>1, <3>2, <3>3, <3>4
  <2> QED BY <2>1 DEF FilesAreAccountedFor
<1> QED BY <1>2, <1>4, <1>5, <1>6, <1>7, <1>8, <1>9, <1>10, <1>11 DEF Filed

(* What users and runners publish.                                         *)
LEMMA FiledCommitMerge ==
  ASSUME TypeOK, Filed, NEW a \in Actors, CommitMerge(a) \/ CommitMergeUnacknowledged(a)
  PROVE  Filed'
<1>0. /\ wk[a].at = "commit" /\ a \notin Workers /\ UNCHANGED <<art, op, owed>>
      /\ a \in Users \cup Runners
  BY Kinds DEF CommitMerge, CommitMergeUnacknowledged, At
<1>1. InWork' \subseteq InWork \ {wk[a].file}
  <2>1. InWork' = InWork BY <1>0 DEF InWork
  <2>2. wk[a].file \notin InWork BY <1>0, PathIsSome DEF Filed, Own, InWork
  <2> QED BY <2>1, <2>2
<1>2. wk[a].file # NoPath => wk[a].file \notin owed /\ disk[wk[a].file] = wk[a].want
  BY <1>0 DEF Filed, Own, Content
<1>3. CASE CommitMerge(a) /\ Current(a)
  <2>1. Publish(a) /\ Retiring(a) /\ UNCHANGED <<disk, lost, blind>>
    BY <1>3 DEF CommitMerge
  <2> QED BY <1>0, <1>1, <1>2, <2>1, Published, DoingRetire, PublishKeeps
<1>4. CASE CommitMerge(a) /\ ~Current(a)
  <2>1. Failed(a) \notin {"prepare", "assemble", "verify", "register", "commit"} BY DEF Failed
  <2> QED BY <1>0, <1>4, <2>1, FiledRefused DEF CommitMerge, Refuse, TypeOK
<1>5. CASE CommitMergeUnacknowledged(a)
  <2>1. Publish(a) /\ Rest(a, Failed(a)) /\ disk' = Emptied({wk[a].file})
    BY <1>5 DEF CommitMergeUnacknowledged, Unacknowledged
  <2>2. wk[a].file # NoPath => wk[a].file \in blind'
    BY <1>5, FileTypes DEF CommitMergeUnacknowledged, Unacknowledged
  <2>3. /\ lost \subseteq lost'
        /\ visit.audio = NoPath \/ art'[visit.audio] \in Kept \/ visit.audio \in lost'
    BY <1>0, <1>5 DEF CommitMergeUnacknowledged, TypeOK, Visits
  <2>4. Failed(a) \notin {"prepare", "assemble", "verify", "register", "commit"} BY DEF Failed
  <2>5. /\ wk'[a].at = Failed(a) /\ wk'[a].file = NoPath /\ wk'[a].old = NoPath
        /\ \A b \in Actors \ {a} : wk'[b] = wk[b]
    BY <2>1, Doing
  <2> QED BY <1>0, <1>1, <1>2, <2>1, <2>2, <2>3, <2>4, <2>5, Published, PublishKeeps
<1> QED BY <1>3, <1>4, <1>5

-----------------------------------------------------------------------------
(* An audio operation.                                                     *)

(* A worker about to publish has the only generation in the making.        *)
LEMMA AttachedEmpties ==
  ASSUME TypeOK, Filed, NEW w \in Workers, wk[w].at = "commit", Publishable(w),
         art' = Attached(wk[w].file)
  PROVE  /\ InWork' = {}
         /\ wk[w].file # NoPath => wk[w].file \notin owed /\ disk[wk[w].file] = wk[w].want
         /\ \A p \in Paths \ {wk[w].file} :
              /\ art[p] = "none" => art'[p] = "none"
              /\ art[p] \in Kept => art'[p] \in Kept
<1>0. w \in Actors BY Kinds
<1>1. \A p \in Paths : art'[p] = IF p = wk[w].file THEN "ATTACHED"
                                 ELSE IF art[p] = "ATTACHED" /\ wk[w].file # visit.audio THEN "RETIRED"
                                 ELSE art[p]
  BY DEF Attached
<1>2. CASE wk[w].file = NoPath
  <2>1. InWork = {} BY <1>2 DEF Publishable, Leads, Filed, Making, At
  <2>2. InWork' = {} BY <1>1, <2>1 DEF InWork
  <2> QED BY <1>1, <1>2, <2>2 DEF Kept
<1>3. CASE wk[w].file # NoPath
  <2>1. wk[w].file \in Paths /\ art[wk[w].file] = "READY" /\ disk[wk[w].file] # Empty
    BY <1>0, <1>3, FileTypes DEF Publishable
  <2>2. wk[w].file \in InWork BY <2>1 DEF InWork
  <2>3. \A p \in InWork : p = wk[w].file BY <2>2 DEF Filed, OneGeneration
  <2>4. InWork' = {} BY <1>1, <2>3 DEF InWork
  <2>5. wk[w].file \notin owed BY <2>1 DEF Filed, Own
  <2>6. disk[wk[w].file] = wk[w].want BY <1>0, <1>3, <2>1 DEF Filed, Content
  <2> QED BY <1>1, <2>4, <2>5, <2>6 DEF Kept
<1> QED BY <1>2, <1>3

(* The publication of an operation, and its refusal.                       *)
LEMMA FiledCommitOperation ==
  ASSUME TypeOK, Filed, NEW w \in Workers, CommitOperation(w) \/ CommitOperationUnacknowledged(w)
  PROVE  Filed'
<1>0. w \in Actors /\ wk[w].at = "commit" /\ UNCHANGED owed
  BY Kinds DEF CommitOperation, CommitOperationUnacknowledged, Elsewhere, At
<1>1. CASE CommitOperation(w) /\ Publishable(w)
  <2>1. Publish(w) /\ Retiring(w) /\ art' = Attached(wk[w].file) /\ UNCHANGED <<disk, lost, blind>>
    BY <1>1 DEF CommitOperation, Elsewhere
  <2> QED BY <1>0, <1>1, <2>1, AttachedEmpties, Published, DoingRetire, PublishKeeps
<1>2. CASE CommitOperation(w) /\ ~Publishable(w)
  <2>1. PICK phase \in {"cancel", "fail"} : Rest(w, phase)
    BY <1>2 DEF CommitOperation
  <2> QED BY <1>0, <1>2, <2>1, FiledRefused DEF CommitOperation, Elsewhere
<1>3. CASE CommitOperationUnacknowledged(w)
  <2>1. /\ Publish(w) /\ Rest(w, Failed(w)) /\ disk' = Emptied({wk[w].file})
        /\ Publishable(w) /\ art' = Attached(wk[w].file)
    BY <1>3 DEF CommitOperationUnacknowledged, Unacknowledged
  <2>2. wk[w].file # NoPath => wk[w].file \in blind'
    BY <1>0, <1>3, FileTypes DEF CommitOperationUnacknowledged, Unacknowledged
  <2>3. /\ lost \subseteq lost'
        /\ visit.audio = NoPath \/ art'[visit.audio] \in Kept \/ visit.audio \in lost'
    BY <1>3 DEF CommitOperationUnacknowledged, TypeOK, Visits
  <2>4. Failed(w) \notin {"prepare", "assemble", "verify", "register", "commit"} BY DEF Failed
  <2>5. /\ wk'[w].at = Failed(w) /\ wk'[w].file = NoPath /\ wk'[w].old = NoPath
        /\ \A b \in Actors \ {w} : wk'[b] = wk[b]
    BY <1>0, <2>1, Doing
  <2> QED BY <1>0, <2>1, <2>2, <2>3, <2>4, <2>5, AttachedEmpties, Published, PublishKeeps
<1> QED BY <1>1, <1>2, <1>3

(* The steps of a worker before it has a file, and after.                  *)
LEMMA FiledClaim ==
  ASSUME TypeOK, Filed, NEW w \in Workers, Claim(w) \/ Probe(w)
  PROVE  Filed'
<1>0. w \in Actors /\ wk[w].at \notin Holding
  BY Kinds DEF Claim, Probe, At, Holding
<1>1. wk[w].file = NoPath /\ wk[w].old = NoPath BY <1>0, EmptyHanded
<1>2. CASE Claim(w)
  <2>1. /\ wk'[w].at = "probe" /\ wk'[w].file = NoPath /\ wk'[w].old = NoPath
        /\ \A b \in Actors \ {w} : wk'[b] = wk[b]
    BY <1>0, <1>1, <1>2, Doing DEF Claim
  <2>2. InWork = {} BY <1>2, NothingInWork DEF Claim
  <2> QED BY <1>0, <1>2, <2>1, <2>2, QuietStep DEF Claim, Elsewhere
<1>3. CASE Probe(w) /\ Leads(w, "claimed")
  <2>1. PICK phase \in {"cancel", "slice"} : Becomes(w, phase, op.want, NoPath, NoPath)
    BY <1>3 DEF Probe
  <2>2. /\ wk'[w].at = phase /\ wk'[w].file = NoPath /\ wk'[w].old = NoPath
        /\ \A b \in Actors \ {w} : wk'[b] = wk[b]
    BY <1>0, <2>1, TakesInHand
  <2>3. InWork = {} BY <1>3, NothingInWork DEF Leads
  <2> QED BY <1>0, <1>3, <2>2, <2>3, QuietStep DEF Probe, Elsewhere
<1>4. CASE Probe(w) /\ ~Leads(w, "claimed")
  <2>1. /\ wk'[w].at = "fail" /\ wk'[w].file = NoPath /\ wk'[w].old = NoPath
        /\ \A b \in Actors \ {w} : wk'[b] = wk[b]
    BY <1>0, <1>4, Doing DEF Probe
  <2> QED BY <1>0, <1>4, <2>1, QuietStep DEF Probe, Elsewhere
<1> QED BY <1>2, <1>3, <1>4

(* A path is registered for the file of a physical merge.                  *)
LEMMA FiledSlicePhysical ==
  ASSUME TypeOK, Filed, NEW w \in Workers, Slice(w), Leads(w, "probing"), op.physical
  PROVE  Filed'
<1>0. w \in Actors /\ wk[w].at = "slice" /\ wk[w].at \notin Holding
  BY Kinds DEF Slice, At, Holding
<1>1. wk[w].file = NoPath /\ wk[w].old = NoPath BY <1>0, EmptyHanded
<1>2. PICK p \in Free : /\ art' = [art EXCEPT ![p] = "PREPARING"]
                        /\ Becomes(w, "prepare", wk[w].want, p, NoPath)
  BY DEF Slice
<1>3. /\ p \in Paths /\ p # NoPath /\ p # visit.audio /\ p \notin owed /\ p \notin Held
      /\ disk[p] = Empty /\ art[p] = "none"
  BY PathIsSome DEF Free
<1>4. /\ wk'[w].at = "prepare" /\ wk'[w].want = wk[w].want
      /\ wk'[w].file = p /\ wk'[w].old = NoPath
      /\ \A b \in Actors \ {w} : wk'[b] = wk[b]
  BY <1>0, <1>2, Doing
<1>5. art'[p] = "PREPARING" /\ \A q \in Paths \ {p} : art'[q] = art[q]
  BY <1>2, <1>3 DEF TypeOK
<1>6. UNCHANGED <<visit, disk, owed, lost, blind>> BY DEF Slice, Elsewhere
<1>7. op'.status = "assembling" /\ op'.owner = w
  BY DEF Slice, Leads, TypeOK, Operations
<1>8. InWork' = {p}
  <2>1. InWork = {} BY NothingInWork DEF Leads
  <2> QED BY <1>3, <1>5, <2>1 DEF InWork
<1>9. \A b \in Actors : wk[b].file # p /\ wk[b].old # p BY <1>3 DEF Held
<1>10. Hands'
  <2>1. ASSUME NEW b \in Actors
        PROVE  /\ wk'[b].file # NoPath =>
                    wk'[b].at \in {"prepare", "assemble", "verify", "register", "commit", "unlink"}
               /\ wk'[b].old # NoPath => wk'[b].at = "retire"
    BY <1>4 DEF Filed, Hands
  <2>2. ASSUME NEW v \in Workers,
               wk'[v].at \in {"prepare", "assemble", "verify", "register"}
        PROVE  wk'[v].file # NoPath
    BY <1>3, <1>4, <2>2, Kinds DEF Filed, Hands
  <2> QED BY <2>1, <2>2 DEF Hands
<1>11. Apart'
  <2>1. ASSUME NEW b \in Actors
        PROVE  /\ wk'[b].file # NoPath =>
                    /\ wk'[b].file # visit.audio
                    /\ \A c \in Actors \ {b} : wk'[c].file # wk'[b].file /\ wk'[c].old # wk'[b].file
               /\ wk'[b].old # NoPath => wk'[b].old # visit.audio
    <3>1. CASE b = w BY <1>3, <1>4, <1>9, <3>1
    <3>2. CASE b # w BY <1>4, <1>9, <3>2 DEF Filed, Apart
    <3> QED BY <3>1, <3>2
  <2> QED BY <1>6, <2>1 DEF Apart
<1>12. Pointed' BY <1>3, <1>6, <1>8 DEF Filed, Pointed
<1>13. Own'
  <2>1. ASSUME NEW b \in Users \cup Runners, wk'[b].file # NoPath
        PROVE  art'[wk'[b].file] = "none" /\ wk'[b].file \notin owed
    <3>1. b \in Actors /\ b # w BY Kinds
    <3>2. wk'[b] = wk[b] /\ wk[b].file \in Paths \ {p} BY <1>4, <1>9, <2>1, <3>1, FileTypes
    <3> QED BY <1>5, <2>1, <3>2 DEF Filed, Own
  <2>2. ASSUME NEW q \in owed PROVE art'[q] = "none"
    BY <1>3, <1>5, <2>2 DEF TypeOK, Filed, Own
  <2> QED BY <1>6, <2>1, <2>2 DEF Own
<1>14. Content' BY <1>3, <1>4, <1>6 DEF Filed, Content
<1>15. OneGeneration' BY <1>7, <1>8 DEF OneGeneration
<1>16. Making' BY <1>3, <1>4, <1>7, <1>8, <1>9 DEF Making
<1>17. MergedAudioPlays' BY <1>6 DEF Filed, MergedAudioPlays
<1>18. FilesAreAccountedFor'
  <2>1. ASSUME NEW q \in Paths, disk[q] # Empty
        PROVE  q = visit.audio \/ art'[q] \in Kept \/ q \in owed \cup lost \cup Held'
    <3>1. q # p BY <1>3, <2>1
    <3>2. q \in Held => q \in Held'
      <4>1. ASSUME NEW b \in Actors, q = wk[b].file \/ q = wk[b].old
            PROVE  q \in Held'
        BY <1>1, <1>4, <4>1, PathIsSome DEF Held
      <4> QED BY <4>1 DEF Held
    <3> QED BY <1>5, <2>1, <3>1, <3>2 DEF Filed, FilesAreAccountedFor
  <2> QED BY <1>6, <2>1 DEF FilesAreAccountedFor
<1> QED BY <1>10, <1>11, <1>12, <1>13, <1>14, <1>15, <1>16, <1>17, <1>18 DEF Filed

(* A stage is passed with the file at hand.                                *)
LEMMA StageKeeps ==
  ASSUME TypeOK, Filed, NEW w \in Workers, op.owner = w, wk[w].at \in {"verify", "register"},
         wk'[w].at \in {"register", "commit"},
         wk'[w].file = wk[w].file, wk'[w].old = wk[w].old, wk'[w].want = wk[w].want,
         \A b \in Actors \ {w} : wk'[b] = wk[b],
         UNCHANGED <<visit, disk, owed, lost, blind>>,
         op'.owner = w, op'.status \in {"assembling", "verifying"},
         InWork' = InWork,
         \A p \in Paths : /\ art[p] = "none" <=> art'[p] = "none"
                          /\ art[p] \in Kept => art'[p] \in Kept
  PROVE  Filed'
<1>0. w \in Actors BY Kinds
<1>1. wk[w].file # NoPath BY DEF Filed, Hands
<1>2. \A b \in Actors : wk'[b].file = wk[b].file /\ wk'[b].old = wk[b].old /\ wk'[b].want = wk[b].want
  BY <1>0
<1>3. Hands'
  <2>1. ASSUME NEW b \in Actors
        PROVE  /\ wk'[b].file # NoPath =>
                    wk'[b].at \in {"prepare", "assemble", "verify", "register", "commit", "unlink"}
               /\ wk'[b].old # NoPath => wk'[b].at = "retire"
    BY <1>0 DEF Filed, Hands
  <2>2. ASSUME NEW v \in Workers,
               wk'[v].at \in {"prepare", "assemble", "verify", "register"}
        PROVE  wk'[v].file # NoPath
    BY <1>1, <2>2, Kinds DEF Filed, Hands
  <2> QED BY <2>1, <2>2 DEF Hands
<1>4. Apart' BY <1>2 DEF Filed, Apart
<1>5. Pointed' BY DEF Filed, Pointed
<1>6. Own'
  <2>1. ASSUME NEW b \in Users \cup Runners, wk'[b].file # NoPath
        PROVE  art'[wk'[b].file] = "none" /\ wk'[b].file \notin owed
    <3>1. b \in Actors BY Kinds
    <3>2. wk[b].file \in Paths /\ wk'[b].file = wk[b].file BY <1>2, <2>1, <3>1, FileTypes
    <3> QED BY <2>1, <3>2 DEF Filed, Own
  <2>2. \A p \in owed : art'[p] = "none" BY DEF Filed, Own, TypeOK
  <2> QED BY <2>1, <2>2 DEF Own
<1>7. Content'
  <2>1. ASSUME NEW b \in Actors, wk'[b].file # NoPath
        PROVE  /\ wk'[b].at \in {"prepare", "assemble"} => disk[wk'[b].file] = Empty
               /\ wk'[b].at \in {"verify", "register", "commit"} =>
                    \/ disk[wk'[b].file] = wk'[b].want
                    \/ b \in Workers /\ disk[wk'[b].file] = Empty
    <3>1. CASE b = w BY <1>0, <2>1, <3>1 DEF Filed, Content
    <3>2. CASE b # w BY <2>1, <3>2 DEF Filed, Content
    <3> QED BY <3>1, <3>2
  <2> QED BY <2>1 DEF Content
<1>8. OneGeneration' BY DEF Filed, OneGeneration
<1>9. Making'
  <2>1. ASSUME NEW p \in InWork, NEW b \in Actors
        PROVE  wk'[b].old # p /\ (wk'[b].file = p => b = op'.owner)
    BY <1>2 DEF Filed, Making
  <2>2. ASSUME NEW v \in Workers, op'.owner = v, wk'[v].file = NoPath
        PROVE  FALSE
    BY <1>1, <2>2
  <2> QED BY <2>1, <2>2 DEF Making
<1>10. MergedAudioPlays' BY DEF Filed, MergedAudioPlays
<1>11. FilesAreAccountedFor'
  <2>1. Held' = Held BY <1>2 DEF Held
  <2> QED BY <2>1 DEF Filed, FilesAreAccountedFor
<1> QED BY <1>3, <1>4, <1>5, <1>6, <1>7, <1>8, <1>9, <1>10, <1>11 DEF Filed

(* Slicing, verifying and registering.                                     *)
LEMMA FiledStage ==
  ASSUME TypeOK, Filed, NEW w \in Workers, Slice(w) \/ Verify(w) \/ Register(w)
  PROVE  Filed'
<1>0. w \in Actors BY Kinds
<1>1. CASE Slice(w) /\ Leads(w, "probing") /\ op.physical BY <1>1, FiledSlicePhysical
<1>2. CASE Slice(w) /\ ~(Leads(w, "probing") /\ op.physical)
  <2>0. wk[w].at = "slice" /\ wk[w].at \notin Holding BY <1>2 DEF Slice, At, Holding
  <2>1. wk[w].file = NoPath /\ wk[w].old = NoPath BY <1>0, <2>0, EmptyHanded
  <2>2. CASE Leads(w, "probing")
    <3>1. Goto(w, "commit") /\ UNCHANGED art BY <1>2, <2>2 DEF Slice
    <3>2. /\ wk'[w].at = "commit" /\ wk'[w].file = NoPath /\ wk'[w].old = NoPath
          /\ \A b \in Actors \ {w} : wk'[b] = wk[b]
      BY <1>0, <2>1, <3>1, Doing
    <3>3. InWork = {} BY <2>2, NothingInWork DEF Leads
    <3> QED BY <1>0, <1>2, <2>0, <3>1, <3>2, <3>3, QuietStep DEF Slice, Elsewhere
  <2>3. CASE ~Leads(w, "probing")
    <3>1. Rest(w, "fail") /\ UNCHANGED <<op, art>> BY <1>2, <2>3 DEF Slice
    <3>2. /\ wk'[w].at = "fail" /\ wk'[w].file = NoPath /\ wk'[w].old = NoPath
          /\ \A b \in Actors \ {w} : wk'[b] = wk[b]
      BY <1>0, <3>1, Doing
    <3> QED BY <1>0, <1>2, <2>0, <3>1, <3>2, QuietStep DEF Slice, Elsewhere
  <2> QED BY <2>2, <2>3
<1>3. CASE Verify(w) /\ Leads(w, "assembling")
  <2>1. Goto(w, "register") /\ wk[w].at = "verify" /\ UNCHANGED <<visit, disk, art, owed, lost, blind>>
    BY <1>3 DEF Verify, Elsewhere, At
  <2>2. op'.owner = w /\ op'.status = "verifying" /\ op.owner = w
    BY <1>3 DEF Verify, Leads, TypeOK, Operations
  <2>3. /\ wk'[w].at = "register" /\ wk'[w].file = wk[w].file
        /\ wk'[w].old = wk[w].old /\ wk'[w].want = wk[w].want
        /\ \A b \in Actors \ {w} : wk'[b] = wk[b]
    BY <1>0, <2>1, Doing
  <2>4. InWork' = InWork BY <2>1 DEF InWork
  <2> QED BY <2>1, <2>2, <2>3, <2>4, StageKeeps
<1>4. CASE Verify(w) /\ ~Leads(w, "assembling")
  <2>1. Rest(w, "fail") /\ wk[w].at = "verify" BY <1>4 DEF Verify, At
  <2> QED BY <1>0, <1>4, <2>1, FiledRefused DEF Verify, Elsewhere
<1>5. CASE Register(w) /\ Leads(w, "verifying") /\ disk[wk[w].file] # Empty
             /\ art[wk[w].file] = "PREPARING"
  <2>1. Goto(w, "commit") /\ wk[w].at = "register" /\ UNCHANGED <<visit, disk, op, owed, lost, blind>>
    BY <1>5 DEF Register, Elsewhere, At
  <2>2. op.owner = w /\ op.status = "verifying" BY <1>5 DEF Leads
  <2>3. /\ wk'[w].at = "commit" /\ wk'[w].file = wk[w].file
        /\ wk'[w].old = wk[w].old /\ wk'[w].want = wk[w].want
        /\ \A b \in Actors \ {w} : wk'[b] = wk[b]
    BY <1>0, <2>1, Doing
  <2>4. wk[w].file \in Paths BY <1>0, <2>1, FileTypes DEF Filed, Hands
  <2>5. \A p \in Paths : art'[p] = IF p = wk[w].file THEN "READY" ELSE art[p]
    BY <1>5, <2>4 DEF Register, TypeOK
  <2>6. InWork' = InWork BY <1>5, <2>5 DEF InWork
  <2>7. \A p \in Paths : /\ art[p] = "none" <=> art'[p] = "none"
                         /\ art[p] \in Kept => art'[p] \in Kept
    BY <1>5, <2>5 DEF Kept
  <2> QED BY <2>1, <2>2, <2>3, <2>6, <2>7, StageKeeps
<1>6. CASE Register(w) /\ ~(Leads(w, "verifying") /\ disk[wk[w].file] # Empty
             /\ art[wk[w].file] = "PREPARING")
  <2>1. Rest(w, "fail") /\ wk[w].at = "register" BY <1>6 DEF Register, At
  <2>2. disk' = Emptied({wk[w].file}) /\ UNCHANGED <<visit, art, op, owed, lost, blind>>
    BY <1>6 DEF Register, Elsewhere
  <2> QED BY <1>0, <2>1, <2>2, FiledRefused
<1> QED BY <1>1, <1>2, <1>3, <1>4, <1>5, <1>6

(* An operation that ends otherwise disowns its generation: the rows stay  *)
(* and are not in the making any more.                                     *)
LEMMA DisownedEmpties ==
  ASSUME TypeOK, art' = Disowned
  PROVE  /\ InWork' = {}
         /\ \A p \in Paths : /\ art[p] = "none" <=> art'[p] = "none"
                             /\ art[p] \in Kept => art'[p] \in Kept
<1>1. \A p \in Paths : art'[p] = IF art[p] = "PREPARING" THEN "FAILED"
                                 ELSE IF art[p] = "READY" THEN "ORPHANED" ELSE art[p]
  BY DEF Disowned
<1> QED BY <1>1 DEF InWork, Kept

(* The owner of an operation ends it, and takes the file to delete it.     *)
LEMMA FiledDisown ==
  ASSUME TypeOK, Filed, NEW w \in Workers, End(w), art' = Disowned, op.owner = w,
         NEW p \in Paths \cup {NoPath}, p # NoPath => p \in InWork,
         Becomes(w, "unlink", Empty, p, NoPath)
  PROVE  Filed'
<1>0. w \in Actors /\ wk[w].at \in {"fail", "cancel"} /\ wk[w].at \notin Holding
      /\ UNCHANGED <<visit, disk, owed, lost, blind>>
  BY Kinds DEF End, At, Holding, Elsewhere
<1>1. wk[w].file = NoPath /\ wk[w].old = NoPath BY <1>0, EmptyHanded
<1>2. /\ wk'[w].at = "unlink" /\ wk'[w].file = p /\ wk'[w].old = NoPath
      /\ \A b \in Actors \ {w} : wk'[b] = wk[b]
  BY <1>0, TakesInHand
<1>3. /\ InWork' = {}
      /\ \A q \in Paths : /\ art[q] = "none" <=> art'[q] = "none"
                          /\ art[q] \in Kept => art'[q] \in Kept
  BY DisownedEmpties
<1>4. p # NoPath => /\ p # visit.audio
                    /\ \A b \in Actors \ {w} : wk[b].file # p /\ wk[b].old # p
  BY DEF Filed, Pointed, Making
<1>5. Hands'
  <2>1. ASSUME NEW b \in Actors
        PROVE  /\ wk'[b].file # NoPath =>
                    wk'[b].at \in {"prepare", "assemble", "verify", "register", "commit", "unlink"}
               /\ wk'[b].old # NoPath => wk'[b].at = "retire"
    BY <1>2 DEF Filed, Hands
  <2>2. ASSUME NEW v \in Workers,
               wk'[v].at \in {"prepare", "assemble", "verify", "register"}
        PROVE  wk'[v].file # NoPath
    BY <1>2, <2>2, Kinds DEF Filed, Hands
  <2> QED BY <2>1, <2>2 DEF Hands
<1>6. Apart'
  <2>1. ASSUME NEW b \in Actors
        PROVE  /\ wk'[b].file # NoPath =>
                    /\ wk'[b].file # visit.audio
                    /\ \A c \in Actors \ {b} : wk'[c].file # wk'[b].file /\ wk'[c].old # wk'[b].file
               /\ wk'[b].old # NoPath => wk'[b].old # visit.audio
    <3>1. CASE b = w BY <1>2, <1>4, <3>1
    <3>2. CASE b # w BY <1>2, <1>4, <3>2 DEF Filed, Apart
    <3> QED BY <3>1, <3>2
  <2> QED BY <1>0, <2>1 DEF Apart
<1>7. Pointed' BY <1>0, <1>3 DEF Filed, Pointed
<1>8. Own'
  <2>1. ASSUME NEW b \in Users \cup Runners, wk'[b].file # NoPath
        PROVE  art'[wk'[b].file] = "none" /\ wk'[b].file \notin owed
    <3>1. b \in Actors /\ b # w BY Kinds
    <3>2. wk'[b] = wk[b] /\ wk[b].file \in Paths BY <1>2, <2>1, <3>1, FileTypes
    <3> QED BY <1>3, <2>1, <3>2 DEF Filed, Own
  <2>2. \A q \in owed : art'[q] = "none" BY <1>3 DEF Filed, Own, TypeOK
  <2> QED BY <1>0, <2>1, <2>2 DEF Own
<1>9. Content' BY <1>0, <1>2 DEF Filed, Content
<1>10. OneGeneration' BY <1>3 DEF OneGeneration
<1>11. Making' BY <1>3 DEF Making
<1>12. MergedAudioPlays' BY <1>0 DEF Filed, MergedAudioPlays
<1>13. FilesAreAccountedFor'
  <2>1. ASSUME NEW q \in Held \cap Paths PROVE q \in Held'
    <3>1. PICK b \in Actors : q = wk[b].file \/ q = wk[b].old BY DEF Held
    <3>2. b # w BY <1>1, <3>1, PathIsSome
    <3> QED BY <1>2, <3>1, <3>2 DEF Held
  <2> QED BY <1>0, <1>3, <2>1 DEF Filed, FilesAreAccountedFor
<1> QED BY <1>5, <1>6, <1>7, <1>8, <1>9, <1>10, <1>11, <1>12, <1>13 DEF Filed

(* The ends of an attempt.                                                 *)
LEMMA FiledEnd ==
  ASSUME TypeOK, Filed, NEW w \in Workers, End(w) \/ Unlink(w)
  PROVE  Filed'
<1>0. w \in Actors BY Kinds
<1>1. CASE End(w)
  <2>1. CASE op.owner = w /\ (At(w, "cancel") \/ op.status \notin {"succeeded", "cancelled"})
    <3>1. art' = Disowned BY <1>1, <2>1 DEF End
    <3>2. PICK p \in IF InWork = {} THEN {NoPath} ELSE InWork :
            Becomes(w, "unlink", Empty, p, NoPath)
      BY <1>1, <2>1 DEF End
    <3>3. p \in Paths \cup {NoPath} /\ (p # NoPath => p \in InWork) BY <3>2 DEF InWork
    <3> QED BY <1>1, <2>1, <3>1, <3>2, <3>3, FiledDisown
  <2>2. CASE ~(op.owner = w /\ (At(w, "cancel") \/ op.status \notin {"succeeded", "cancelled"}))
    <3>1. Rest(w, "idle") /\ UNCHANGED <<op, art>> BY <1>1, <2>2 DEF End
    <3>2. wk[w].at \notin Holding BY <1>1 DEF End, At, Holding
    <3>3. /\ wk'[w].at = "idle" /\ wk'[w].file = NoPath /\ wk'[w].old = NoPath
          /\ \A b \in Actors \ {w} : wk'[b] = wk[b]
      BY <1>0, <3>1, Doing
    <3> QED BY <1>0, <1>1, <3>1, <3>2, <3>3, QuietStep DEF End, Elsewhere
  <2> QED BY <2>1, <2>2
<1>2. CASE Unlink(w)
  <2>1. Rest(w, "idle") /\ wk[w].at = "unlink" BY <1>2 DEF Unlink, At
  <2> QED BY <1>0, <1>2, <2>1, FiledRefused DEF Unlink, Elsewhere
<1> QED BY <1>1, <1>2

-----------------------------------------------------------------------------
(* Reconcilers and erasures.                                               *)

(* Files are deleted, none of a user or a runner, who have no row by which *)
(* they could be found, and the merged audio only by a rollback.           *)
LEMMA DeletedKeeps ==
  ASSUME TypeOK, Filed, NEW ps \in SUBSET Paths, disk' = Emptied(ps),
         \A p \in ps : p = visit.audio \/ art[p] # "none" \/ p \in owed,
         visit.audio \in ps => visit.audio \in blind', blind \subseteq blind',
         UNCHANGED <<visit, wk, lost>>,
         owed' \subseteq owed, owed \subseteq owed' \cup ps,
         \A p \in Paths :
           /\ art[p] = "none" => art'[p] = "none"
           /\ art[p] \in Kept => p \in ps \/ art'[p] \in Kept,
         InWork' \subseteq InWork,
         InWork' = {} \/ (op'.owner = op.owner /\ op'.status = op.status)
  PROVE  Filed'
<1>1. \A p \in Paths : disk'[p] = IF p \in ps THEN Empty ELSE disk[p] BY DEF Emptied
<1>2. Hands' BY DEF Filed, Hands
<1>3. Apart' BY DEF Filed, Apart
<1>4. Pointed' BY DEF Filed, Pointed
<1>5. Own'
  <2>1. ASSUME NEW b \in Users \cup Runners, wk[b].file # NoPath
        PROVE  art'[wk[b].file] = "none" /\ wk[b].file \notin owed'
    <3>1. b \in Actors BY Kinds
    <3>2. wk[b].file \in Paths BY <2>1, <3>1, FileTypes
    <3> QED BY <2>1, <3>2 DEF Filed, Own
  <2>2. \A p \in owed' : art'[p] = "none" BY DEF Filed, Own, TypeOK
  <2> QED BY <2>1, <2>2 DEF Own
<1>6. Content'
  <2>1. ASSUME NEW b \in Actors, wk[b].file # NoPath
        PROVE  /\ wk[b].at \in {"prepare", "assemble"} => disk'[wk[b].file] = Empty
               /\ wk[b].at \in {"verify", "register", "commit"} =>
                    \/ disk'[wk[b].file] = wk[b].want
                    \/ b \in Workers /\ disk'[wk[b].file] = Empty
    <3>1. wk[b].file \in Paths BY <2>1, FileTypes
    <3>2. CASE wk[b].file \notin ps BY <1>1, <2>1, <3>1, <3>2 DEF Filed, Content
    <3>3. CASE wk[b].file \in ps
      <4>1. disk'[wk[b].file] = Empty BY <1>1, <3>1, <3>3
      <4>2. b \in Workers BY <2>1, <3>3, Kinds DEF Filed, Own, Apart
      <4> QED BY <4>1, <4>2
    <3> QED BY <3>2, <3>3
  <2> QED BY <2>1 DEF Content
<1>7. OneGeneration' BY DEF Filed, OneGeneration
<1>8. Making' BY DEF Filed, Making, At
<1>9. MergedAudioPlays'
  <2>1. visit.audio # NoPath => visit.audio \in Paths BY DEF TypeOK, Visits
  <2> QED BY <1>1, <2>1 DEF Filed, MergedAudioPlays
<1>10. FilesAreAccountedFor'
  <2>1. Held' = Held BY DEF Held
  <2> QED BY <1>1, <2>1 DEF Filed, FilesAreAccountedFor
<1> QED BY <1>2, <1>3, <1>4, <1>5, <1>6, <1>7, <1>8, <1>9, <1>10 DEF Filed

(* The reconcilers of operations and artifacts, and a drained outbox.      *)
LEMMA FiledRecovery ==
  ASSUME TypeOK, Filed, ReconcileStale \/ EraseFiles \/ \E p \in Paths : Reclaim(p)
  PROVE  Filed'
<1>1. CASE ReconcileStale
  <2>1. PICK ps \in {{}, InWork} : disk' = Emptied(ps)
    BY <1>1, EmptiedNone DEF ReconcileStale
  <2>2. /\ InWork' = {}
        /\ \A p \in Paths : /\ art[p] = "none" <=> art'[p] = "none"
                            /\ art[p] \in Kept => art'[p] \in Kept
    BY <1>1, DisownedEmpties DEF ReconcileStale
  <2>3. ps \in SUBSET Paths /\ visit.audio \notin ps /\ \A p \in ps : art[p] # "none"
    BY PathIsSome DEF InWork, Kept, Filed, Pointed
  <2>4. UNCHANGED <<visit, wk, owed, lost, blind>> BY <1>1 DEF ReconcileStale, Elsewhere
  <2> QED BY <2>1, <2>2, <2>3, <2>4, DeletedKeeps
<1>2. CASE EraseFiles
  <2>1. owed \in SUBSET Paths BY DEF TypeOK
  <2>2. visit.audio \notin owed BY <2>1, PathIsSome DEF Filed, Pointed
  <2>3. InWork' = InWork BY <1>2 DEF EraseFiles, InWork
  <2> QED BY <1>2, <2>1, <2>2, <2>3, DeletedKeeps DEF EraseFiles
<1>3. ASSUME NEW p \in Paths, Reclaim(p)
      PROVE  Filed'
  <2>1. /\ art[p] \in Kept /\ p # visit.audio
        /\ p \in InWork => ~(op.status \in Active /\ op.live)
        /\ disk' = Emptied({p}) /\ UNCHANGED <<visit, op, wk, owed, lost, blind>>
    BY <1>3 DEF Reclaim, Reclaimable, Elsewhere
  <2>2. \A q \in Paths : art'[q] = IF q # p THEN art[q]
                                   ELSE IF art[p] = "PREPARING" THEN "FAILED"
                                   ELSE IF art[p] = "READY" THEN "ORPHANED" ELSE "none"
    BY <1>3 DEF Reclaim, TypeOK
  <2>3. InWork' \subseteq InWork BY <2>2 DEF InWork
  <2>4. art[p] # "none" BY <2>1 DEF Kept
  <2>5. {p} \in SUBSET Paths /\ visit.audio \notin {p} BY <2>1
  <2>6. InWork' = {} \/ (op'.owner = op.owner /\ op'.status = op.status) BY <2>1
  <2>7. \A q \in Paths : /\ art[q] = "none" => art'[q] = "none"
                         /\ art[q] \in Kept => q \in {p} \/ art'[q] \in Kept
    BY <2>2, <2>4
  <2> QED BY <2>1, <2>3, <2>4, <2>5, <2>6, <2>7, DeletedKeeps
<1> QED BY <1>1, <1>2, <1>3

(* The rows and the pointer are taken, and the files owed, deleted or lost.*)
LEMMA InvalidateKeeps ==
  ASSUME TypeOK, Filed, NEW r \in Recordings, Invalidate(r), UNCHANGED <<wk, blind>>,
         \/ owed' = owed \cup Files /\ UNCHANGED disk
         \/ disk' = Emptied(Files) /\ UNCHANGED owed
  PROVE  Filed'
<1>1. /\ visit'.audio = NoPath /\ lost' = lost \cup Unlisted
      /\ \A p \in Paths : art'[p] = "none"
  BY DEF Invalidate, TypeOK, Visits
<1>2. InWork' = {} /\ Held' = Held BY <1>1 DEF InWork, Held
<1>3. /\ owed' \subseteq owed \cup Files
      /\ \A p \in Paths :
           /\ disk'[p] = disk[p] \/ (p \in Files /\ disk'[p] = Empty)
           /\ p \in Files => p \in owed' \/ disk'[p] = Empty
           /\ p \in owed => p \in owed'
  BY DEF Emptied
<1>4. ASSUME NEW b \in Users \cup Runners, wk[b].file # NoPath
      PROVE  /\ wk[b].file \in Paths /\ wk[b].file \notin owed \cup Files
             /\ b \in Actors
  <2>1. b \in Actors BY Kinds
  <2>2. /\ wk[b].file \in Paths /\ wk[b].file # visit.audio
        /\ art[wk[b].file] = "none" /\ wk[b].file \notin owed
    BY <1>4, <2>1, FileTypes DEF Filed, Own, Apart
  <2> QED BY <2>1, <2>2 DEF Files, Listed
<1>5. Hands' BY DEF Filed, Hands
<1>6. Apart' BY <1>1 DEF Filed, Apart
<1>7. Pointed' BY <1>1 DEF Pointed
<1>8. Own'
  <2>1. \A p \in owed' : art'[p] = "none"
    <3>1. owed \cup Files \subseteq Paths BY DEF TypeOK, Files, Listed
    <3> QED BY <1>1, <1>3, <3>1
  <2> QED BY <1>1, <1>3, <1>4, <2>1 DEF Own
<1>9. Content'
  <2>1. ASSUME NEW b \in Actors, wk[b].file # NoPath
        PROVE  /\ wk[b].at \in {"prepare", "assemble"} => disk'[wk[b].file] = Empty
               /\ wk[b].at \in {"verify", "register", "commit"} =>
                    \/ disk'[wk[b].file] = wk[b].want
                    \/ b \in Workers /\ disk'[wk[b].file] = Empty
    <3>1. wk[b].file \in Paths BY <2>1, FileTypes
    <3>2. CASE disk'[wk[b].file] = disk[wk[b].file] BY <2>1, <3>2 DEF Filed, Content
    <3>3. CASE wk[b].file \in Files /\ disk'[wk[b].file] = Empty
      BY <1>4, <2>1, <3>3, Kinds
    <3> QED BY <1>3, <3>1, <3>2, <3>3
  <2> QED BY <2>1 DEF Content
<1>10. OneGeneration' BY <1>2 DEF OneGeneration
<1>11. Making' BY <1>2 DEF Making
<1>12. MergedAudioPlays' BY <1>1 DEF MergedAudioPlays
<1>13. FilesAreAccountedFor'
  <2>1. ASSUME NEW p \in Paths, disk'[p] # Empty
        PROVE  p \in owed' \cup lost' \cup Held
    <3>0. disk[p] # Empty BY <1>3, <2>1
    <3>1. CASE p \in Files BY <1>3, <2>1, <3>1
    <3>2. CASE p \notin Files /\ art[p] \in Kept
      BY <1>1, <3>0, <3>2 DEF Kept, Files, Listed, Unlisted
    <3>3. CASE p \notin Files /\ p \in owed \cup lost \cup Held BY <1>1, <1>3, <3>3
    <3>4. p = visit.audio => p \in Files BY DEF Files
    <3> QED BY <3>0, <3>1, <3>2, <3>3, <3>4 DEF Filed, FilesAreAccountedFor
  <2> QED BY <1>2, <2>1 DEF FilesAreAccountedFor
<1> QED BY <1>5, <1>6, <1>7, <1>8, <1>9, <1>10, <1>11, <1>12, <1>13 DEF Filed

(* An erasure on request, a retention sweep, and one that is rolled back.  *)
LEMMA FiledErase ==
  ASSUME TypeOK, Filed, NEW r \in Recordings, Erase(r) \/ Sweep(r) \/ SweepRollsBack(r)
  PROVE  Filed'
<1>1. CASE SweepRollsBack(r)
  <2>1. PICK ps \in SUBSET Files :
          disk' = Emptied(ps) /\ blind' = blind \cup ({visit.audio} \cap ps)
    BY <1>1 DEF SweepRollsBack
  <2>2. ps \in SUBSET Paths /\ \A p \in ps : p = visit.audio \/ art[p] # "none"
    BY <2>1 DEF Files, Listed
  <2>3. UNCHANGED <<visit, wk, lost, art, op, owed>> /\ InWork' = InWork
    BY <1>1 DEF SweepRollsBack, InWork
  <2> QED BY <2>1, <2>2, <2>3, DeletedKeeps
<1>2. CASE ~SweepRollsBack(r) /\ r \notin Uses[visit.timeline]
  <2>1. UNCHANGED <<visit, disk, art, op, wk, owed, lost, blind>> BY <1>2 DEF Erase, Sweep
  <2> QED BY <2>1, FiledAside
<1>3. CASE ~SweepRollsBack(r) /\ r \in Uses[visit.timeline]
  BY <1>3, InvalidateKeeps DEF Erase, Sweep
<1> QED BY <1>1, <1>2, <1>3

(* Renewals and lapses of leases.                                          *)
LEMMA FiledLease ==
  ASSUME TypeOK, Filed,
         \/ ExpireRun \/ ExpireOperation
         \/ \E n \in Runners : RenewRun(n)
         \/ \E w \in Workers : RenewOperation(w)
  PROVE  Filed'
<1>1. /\ UNCHANGED <<visit, disk, art, wk, owed, lost, blind>>
      /\ op'.owner = op.owner /\ op'.status = op.status
  BY DEF ExpireRun, ExpireOperation, RenewRun, RenewOperation, Untouched, Elsewhere,
         TypeOK, Operations
<1> QED BY <1>1, FiledAside

-----------------------------------------------------------------------------
(* Every step.                                                             *)

(* The invariant is kept.                                                  *)
LEMMA FiledNext ==
  ASSUME TypeOK, Filed, [Next]_vars
  PROVE  Filed'
<1>1. CASE UNCHANGED vars BY <1>1, FiledAside DEF vars
<1>2. ASSUME NEW a \in Actors, MergeStep(a) \/ Mishap(a) PROVE Filed'
  <2>1. CASE Prepare(a) BY <2>1, FiledPrepare
  <2>2. CASE Assemble(a) BY <2>2, FiledAssemble
  <2>3. CASE CommitMerge(a) \/ CommitMergeUnacknowledged(a) BY <2>3, FiledCommitMerge
  <2>4. CASE Retire(a) \/ RetireFails(a) BY <2>4, FiledRetire
  <2>5. CASE Abort(a) BY <2>5, FiledAbort
  <2>6. CASE Crash(a) BY <2>6, FiledCrash
  <2>7. CASE CommitOperationUnacknowledged(a)
    <3>1. a \in Workers BY <2>7 DEF CommitOperationUnacknowledged
    <3> QED BY <2>7, <3>1, FiledCommitOperation
  <2>8. CASE AbortEncrypting(a) BY <2>8, FiledEncrypting
  <2> QED BY <1>2, <2>1, <2>2, <2>3, <2>4, <2>5, <2>6, <2>7, <2>8 DEF MergeStep, Mishap
<1>3. ASSUME NEW w \in Workers, Claim(w) \/ WorkerStep(w) PROVE Filed'
  <2>1. CASE Claim(w) \/ Probe(w) BY <2>1, FiledClaim
  <2>2. CASE Slice(w) \/ Verify(w) \/ Register(w) BY <2>2, FiledStage
  <2>3. CASE CommitOperation(w) BY <2>3, FiledCommitOperation
  <2>4. CASE End(w) \/ Unlink(w) BY <2>4, FiledEnd
  <2> QED BY <1>3, <2>1, <2>2, <2>3, <2>4 DEF WorkerStep
<1>4. ASSUME NEW n \in Runners, ClaimRun(n) \/ RenewRun(n) \/ RunnerStep(n) PROVE Filed'
  BY <1>4, FiledRunner, FiledLease
<1>5. CASE Recovery BY <1>5, FiledRecovery, FiledLease DEF Recovery
<1> QED BY <1>1, <1>2, <1>3, <1>4, <1>5, FiledUser, FiledErase, FiledLease DEF Next

(* It holds at first.                                                      *)
LEMMA FiledInit == ASSUME Init PROVE Filed
<1>1. /\ visit.audio = NoPath /\ owed = {} /\ op = NoOperation
      /\ \A p \in Paths : disk[p] = Empty /\ art[p] = "none"
  BY DEF Init
<1>2. ASSUME NEW a \in Actors
      PROVE  wk[a].at \in {"idle", "off"} /\ wk[a].file = NoPath /\ wk[a].old = NoPath
  <2>1. PICK team \in Teams :
          wk = [b \in Actors |-> Resting(IF b \in team THEN "idle" ELSE "off")]
        BY DEF Init
  <2> QED BY <2>1 DEF Resting
<1>3. InWork = {} BY <1>1 DEF InWork
<1>4. Hands /\ Apart /\ Pointed /\ Own /\ Content
  BY <1>1, <1>2, Kinds DEF Hands, Apart, Pointed, Own, Content
<1>5. OneGeneration /\ Making BY <1>3 DEF OneGeneration, Making
<1>6. MergedAudioPlays /\ FilesAreAccountedFor
  BY <1>1 DEF MergedAudioPlays, FilesAreAccountedFor
<1> QED BY <1>4, <1>5, <1>6 DEF Filed

(* Types and files are kept together.                                      *)
THEOREM FilesInvariant == Spec => [](TypeOK /\ Counted /\ Filed)
<1>1. Init => TypeOK /\ Counted /\ Filed
  <2>1. Init => op.status # "queued" BY DEF Init, NoOperation
  <2> QED BY <2>1, TypeInit, FiledInit DEF Counted
<1>2. TypeOK /\ Counted /\ Filed /\ [Next]_vars => (TypeOK /\ Counted /\ Filed)'
  BY TypeNext, CountedNext, FiledNext
<1> QED BY <1>1, <1>2, PTL DEF Spec

(* The merged audio of a reception exists and plays its timeline, unless   *)
(* it was deleted by the writer of a commit that was not acknowledged, or  *)
(* by a retention sweep that was rolled back.                              *)
THEOREM MergedPlays == Spec => []MergedAudioPlays
<1>1. TypeOK /\ Counted /\ Filed => MergedAudioPlays BY DEF Filed
<1> QED BY <1>1, FilesInvariant, PTL

(* No file is left that nobody knows of, but those lost with their holder. *)
THEOREM NoFileIsForgotten == Spec => []FilesAreAccountedFor
<1>1. TypeOK /\ Counted /\ Filed => FilesAreAccountedFor BY DEF Filed
<1> QED BY <1>1, FilesInvariant, PTL

(* At most one generation is in the making, for an operation at work.      *)
THEOREM OneGenerationAtATime == Spec => []OneGeneration
<1>1. TypeOK /\ Counted /\ Filed => OneGeneration BY DEF Filed
<1> QED BY <1>1, FilesInvariant, PTL
=============================================================================
