----------------------------- MODULE Transcript -------------------------------
(***************************************************************************)
(* What a live capture promises to whoever speaks, without connections,    *)
(* leases, buffers and replays:                                            *)
(*                                                                         *)
(*   the frames kept are the first ones, and no other is acknowledged;     *)
(*   sentences are stored in the order in which they were spoken, each     *)
(*   made of frames that no other is made of; whatever frame they leave    *)
(*   out was missed; and a transcript that has been handed on, or that was *)
(*   ended from outside, is not added to again.                            *)
(***************************************************************************)
EXTENDS Naturals

CONSTANT
  Frames      \* the frames of the capture are numbered 1..Frames

VARIABLES
  kept,       \* frames 1..kept are stored
  told,       \* the panel knows so of frames 1..told
  spoken,     \* frames 1..spoken are behind the last sentence
  sentences,  \* the frames of each sentence
  missed,     \* frames left out, whatever the reason
  run         \* the state of the capture's pipeline run

vars == <<kept, told, spoken, sentences, missed, run>>

HandedOn == {"projections", "partial"}
Begun == run \notin HandedOn \cup {"none"}
Writable == Begun /\ run # "over"

Init ==
  /\ kept = 0 /\ told = 0 /\ spoken = 0
  /\ sentences = {} /\ missed = {} /\ run = "none"

Begin == run = "none" /\ run' = "asr" /\ UNCHANGED <<kept, told, spoken, sentences, missed>>

Keep ==
  /\ Begun /\ kept < Frames /\ kept' = kept + 1
  /\ UNCHANGED <<told, spoken, sentences, missed, run>>

Tell == told' \in (told + 1)..kept /\ UNCHANGED <<kept, spoken, sentences, missed, run>>

(* Only a frame that is kept can be missed.                                *)
MissMore == missed \subseteq missed' /\ missed' \ missed \subseteq 1..kept
Miss == MissMore /\ UNCHANGED <<kept, told, spoken, sentences, run>>

(* A sentence follows all others, and ends at the last frame spoken or     *)
(* moves that on, past no frame it leaves out that is not missed.  It may  *)
(* hold none of the frames.                                                *)
Say ==
  /\ Writable /\ run' = "segments"
  /\ \E last \in spoken..kept, text \in SUBSET (1..kept) :
       /\ \A f \in text : f <= last /\ \A said \in sentences : \A g \in said : g < f
       /\ \A f \in (spoken + 1)..last : f \in text \cup missed'
       /\ spoken' = last /\ sentences' = sentences \cup {text}
  /\ MissMore /\ UNCHANGED <<kept, told>>

(* An epoch ends badly; another may go on, unless the run has been ended.  *)
Fail ==
  /\ Writable /\ run' \in {"failed_retryable", "over"}
  /\ UNCHANGED <<kept, told, spoken, sentences, missed>>

(* The capture is closed, and handed on with what was said.                *)
Close ==
  /\ Writable /\ run' \in HandedOn
  /\ run' = "projections" => sentences # {}
  /\ UNCHANGED <<kept, told, spoken, sentences, missed>>

Next == Begin \/ Keep \/ Tell \/ Miss \/ Say \/ Fail \/ Close

Spec == Init /\ [][Next]_vars
=============================================================================
