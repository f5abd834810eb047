--------------------------- MODULE StreamSpeechProofs --------------------------
(***************************************************************************)
(* What holds of the sentences of a live capture for every number of       *)
(* frames and connections: a frame is stored in one sentence at most, a    *)
(* frame that is consumed is stored unless a failure kept it from being    *)
(* so, a panel that resends is never out of order, and the capture        *)
(* implements the Transcript it promises.                                  *)
(***************************************************************************)
EXTENDS StreamCaptureProofs

-----------------------------------------------------------------------------
(* Queues.                                                                 *)

(* A queue with one more sentence.                                         *)
LEMMA AppendedIs ==
  ASSUME NEW s \in Seq(Sentences), NEW e \in Sentences, NEW i \in 1..Len(Append(s, e))
  PROVE  /\ Len(Append(s, e)) = Len(s) + 1 /\ Len(s) \in Nat
         /\ \/ i \in 1..Len(s) /\ Append(s, e)[i] = s[i]
            \/ i = Len(s) + 1 /\ Append(s, e)[i] = e
<1>1. /\ Len(Append(s, e)) = Len(s) + 1 /\ Len(s) \in Nat
      /\ \A k \in 1..Len(s) : Append(s, e)[k] = s[k]
      /\ Append(s, e)[Len(s) + 1] = e
  BY AppendProperties, LenProperties
<1> QED BY <1>1

(* A queue without its head.                                               *)
LEMMA TailedIs ==
  ASSUME NEW s \in Seq(Sentences), s # <<>>, NEW i \in 1..Len(Tail(s))
  PROVE  /\ Len(Tail(s)) = Len(s) - 1 /\ Len(s) \in Nat
         /\ i + 1 \in 1..Len(s) /\ Tail(s)[i] = s[i + 1]
<1>1. /\ Len(Tail(s)) = Len(s) - 1 /\ Len(s) \in Nat /\ Len(s) > 0
      /\ \A k \in 1..Len(Tail(s)) : Tail(s)[k] = s[k + 1]
  BY HeadTailProperties, LenProperties, EmptySeq
<1> QED BY <1>1

-----------------------------------------------------------------------------
(* A session of its own.                                                   *)

(* The frame that detection has been fed and the recogniser has not, and   *)
(* all that no sentence holds yet.                                         *)
Pend(h) == IF h.at \in {"vad_pair", "asr"} THEN {h.cur} ELSE {}
Ears(h) == h.heard \cup Pend(h)
Queue(h) == 1..Len(h.waiting)

(* What is heard was fed, in the order of the sequence numbers.            *)
Sound(h) ==
  /\ h.at \in Before => h.fed = {} /\ h.waiting = <<>> /\ h.heard = {}
  /\ Ears(h) \subseteq h.fed
  /\ h.at \in {"vad_pair", "asr"} => \A g \in h.fed : g <= h.cur
  /\ h.at \in Loop => \A f \in h.fed, g \in h.todo : f < g

(* A sentence that waits is filed under a frame that was fed, at or after  *)
(* its own and before the one at hand; and what it holds comes before what *)
(* those behind it hold and what no sentence holds yet.                    *)
SoundQueue(h) ==
  \A i \in Queue(h) :
    /\ h.waiting[i].text \subseteq h.fed /\ h.waiting[i].seq \in h.fed
    /\ \A f \in h.waiting[i].text : f <= h.waiting[i].seq
    /\ \A f \in Pend(h) : h.waiting[i].seq < f
    /\ \A f \in h.waiting[i].text :
         /\ \A g \in Ears(h) : f < g
         /\ \A j \in Queue(h) : i < j => \A g \in h.waiting[j].text : f < g

Selves == \A c \in Conns : Sound(hd[c]) /\ SoundQueue(hd[c])

-----------------------------------------------------------------------------
(* The handler that may store sentences: what it knows of the frames that  *)
(* are accepted and of the sentences that are stored.                      *)

Accepted(f) == frame[f] = "ACCEPTED"

(* A frame that is accepted has been fed or comes after all that have.     *)
Covered(c) ==
  MayPersist(c) =>
    \A f \in Seqs : Accepted(f) => f \in hd[c].fed \/ \A g \in hd[c].fed : g < f

(* In the loop, it has been fed or is still to be replayed.                *)
Replayed(c) ==
  MayPersist(c) /\ hd[c].at \in Loop =>
    \A f \in Seqs : Accepted(f) => f \in hd[c].fed \cup hd[c].todo

(* All that is stored comes before what it has heard, in a sentence or not.*)
Unspoken(c) ==
  MayPersist(c) =>
    \A s \in segments : \A g \in s.text :
      /\ \A f \in Ears(hd[c]) : g < f
      /\ \A i \in Queue(hd[c]) : \A f \in hd[c].waiting[i].text : g < f

(* What was fed and is not consumed is in a sentence that waits or may     *)
(* still come to be in one, or it was missed.                              *)
Accounted(c) ==
  MayPersist(c) =>
    \A f \in hd[c].fed : Accepted(f) =>
      \/ f \in missed \cup Ears(hd[c])
      \/ \E i \in Queue(hd[c]) : f \in hd[c].waiting[i].text

(* What is stored has consumed all up to the frame it is filed under.      *)
Spent ==
  \A s \in segments :
    /\ s.seq \in Seqs /\ \A f \in s.text : f <= s.seq
    /\ \A f \in Seqs : f <= s.seq => frame[f] = "CONSUMED"

Holds(c) == Covered(c) /\ Replayed(c) /\ Unspoken(c) /\ Accounted(c)

Speech ==
  /\ Stages /\ Selves /\ Spent
  /\ \A c \in Conns : Holds(c)
  /\ SpokenOnce /\ ConsumedIsDurable

-----------------------------------------------------------------------------
(* The steps of a handler, by what they do to what it has heard.           *)

(* Nothing is staged or stored, and nothing missed is found again.         *)
Silent == UNCHANGED <<frame, segments>> /\ missed \subseteq missed'

(* A handler does not come to the lease in this step.                      *)
Onto(c) == MayPersist(c)' => MayPersist(c)

(* Frames leave the replay when they are fed or consumed.                  *)
Replays(c) ==
  hd'[c].at \in Loop =>
    /\ hd[c].at \in Loop /\ hd'[c].todo \subseteq hd[c].todo
    /\ \A f \in hd[c].todo \ hd'[c].todo : ~Accepted(f) \/ f \in hd[c].fed

(* It has heard nothing.                                                   *)
Idles(c) ==
  /\ Silent /\ hd'[c].fed = {} /\ hd'[c].heard = {} /\ hd'[c].waiting = <<>>
  /\ hd'[c].at \notin Loop

(* It begins with the frames that earlier epochs have left.                *)
Begins(c) ==
  /\ Silent /\ hd'[c].fed = {} /\ hd'[c].heard = {} /\ hd'[c].waiting = <<>>
  /\ hd'[c].at = "loop" /\ hd'[c].todo = Pending

(* It keeps what it has heard, or misses it.                               *)
Rests(c) ==
  /\ Silent /\ Onto(c) /\ Replays(c)
  /\ hd'[c].fed = hd[c].fed /\ hd'[c].waiting = hd[c].waiting
  /\ hd'[c].at \notin Before /\ Pend(hd'[c]) = {}
  /\ hd'[c].heard \subseteq Ears(hd[c]) /\ Ears(hd[c]) \subseteq hd'[c].heard \cup missed'

(* The first of what was heard, or nothing of it, is a sentence.           *)
Speaks(c) ==
  /\ Silent /\ Onto(c) /\ Replays(c)
  /\ hd'[c].fed = hd[c].fed /\ hd'[c].at \notin Before /\ Pend(hd'[c]) = {}
  /\ \E s \in Sentences :
       /\ hd'[c].waiting = Append(hd[c].waiting, s)
       /\ s.text \cup hd'[c].heard = Ears(hd[c])
       /\ \A f \in s.text, g \in hd'[c].heard : f < g
       /\ s.seq \in hd[c].fed /\ \A g \in hd[c].fed : g <= s.seq

(* A frame is staged and fed.                                              *)
Feeds(c) ==
  /\ Stage(c) /\ hd'[c].fed = hd[c].fed \cup {InHand(c)}
  /\ hd'[c].heard = hd[c].heard /\ hd'[c].waiting = hd[c].waiting
  /\ hd'[c].todo = hd[c].todo \ {InHand(c)}
  /\ hd'[c].cur = InHand(c) /\ hd'[c].at \in {"vad_pair", "asr"}
  /\ frame[InHand(c)] # "CONSUMED" /\ InHand(c) \notin hd[c].fed
  /\ \A g \in hd[c].fed : g < InHand(c)

(* A sentence leaves the queue: its frames are not accepted any more, or   *)
(* they are missed.                                                        *)
Drops(c) ==
  /\ Onto(c) /\ Replays(c) /\ missed \subseteq missed' /\ hd[c].waiting # <<>>
  /\ hd'[c].fed = hd[c].fed /\ hd'[c].heard = hd[c].heard
  /\ hd'[c].waiting = Tail(hd[c].waiting) /\ hd'[c].at \notin Before
  /\ Pend(hd'[c]) \subseteq Pend(hd[c])
  /\ hd'[c].at \in {"vad_pair", "asr"} =>
       hd[c].at \in {"vad_pair", "asr"} /\ hd'[c].cur = hd[c].cur
  /\ MayPersist(c)' =>
       /\ Pend(hd[c]) \subseteq Pend(hd'[c]) \cup missed'
       /\ segments' \subseteq segments \cup {Entry(hd[c].waiting[1])}
       /\ \A f \in Seqs : frame'[f] = "ACCEPTED" =>
            Accepted(f) /\ (f \in hd[c].waiting[1].text => f \in missed')

(* The resent frame is not rejected.                                       *)
LEMMA InOrder ==
  ASSUME Speech, NEW c \in Conns, HasFrame(c), row[c].status = "ACTIVE"
  PROVE  frame[InHand(c)] = "CONSUMED" \/ InHand(c) \in hd[c].fed \/ ~(InHand(c) < LastSeq(hd[c]))
<1> SUFFICES ASSUME InHand(c) \notin hd[c].fed, InHand(c) < LastSeq(hd[c])
             PROVE  frame[InHand(c)] = "CONSUMED"
  OBVIOUS
<1>0. Typed /\ Gapless /\ Sound(hd[c]) /\ Replayed(c)
  BY DEF Speech, Selves, Holds, Stages, Leases
<1>1. hd[c].at = "loop" /\ MayPersist(c) BY DEF HasFrame, At, MayPersist
<1>2. /\ InHand(c) \in Seqs
      /\ IF hd[c].todo # {}
           THEN InHand(c) \in hd[c].todo /\ \A g \in hd[c].todo : InHand(c) <= g
           ELSE InHand(c) = line[c].next /\ line[c].next <= line[c].sent
  BY <1>0, InHandIs DEF Typed
<1>3. LastSeq(hd[c]) \in hd[c].fed /\ LastSeq(hd[c]) \in Nat /\ InHand(c) \in Nat
  <2>1. hd[c] \in Handlers BY <1>0, TypesAt
  <2>2. LastSeq(hd[c]) \in hd[c].fed \cup {0} /\ LastSeq(hd[c]) \in 0..Frames
    BY <2>1, LastSeqOf
  <2>3. InHand(c) \in Nat BY <1>2, FrameNumbers
  <2>4. LastSeq(hd[c]) \in Nat BY <2>2, StreamConstants
  <2> QED BY <2>2, <2>3, <2>4
<1>5. hd[c].todo = {}
  <2> SUFFICES ASSUME hd[c].todo # {} PROVE FALSE OBVIOUS
  <2>1. LastSeq(hd[c]) < InHand(c) BY <1>0, <1>1, <1>2, <1>3 DEF Sound, Loop
  <2> QED BY <1>3, <2>1
<1>6. frame[InHand(c)] # "none"
  <2>1. LastSeq(hd[c]) \in Seqs /\ frame[LastSeq(hd[c])] # "none"
    BY <1>0, <1>3 DEF Gapless, Staged
  <2>2. Filled(frame, LastSeq(hd[c])) BY <1>0, <2>1 DEF Gapless
  <2> QED BY <1>2, <1>3, <2>2 DEF Filled
<1>7. ~Accepted(InHand(c)) BY <1>0, <1>1, <1>2, <1>5 DEF Replayed, Loop
<1> QED BY <1>0, <1>2, <1>6, <1>7 DEF Accepted, Typed, OthersOK

(* Only two steps of a handler stage or store anything.                    *)
LEMMA Silently ==
  ASSUME Typed, NEW c \in Conns, HandlerStep(c), ~Stage(c), ~Persist(c)
  PROVE  Silent
BY DEF HandlerStep, Reserve, TurnAway, Activate, ActivateFails, Open, Replay, ReplayFails,
       Strand, StageFails, Hear, HearFails, Ack, PersistFails, ReceiveFinalize, Disconnect,
       Drain, Close, CloseFails, Silent

(* The lease is only come to from the reservation.                         *)
LEMMA Ontos ==
  ASSUME Leases, NEW c \in Conns, HandlerStep(c)
  PROVE  /\ hd[c].at # "acquire" => Onto(c)
         /\ \A d \in Conns : d # c => Onto(d)
<1>0. Typed BY DEF Leases
<1>1. CASE Reserve(c)
  <2>1. /\ row'[c].status = "RESERVING"
        /\ \A d \in Conns : d # c => row'[d].status \notin Live \cup {"CLOSED"}
    BY <1>1, ReserveLease
  <2> QED BY <2>1 DEF Onto, MayPersist, Live
<1>2. CASE ~Reserve(c)
  <2>1. /\ \A d \in Conns : d # c => row'[d] = row[d]
        /\ \/ row'[c].status = row[c].status
           \/ hd[c].at = "acquire"
           \/ row[c].status \in {"ACTIVE", "DRAINING"}
    BY <1>0, <1>2, RowMoves
  <2> QED BY <2>1 DEF Onto, MayPersist
<1> QED BY <1>1, <1>2

-----------------------------------------------------------------------------
(* Every step is of one of these kinds.                                    *)

(* Opening, and coming to an end.                                          *)
LEMMA IdleKinds ==
  ASSUME Speech, NEW c \in Conns,
         \/ Reserve(c) \/ TurnAway(c) \/ Activate(c) \/ ActivateFails(c) \/ Open(c)
         \/ ReplayFails(c) \/ Strand(c) \/ Close(c) \/ CloseFails(c)
  PROVE  Idles(c)
<1>0. Typed /\ Sound(hd[c]) BY DEF Speech, Stages, Leases, Selves
<1>1. Silent
  BY DEF Silent, Reserve, TurnAway, Activate, ActivateFails, Open, ReplayFails, Strand, Close,
         CloseFails
<1>2. CASE Reserve(c) \/ Activate(c) \/ Open(c)
  <2>1. Keeps(hd[c], hd'[c]) /\ hd[c].at \in Before /\ hd'[c].at \notin Loop
    BY <1>0, <1>2, OpeningIs DEF Same, Before, Loop
  <2>2. hd[c].fed = {} /\ hd[c].waiting = <<>> /\ hd[c].heard = {} BY <1>0, <2>1 DEF Sound
  <2> QED BY <1>1, <2>1, <2>2 DEF Keeps, Idles
<1>3. CASE ReplayFails(c)
  <2>1. Keeps(hd[c], hd'[c]) /\ hd[c].at \in Before /\ hd'[c].at \notin Loop
    BY <1>0, <1>3, ThrowingIs DEF ThrownFrom, Before, Loop
  <2>2. hd[c].fed = {} /\ hd[c].waiting = <<>> /\ hd[c].heard = {} BY <1>0, <2>1 DEF Sound
  <2> QED BY <1>1, <2>1, <2>2 DEF Keeps, Idles
<1>4. CASE TurnAway(c) \/ ActivateFails(c) \/ Strand(c) \/ Close(c) \/ CloseFails(c)
  <2>1. hd'[c].fed = {} /\ hd'[c].heard = {} /\ hd'[c].waiting = <<>> /\ hd'[c].at = "off"
    BY <1>0, <1>4, OverIs
  <2> QED BY <1>1, <2>1 DEF Idles, Loop
<1> QED BY <1>2, <1>3, <1>4

(* The replay begins.                                                      *)
LEMMA ReplayKind ==
  ASSUME Speech, NEW c \in Conns, Replay(c)
  PROVE  Begins(c)
<1>0. Typed /\ Sound(hd[c]) BY DEF Speech, Stages, Leases, Selves
<1>1. Silent BY DEF Silent, Replay
<1>2. /\ Keeps(hd[c], hd'[c]) /\ hd[c].at \in Before /\ hd'[c].at = "loop" /\ hd'[c].todo = Pending
  BY <1>0, OpeningIs DEF Before
<1>3. hd[c].fed = {} /\ hd[c].waiting = <<>> /\ hd[c].heard = {} BY <1>0, <1>2 DEF Sound
<1> QED BY <1>1, <1>2, <1>3 DEF Keeps, Begins

(* An acknowledgement, and whatever makes a session leave its loop.        *)
LEMMA RestKinds ==
  ASSUME Speech, NEW c \in Conns, HandlerStep(c),
         Ack(c) \/ StageFails(c) \/ Disconnect(c)
  PROVE  Rests(c)
<1>0. Typed /\ Leases BY DEF Speech, Stages, Leases
<1>1. Silent BY DEF Silent, Ack, StageFails, Disconnect
<1>2. /\ hd[c].at \in {"ack", "loop"} /\ Keeps(hd[c], hd'[c])
      /\ \/ hd'[c].at = "loop" /\ hd'[c].todo = hd[c].todo
         \/ hd'[c].at \in {"raised", "close", "drain"}
  BY <1>0, ThrowingIs DEF ThrownFrom
<1>3. Onto(c) BY <1>0, <1>2, Ontos
<1>4. Replays(c) BY <1>2 DEF Replays, Loop
<1>5. Pend(hd[c]) = {} /\ Pend(hd'[c]) = {} BY <1>2 DEF Pend
<1> QED BY <1>1, <1>2, <1>3, <1>4, <1>5 DEF Keeps, Rests, Ears, Before

(* The recogniser is given a frame.                                        *)
LEMMA HearKinds ==
  ASSUME Speech, NEW c \in Conns, HandlerStep(c), Hear(c) \/ HearFails(c)
  PROVE  Rests(c) \/ Speaks(c)
<1>0. Typed /\ Leases /\ Sound(hd[c]) BY DEF Speech, Stages, Leases, Selves
<1>1. /\ hd[c].at = "asr" /\ hd[c].cur \in Seqs /\ Heard(c) \in SUBSET Seqs
      /\ hd'[c].fed = hd[c].fed /\ hd'[c].todo = hd[c].todo
      /\ hd'[c].at \in {"asr_pair", "ack"} /\ missed \subseteq missed'
      /\ \/ /\ hd'[c].at = "ack" /\ hd'[c].waiting = hd[c].waiting
            /\ hd'[c].heard \subseteq Heard(c) /\ Heard(c) \subseteq hd'[c].heard \cup missed'
         \/ \E text \in Words(Heard(c)) :
              /\ missed' = missed /\ hd'[c].heard = Heard(c) \ text
              /\ hd'[c].waiting = Append(hd[c].waiting, [text |-> text, seq |-> hd[c].cur])
  BY <1>0, HeardIs
<1>2. Silent BY <1>1 DEF Silent, Hear, HearFails
<1>3. Onto(c) /\ Replays(c) /\ hd'[c].at \notin Before
  BY <1>0, <1>1, Ontos DEF Replays, Loop, Before
<1>4. Pend(hd'[c]) = {} /\ Ears(hd[c]) = Heard(c) BY <1>1 DEF Pend, Ears, Heard
<1>5. CASE hd'[c].waiting = hd[c].waiting /\ hd'[c].heard \subseteq Heard(c)
           /\ Heard(c) \subseteq hd'[c].heard \cup missed'
  BY <1>1, <1>2, <1>3, <1>4, <1>5 DEF Rests
<1>6. CASE \E text \in Words(Heard(c)) :
             /\ hd'[c].heard = Heard(c) \ text
             /\ hd'[c].waiting = Append(hd[c].waiting, [text |-> text, seq |-> hd[c].cur])
  <2>1. PICK text \in Words(Heard(c)) :
          /\ hd'[c].heard = Heard(c) \ text
          /\ hd'[c].waiting = Append(hd[c].waiting, [text |-> text, seq |-> hd[c].cur])
    BY <1>6
  <2>2. /\ text \subseteq Heard(c) /\ text \in SUBSET Seqs
        /\ \A f \in text, g \in Heard(c) \ text : f < g
    BY <1>1, WordsOf
  <2>3. hd[c].cur \in hd[c].fed /\ \A g \in hd[c].fed : g <= hd[c].cur
    BY <1>0, <1>1 DEF Sound, Ears, Pend
  <2> DEFINE s == [text |-> text, seq |-> hd[c].cur]
  <2>4. s \in Sentences /\ s.text = text /\ s.seq = hd[c].cur
    BY <1>1, <2>2, FrameNumbers DEF Sentences
  <2>5. hd'[c].waiting = Append(hd[c].waiting, s) BY <2>1
  <2> HIDE DEF s
  <2>6. s.text \cup hd'[c].heard = Ears(hd[c]) /\ \A f \in s.text, g \in hd'[c].heard : f < g
    BY <1>4, <2>1, <2>2, <2>4
  <2> QED BY <1>1, <1>2, <1>3, <1>4, <2>3, <2>4, <2>5, <2>6 DEF Speaks
<1> QED BY <1>1, <1>5, <1>6

(* The end of the capture.                                                 *)
LEMMA FinalizeKinds ==
  ASSUME Speech, NEW c \in Conns, HandlerStep(c), ReceiveFinalize(c) \/ Drain(c)
  PROVE  Rests(c) \/ Speaks(c)
<1>0. Typed /\ Leases /\ Sound(hd[c]) /\ hd[c] \in Handlers
  BY TypesAt DEF Speech, Stages, Leases, Selves
<1>1. Silent BY DEF Silent, ReceiveFinalize, Drain
<1>2. /\ hd[c].at \in {"loop", "drain"} /\ hd'[c].at \in {"final_pair", "drain", "close"}
      /\ hd'[c].fed = hd[c].fed
      /\ \/ hd'[c].waiting = hd[c].waiting /\ hd'[c].heard = hd[c].heard
         \/ \E text \in Words(hd[c].heard) :
              /\ text = {} => hd[c].fed # {}
              /\ hd'[c].heard = hd[c].heard \ text
              /\ hd'[c].waiting = Append(hd[c].waiting, LastWord(hd[c], text))
  BY <1>0, FinalizeIs
<1>3. Onto(c) /\ Replays(c) /\ hd'[c].at \notin Before
  BY <1>0, <1>2, Ontos DEF Replays, Loop, Before
<1>4. Pend(hd'[c]) = {} /\ Ears(hd[c]) = hd[c].heard BY <1>2 DEF Pend, Ears
<1>5. CASE hd'[c].waiting = hd[c].waiting /\ hd'[c].heard = hd[c].heard
  BY <1>1, <1>2, <1>3, <1>4, <1>5 DEF Rests
<1>6. CASE \E text \in Words(hd[c].heard) :
             /\ text = {} => hd[c].fed # {}
             /\ hd'[c].heard = hd[c].heard \ text
             /\ hd'[c].waiting = Append(hd[c].waiting, LastWord(hd[c], text))
  <2>1. PICK text \in Words(hd[c].heard) :
          /\ text = {} => hd[c].fed # {}
          /\ hd'[c].heard = hd[c].heard \ text
          /\ hd'[c].waiting = Append(hd[c].waiting, LastWord(hd[c], text))
    BY <1>6
  <2>2. hd[c].heard \in SUBSET Seqs /\ hd[c].heard \subseteq hd[c].fed
    BY <1>0, <1>4 DEF Handlers, Sound
  <2>3. /\ text \subseteq hd[c].heard /\ text \in SUBSET Seqs
        /\ \A f \in text, g \in hd[c].heard \ text : f < g
    BY <2>2, WordsOf
  <2>4. hd[c].fed # {} BY <2>1, <2>2, <2>3
  <2>5. LastSeq(hd[c]) \in hd[c].fed /\ \A g \in hd[c].fed : g <= LastSeq(hd[c])
    BY <1>0, <2>4, LastSeqOf
  <2> DEFINE s == LastWord(hd[c], text)
  <2>6. s \in Sentences /\ s.text = text /\ s.seq = LastSeq(hd[c])
    BY <1>0, <2>3, LastSeqOf DEF LastWord, Sentences
  <2>7. hd'[c].waiting = Append(hd[c].waiting, s) BY <2>1
  <2> HIDE DEF s
  <2>8. s.text \cup hd'[c].heard = Ears(hd[c]) /\ \A f \in s.text, g \in hd'[c].heard : f < g
    BY <1>4, <2>1, <2>3, <2>6
  <2> QED BY <1>1, <1>2, <1>3, <1>4, <2>5, <2>6, <2>7, <2>8 DEF Speaks
<1> QED BY <1>2, <1>5, <1>6

(* A frame is staged: it is fed, unless it has been or is consumed.        *)
LEMMA StageKinds ==
  ASSUME Speech, NEW c \in Conns, HandlerStep(c), Stage(c)
  PROVE  Rests(c) \/ Feeds(c)
<1>0. Typed /\ Leases /\ Gapless /\ hd[c] \in Handlers
  BY TypesAt DEF Speech, Stages, Leases
<1>1. /\ hd[c].at = "loop" /\ InHand(c) \in Seqs
      /\ hd'[c].todo = hd[c].todo \ {InHand(c)}
      /\ hd'[c].heard = hd[c].heard /\ hd'[c].waiting = hd[c].waiting
  BY <1>0, StageIs
<1>2. HasFrame(c) /\ row[c].status = "ACTIVE" BY DEF Stage
<1>3. CASE /\ frame[InHand(c)] = "CONSUMED" \/ InHand(c) \in hd[c].fed
           /\ hd'[c].fed = hd[c].fed /\ hd'[c].at = "ack"
  <2>1. frame[InHand(c)] # "none" BY <1>0, <1>3 DEF Gapless, Staged
  <2>2. frame' = frame BY <1>0, <2>1 DEF Stage, Typed, OthersOK
  <2>3. UNCHANGED <<segments, missed>> BY DEF Stage
  <2>4. Silent BY <2>2, <2>3 DEF Silent
  <2>5. Onto(c) BY <1>0, <1>1, Ontos
  <2>6. Replays(c) BY <1>1, <1>3 DEF Replays, Accepted, Loop
  <2>7. hd'[c].at \notin Before /\ Pend(hd'[c]) = {} /\ Pend(hd[c]) = {}
    BY <1>1, <1>3 DEF Pend, Before
  <2> QED BY <1>1, <1>3, <2>4, <2>5, <2>6, <2>7 DEF Rests, Ears
<1>4. CASE /\ frame[InHand(c)] # "CONSUMED" /\ InHand(c) \notin hd[c].fed
           /\ ~(InHand(c) < LastSeq(hd[c]))
           /\ hd'[c].fed = hd[c].fed \cup {InHand(c)} /\ hd'[c].cur = InHand(c)
           /\ hd'[c].at \in {"vad_pair", "asr"}
  <2>1. \A g \in hd[c].fed : g <= LastSeq(hd[c]) BY <1>0, LastSeqOf
  <2>2. LastSeq(hd[c]) \in Int BY <1>0, LastSeqOf, StreamConstants
  <2>3. hd[c].fed \subseteq Seqs BY <1>0 DEF Handlers
  <2>4. InHand(c) \in Nat /\ \A g \in hd[c].fed : g \in Nat BY <1>1, <2>3, FrameNumbers
  <2>5. \A g \in hd[c].fed : g < InHand(c) BY <1>4, <2>1, <2>2, <2>4
  <2> QED BY <1>1, <1>4, <2>5 DEF Feeds
<1>5. \/ frame[InHand(c)] = "CONSUMED" \/ InHand(c) \in hd[c].fed
      \/ ~(InHand(c) < LastSeq(hd[c]))
  BY <1>2, InOrder
<1> QED BY <1>0, <1>3, <1>4, <1>5, StageIs

(* What the head of the queue says.                                        *)
LEMMA HeadIs ==
  ASSUME Speech, NEW c \in Conns, hd[c].at \in Pairing
  PROVE  /\ Said(c) = hd[c].waiting[1] /\ 1 \in Queue(hd[c]) /\ Said(c) \in Sentences
         /\ Said(c).text \subseteq hd[c].fed /\ Said(c).seq \in hd[c].fed
         /\ hd[c].fed \subseteq Staged /\ hd[c].fed \subseteq Seqs
         /\ \A f \in Said(c).text : f <= Said(c).seq
         /\ \A f \in Pend(hd[c]) : Said(c).seq < f
         /\ Entry(Said(c)) \in Stored
<1>0. Typed /\ Gapless /\ SoundQueue(hd[c]) /\ hd[c] \in Handlers
  BY TypesAt DEF Speech, Stages, Leases, Selves
<1>1. /\ Said(c) \in Sentences /\ Said(c) = hd[c].waiting[1]
      /\ hd[c].waiting # <<>> /\ hd[c].waiting \in Seq(Sentences)
  BY <1>0, SaidIs
<1>2. 1 \in Queue(hd[c])
  <2>1. Len(hd[c].waiting) \in Nat /\ Len(hd[c].waiting) # 0 BY <1>1, LenProperties, EmptySeq
  <2> QED BY <2>1 DEF Queue
<1>3. /\ Said(c).text \subseteq hd[c].fed /\ Said(c).seq \in hd[c].fed
      /\ \A f \in Said(c).text : f <= Said(c).seq
      /\ \A f \in Pend(hd[c]) : Said(c).seq < f
  BY <1>0, <1>1, <1>2 DEF SoundQueue
<1>4. hd[c].fed \subseteq Staged /\ hd[c].fed \subseteq Seqs
  BY <1>0 DEF Gapless, Staged
<1>5. Entry(Said(c)) \in Stored BY <1>1 DEF Entry, Filed, Stored, Sentences
<1> QED BY <1>1, <1>2, <1>3, <1>4, <1>5

(* A sentence is stored.                                                   *)
LEMMA PersistKind ==
  ASSUME Speech, NEW c \in Conns, HandlerStep(c), Persist(c)
  PROVE  Drops(c)
<1>0. Typed /\ Leases /\ Sound(hd[c]) /\ hd[c] \in Handlers
  BY TypesAt DEF Speech, Stages, Leases, Selves
<1>1. /\ hd[c].at \in Pairing
      /\ hd'[c].fed = hd[c].fed /\ hd'[c].heard = hd[c].heard
      /\ hd'[c].waiting = Tail(hd[c].waiting) /\ missed \subseteq missed'
      /\ \/ /\ hd'[c].cur = hd[c].cur /\ hd'[c].todo = hd[c].todo
            /\ \/ hd[c].at = "vad_pair" /\ hd'[c].at = "asr"
               \/ hd[c].at = "asr_pair" /\ hd'[c].at = "ack"
               \/ hd[c].at = "final_pair" /\ hd'[c].at \in {"drain", "close"}
         \/ /\ hd'[c].at \in {"raised", "close", "drain"}
            /\ hd[c].at = "vad_pair" => hd[c].cur \in missed'
  BY <1>0, PersistIs
<1>2. hd[c].waiting # <<>> /\ Said(c) = hd[c].waiting[1] /\ Said(c) \in Sentences
  BY <1>0, <1>1, SaidIs
<1>3. Onto(c) BY <1>0, <1>1, Ontos DEF Pairing
<1>4. Replays(c) BY <1>1 DEF Replays, Loop
<1>5. hd'[c].at \notin Before BY <1>1 DEF Before
<1>6. /\ Pend(hd'[c]) \subseteq Pend(hd[c])
      /\ Pend(hd[c]) \subseteq Pend(hd'[c]) \cup missed'
      /\ hd'[c].at \in {"vad_pair", "asr"} =>
           hd[c].at \in {"vad_pair", "asr"} /\ hd'[c].cur = hd[c].cur
  BY <1>1 DEF Pend, Pairing
<1>7. segments' \subseteq segments \cup {Entry(hd[c].waiting[1])} BY <1>2 DEF Persist
<1>8. ASSUME NEW f \in Seqs, frame'[f] = "ACCEPTED"
      PROVE  Accepted(f) /\ f \notin Said(c).text
  <2>1. frame'[f] = (IF f <= Said(c).seq /\ frame[f] = "ACCEPTED" THEN "CONSUMED" ELSE frame[f])
    BY DEF Persist, Consumed
  <2>2. Accepted(f) /\ ~(f <= Said(c).seq) BY <1>8, <2>1 DEF Accepted
  <2>3. \A g \in Said(c).text : g <= Said(c).seq BY <1>1, HeadIs
  <2> QED BY <2>2, <2>3
<1> QED BY <1>1, <1>2, <1>3, <1>4, <1>5, <1>6, <1>7, <1>8 DEF Drops

(* A sentence cannot be stored.                                            *)
LEMMA PersistFailsKind ==
  ASSUME Speech, NEW c \in Conns, HandlerStep(c), PersistFails(c)
  PROVE  Drops(c)
<1>0. Typed /\ Leases BY DEF Speech, Stages, Leases
<1>1. /\ hd[c].at \in Pairing
      /\ hd'[c].fed = hd[c].fed /\ hd'[c].heard = hd[c].heard
      /\ hd'[c].waiting = Tail(hd[c].waiting) /\ hd'[c].at \in {"drain", "close"}
  BY <1>0, PersistFailsIs
<1>2. hd[c].waiting # <<>> /\ Said(c) = hd[c].waiting[1] BY <1>0, <1>1, SaidIs
<1>3. Onto(c) BY <1>0, <1>1, Ontos DEF Pairing
<1>4. UNCHANGED <<frame, segments, row>> BY DEF PersistFails
<1>5. /\ missed \subseteq missed'
      /\ Leased(c) => Said(c).text \subseteq missed' /\ Pend(hd[c]) \subseteq missed'
  BY <1>1 DEF PersistFails, At, Pend, Pairing
<1>6. MayPersist(c)' => Leased(c) BY <1>4 DEF MayPersist, Leased, Live
<1>7. Pend(hd'[c]) = {} /\ hd'[c].at \notin Loop \cup Before BY <1>1 DEF Pend, Loop, Before
<1>8. MayPersist(c)' =>
        /\ Pend(hd[c]) \subseteq Pend(hd'[c]) \cup missed'
        /\ segments' \subseteq segments \cup {Entry(hd[c].waiting[1])}
        /\ \A f \in Seqs : frame'[f] = "ACCEPTED" =>
             Accepted(f) /\ (f \in hd[c].waiting[1].text => f \in missed')
  BY <1>2, <1>4, <1>5, <1>6 DEF Accepted
<1>9. Replays(c) BY <1>7 DEF Replays
<1> QED BY <1>1, <1>2, <1>3, <1>5, <1>7, <1>8, <1>9 DEF Drops

(* The kinds are all there is.                                             *)
LEMMA Kinds ==
  ASSUME Speech, NEW c \in Conns, HandlerStep(c)
  PROVE  Idles(c) \/ Begins(c) \/ Rests(c) \/ Speaks(c) \/ Feeds(c) \/ Drops(c)
BY IdleKinds, ReplayKind, RestKinds, HearKinds, FinalizeKinds, StageKinds, PersistKind,
   PersistFailsKind DEF HandlerStep

-----------------------------------------------------------------------------
(* The sessions.                                                           *)

(* What is known of a session, in one place.                               *)
LEMMA SelfIs ==
  ASSUME Speech, NEW c \in Conns
  PROVE  /\ hd[c] \in Handlers /\ Sound(hd[c]) /\ SoundQueue(hd[c]) /\ Holds(c)
         /\ hd[c].fed \subseteq Seqs /\ hd[c].fed \subseteq Staged
         /\ hd[c].waiting \in Seq(Sentences)
         /\ Len(hd[c].waiting) \in Nat
<1>1. /\ hd[c] \in Handlers /\ Sound(hd[c]) /\ SoundQueue(hd[c]) /\ Holds(c)
  BY TypesAt DEF Speech, Stages, Leases, Selves
<1>2. /\ hd[c].fed \subseteq Seqs /\ hd[c].fed \subseteq Staged
  BY DEF Speech, Stages, Gapless, Staged
<1>3. hd[c].waiting \in Seq(Sentences) BY <1>1 DEF Handlers
<1>4. Len(hd[c].waiting) \in Nat BY <1>3, LenProperties
<1> QED BY <1>1, <1>2, <1>3, <1>4

(* What is heard stays in the order it was fed.                            *)
LEMMA SoundKept ==
  ASSUME Speech, NEW c \in Conns, HandlerStep(c)
  PROVE  Sound(hd'[c])
<1>0. /\ hd[c] \in Handlers /\ Sound(hd[c]) /\ hd[c].fed \subseteq Seqs
      /\ Typed
  BY SelfIs DEF Speech, Stages, Leases
<1>1. CASE Idles(c) BY <1>1 DEF Idles, Sound, Ears, Pend, Loop
<1>2. CASE Begins(c) BY <1>2 DEF Begins, Sound, Ears, Pend, Before
<1>3. CASE Rests(c) \/ Speaks(c)
  <2>1. hd'[c].at \notin {"vad_pair", "asr"} BY <1>3 DEF Rests, Speaks, Pend
  <2>2. hd'[c].at \in Loop => hd[c].at \in Loop /\ hd'[c].todo \subseteq hd[c].todo
    BY <1>3 DEF Rests, Speaks, Replays
  <2>3. hd'[c].fed = hd[c].fed /\ hd'[c].at \notin Before /\ Ears(hd'[c]) \subseteq Ears(hd[c])
    BY <1>3, <2>1 DEF Rests, Speaks, Ears, Pend
  <2> QED BY <1>0, <2>1, <2>2, <2>3 DEF Sound
<1>4. CASE Feeds(c)
  <2> DEFINE x == InHand(c)
  <2>1. /\ hd[c].at = "loop" /\ HasFrame(c) BY <1>4 DEF Feeds, Stage, HasFrame, At
  <2>2. /\ x \in Seqs
        /\ hd[c].todo # {} => x \in hd[c].todo /\ \A g \in hd[c].todo : x <= g
    BY <1>0, <2>1, InHandIs DEF Typed
  <2>3. /\ hd'[c].fed = hd[c].fed \cup {x} /\ hd'[c].heard = hd[c].heard
        /\ hd'[c].todo = hd[c].todo \ {x} /\ hd'[c].cur = x
        /\ hd'[c].at \in {"vad_pair", "asr"} /\ x \notin hd[c].fed
        /\ \A g \in hd[c].fed : g < x
    BY <1>4 DEF Feeds
  <2> HIDE DEF x
  <2>4. x \in Nat /\ hd[c].todo \subseteq Nat /\ hd[c].fed \subseteq Nat
    BY <1>0, <2>2, FrameNumbers DEF Handlers
  <2>5. Ears(hd'[c]) \subseteq hd'[c].fed
    BY <1>0, <2>3 DEF Sound, Ears, Pend
  <2>6. \A g \in hd'[c].fed : g <= x BY <2>3, <2>4
  <2>7. \A f \in hd[c].fed, g \in hd[c].todo : f < g BY <1>0, <2>1 DEF Sound, Loop
  <2>8. \A f \in hd'[c].fed, g \in hd'[c].todo : f < g BY <2>2, <2>3, <2>4, <2>7
  <2> QED BY <2>3, <2>5, <2>6, <2>8 DEF Sound, Before
<1>5. CASE Drops(c)
  <2>1. hd'[c].at \in Loop => hd[c].at \in Loop /\ hd'[c].todo \subseteq hd[c].todo
    BY <1>5 DEF Drops, Replays
  <2>2. hd'[c].fed = hd[c].fed /\ hd'[c].at \notin Before /\ Ears(hd'[c]) \subseteq Ears(hd[c])
    BY <1>5 DEF Drops, Ears
  <2> QED BY <1>0, <1>5, <2>1, <2>2 DEF Drops, Sound
<1> QED BY <1>1, <1>2, <1>3, <1>4, <1>5, Kinds

(* A queue with one more sentence stays in order.                          *)
LEMMA SpeakQueue ==
  ASSUME Speech, NEW c \in Conns, Speaks(c)
  PROVE  SoundQueue(hd'[c])
<1>0. /\ Sound(hd[c]) /\ SoundQueue(hd[c]) /\ hd[c].fed \subseteq Seqs
      /\ hd[c].waiting \in Seq(Sentences)
  BY SelfIs
<1>1. PICK s \in Sentences :
        /\ hd'[c].waiting = Append(hd[c].waiting, s)
        /\ s.text \cup hd'[c].heard = Ears(hd[c])
        /\ \A f \in s.text, g \in hd'[c].heard : f < g
        /\ s.seq \in hd[c].fed /\ \A g \in hd[c].fed : g <= s.seq
  BY DEF Speaks
<1>2. hd'[c].fed = hd[c].fed /\ Pend(hd'[c]) = {} /\ Ears(hd'[c]) = hd'[c].heard
  BY DEF Speaks, Ears
<1>3. s.text \subseteq hd[c].fed /\ \A f \in s.text : f <= s.seq BY <1>0, <1>1 DEF Sound
<1> DEFINE W == hd'[c].waiting
<1>4. \A i \in 1..Len(W) : /\ i \in Nat /\ Len(W) \in Nat
                           /\ \/ i \in Queue(hd[c]) /\ W[i] = hd[c].waiting[i] /\ i < Len(W)
                              \/ i = Len(W) /\ W[i] = s
  <2> SUFFICES ASSUME NEW i \in 1..Len(W)
               PROVE  /\ i \in Nat /\ Len(W) \in Nat
                      /\ \/ i \in Queue(hd[c]) /\ W[i] = hd[c].waiting[i] /\ i < Len(W)
                         \/ i = Len(W) /\ W[i] = s
    OBVIOUS
  <2>1. /\ Len(W) = Len(hd[c].waiting) + 1 /\ Len(hd[c].waiting) \in Nat
        /\ \/ i \in 1..Len(hd[c].waiting) /\ W[i] = hd[c].waiting[i]
           \/ i = Len(hd[c].waiting) + 1 /\ W[i] = s
    BY <1>0, <1>1, AppendedIs
  <2> QED BY <2>1 DEF Queue
<1> HIDE DEF W
<1> SUFFICES ASSUME NEW i \in 1..Len(W)
             PROVE  /\ W[i].text \subseteq hd[c].fed /\ W[i].seq \in hd[c].fed
                    /\ \A f \in W[i].text : f <= W[i].seq
                    /\ \A f \in W[i].text :
                         /\ \A g \in hd'[c].heard : f < g
                         /\ \A j \in 1..Len(W) : i < j => \A g \in W[j].text : f < g
  BY <1>2 DEF SoundQueue, Queue, W
<1>5. CASE i \in Queue(hd[c]) /\ W[i] = hd[c].waiting[i]
  <2>1. /\ W[i].text \subseteq hd[c].fed /\ W[i].seq \in hd[c].fed
        /\ \A f \in W[i].text : f <= W[i].seq
        /\ \A f \in W[i].text : \A g \in Ears(hd[c]) : f < g
        /\ \A f \in W[i].text :
             \A j \in Queue(hd[c]) : i < j => \A g \in hd[c].waiting[j].text : f < g
    BY <1>0, <1>5 DEF SoundQueue
  <2>2. ASSUME NEW f \in W[i].text, NEW j \in 1..Len(W), i < j, NEW g \in W[j].text PROVE f < g
    <3>1. CASE j \in Queue(hd[c]) /\ W[j] = hd[c].waiting[j] BY <2>1, <2>2, <3>1
    <3>2. CASE W[j] = s BY <1>1, <2>1, <2>2, <3>2
    <3> QED BY <1>4, <3>1, <3>2
  <2> QED BY <1>1, <2>1, <2>2
<1>6. CASE i = Len(W) /\ W[i] = s
  <2>1. \A j \in 1..Len(W) : ~(i < j) BY <1>4, <1>6
  <2> QED BY <1>1, <1>3, <1>6, <2>1
<1> QED BY <1>4, <1>5, <1>6

(* So does one without its head.                                           *)
LEMMA DropQueue ==
  ASSUME Speech, NEW c \in Conns, Drops(c)
  PROVE  SoundQueue(hd'[c])
<1>0. SoundQueue(hd[c]) /\ hd[c].waiting \in Seq(Sentences) BY SelfIs
<1>1. /\ hd[c].waiting # <<>> /\ hd'[c].fed = hd[c].fed /\ hd'[c].heard = hd[c].heard
      /\ hd'[c].waiting = Tail(hd[c].waiting) /\ Pend(hd'[c]) \subseteq Pend(hd[c])
  BY DEF Drops
<1>2. Ears(hd'[c]) \subseteq Ears(hd[c]) BY <1>1 DEF Ears
<1> DEFINE W == hd'[c].waiting
<1>3. \A i \in 1..Len(W) : i \in Nat /\ i + 1 \in Queue(hd[c]) /\ W[i] = hd[c].waiting[i + 1]
  BY <1>0, <1>1, TailedIs DEF Queue
<1> HIDE DEF W
<1> SUFFICES ASSUME NEW i \in 1..Len(W)
             PROVE  /\ W[i].text \subseteq hd[c].fed /\ W[i].seq \in hd[c].fed
                    /\ \A f \in W[i].text : f <= W[i].seq
                    /\ \A f \in Pend(hd'[c]) : W[i].seq < f
                    /\ \A f \in W[i].text :
                         /\ \A g \in Ears(hd'[c]) : f < g
                         /\ \A j \in 1..Len(W) : i < j => \A g \in W[j].text : f < g
  BY <1>1 DEF SoundQueue, Queue, W
<1>4. i \in Nat /\ i + 1 \in Queue(hd[c]) /\ W[i] = hd[c].waiting[i + 1] BY <1>3
<1>5. /\ W[i].text \subseteq hd[c].fed /\ W[i].seq \in hd[c].fed
      /\ \A f \in W[i].text : f <= W[i].seq
      /\ \A f \in Pend(hd[c]) : W[i].seq < f
      /\ \A f \in W[i].text : \A g \in Ears(hd[c]) : f < g
      /\ \A f \in W[i].text :
           \A j \in Queue(hd[c]) : i + 1 < j => \A g \in hd[c].waiting[j].text : f < g
  BY <1>0, <1>4 DEF SoundQueue
<1>6. ASSUME NEW f \in W[i].text, NEW j \in 1..Len(W), i < j PROVE \A g \in W[j].text : f < g
  <2>1. j \in Nat /\ j + 1 \in Queue(hd[c]) /\ W[j] = hd[c].waiting[j + 1] BY <1>3
  <2>2. i + 1 < j + 1 BY <1>4, <1>6, <2>1
  <2> QED BY <1>5, <2>1, <2>2
<1> QED BY <1>1, <1>2, <1>5, <1>6

(* The sentences that wait stay in order.                                  *)
LEMMA QueueKept ==
  ASSUME Speech, NEW c \in Conns, HandlerStep(c)
  PROVE  SoundQueue(hd'[c])
<1>0. SoundQueue(hd[c]) /\ hd[c].fed \subseteq Seqs BY SelfIs
<1>1. CASE Idles(c) \/ Begins(c)
  <2>1. Queue(hd'[c]) = {} BY <1>1 DEF Idles, Begins, Queue
  <2> QED BY <2>1 DEF SoundQueue
<1>2. CASE Rests(c)
  <2>1. /\ hd'[c].waiting = hd[c].waiting /\ hd'[c].fed = hd[c].fed /\ Pend(hd'[c]) = {}
        /\ Ears(hd'[c]) \subseteq Ears(hd[c])
    BY <1>2 DEF Rests, Ears
  <2> QED BY <1>0, <2>1 DEF SoundQueue, Queue
<1>3. CASE Feeds(c)
  <2> DEFINE x == InHand(c)
  <2>1. /\ hd'[c].waiting = hd[c].waiting /\ hd[c].fed \subseteq hd'[c].fed
        /\ Pend(hd'[c]) = {x} /\ Ears(hd'[c]) \subseteq Ears(hd[c]) \cup {x}
        /\ \A g \in hd[c].fed : g < x
    BY <1>3 DEF Feeds, Ears, Pend
  <2> HIDE DEF x
  <2> SUFFICES ASSUME NEW i \in Queue(hd[c])
               PROVE  /\ hd[c].waiting[i].text \subseteq hd'[c].fed
                      /\ hd[c].waiting[i].seq \in hd'[c].fed
                      /\ \A f \in hd[c].waiting[i].text : f <= hd[c].waiting[i].seq
                      /\ hd[c].waiting[i].seq < x
                      /\ \A f \in hd[c].waiting[i].text :
                           /\ \A g \in Ears(hd'[c]) : f < g
                           /\ \A j \in Queue(hd[c]) :
                                i < j => \A g \in hd[c].waiting[j].text : f < g
    BY <2>1 DEF SoundQueue, Queue
  <2>2. /\ hd[c].waiting[i].text \subseteq hd[c].fed /\ hd[c].waiting[i].seq \in hd[c].fed
        /\ \A f \in hd[c].waiting[i].text : f <= hd[c].waiting[i].seq
        /\ \A f \in hd[c].waiting[i].text : \A g \in Ears(hd[c]) : f < g
        /\ \A f \in hd[c].waiting[i].text :
             \A j \in Queue(hd[c]) : i < j => \A g \in hd[c].waiting[j].text : f < g
    BY <1>0 DEF SoundQueue
  <2> QED BY <2>1, <2>2
<1> QED BY <1>1, <1>2, <1>3, SpeakQueue, DropQueue, Kinds

-----------------------------------------------------------------------------
(* What the handler knows of the frames and the sentences.                 *)

(* It has heard nothing yet.                                               *)
LEMMA IdleHolds ==
  ASSUME NEW c \in Conns, Idles(c) \/ Begins(c)
  PROVE  Holds(c)'
<1>1. /\ UNCHANGED <<frame, segments>> /\ hd'[c].fed = {} /\ Ears(hd'[c]) = {}
      /\ Queue(hd'[c]) = {}
  BY DEF Idles, Begins, Silent, Queue, Ears, Pend, Loop
<1>2. Covered(c)' /\ Unspoken(c)' /\ Accounted(c)' BY <1>1 DEF Covered, Unspoken, Accounted
<1>3. Replayed(c)'
  <2>1. CASE Idles(c) BY <2>1 DEF Idles, Replayed
  <2>2. CASE Begins(c) BY <1>1, <2>2 DEF Begins, Replayed, Pending, Accepted
  <2> QED BY <2>1, <2>2
<1> QED BY <1>2, <1>3 DEF Holds

(* Nothing is staged or fed: what is fed or is to come stays so.           *)
LEMMA QuietCovers ==
  ASSUME NEW c \in Conns, Holds(c), Onto(c), Replays(c), hd'[c].fed = hd[c].fed,
         MayPersist(c)' => \A f \in Seqs : frame'[f] = "ACCEPTED" => Accepted(f)
  PROVE  Covered(c)' /\ Replayed(c)'
<1>1. Covered(c)'
  BY DEF Holds, Covered, Onto, Accepted
<1>2. Replayed(c)'
  <2> SUFFICES ASSUME MayPersist(c)', hd'[c].at \in Loop, NEW f \in Seqs, frame'[f] = "ACCEPTED"
               PROVE  f \in hd'[c].fed \cup hd'[c].todo
    BY DEF Replayed, Accepted
  <2>1. MayPersist(c) /\ hd[c].at \in Loop /\ Accepted(f) BY DEF Onto, Replays
  <2>2. f \in hd[c].fed \cup hd[c].todo BY <2>1 DEF Holds, Replayed
  <2> QED BY <2>1, <2>2 DEF Replays
<1> QED BY <1>1, <1>2

(* It rests: its queue stays as it is.                                     *)
LEMMA RestHolds ==
  ASSUME Speech, NEW c \in Conns, Rests(c)
  PROVE  Holds(c)'
<1>0. Holds(c) BY SelfIs
<1>1. /\ UNCHANGED <<frame, segments>> /\ missed \subseteq missed' /\ Onto(c) /\ Replays(c)
      /\ hd'[c].fed = hd[c].fed /\ hd'[c].waiting = hd[c].waiting
      /\ Queue(hd'[c]) = Queue(hd[c])
      /\ Ears(hd'[c]) \subseteq Ears(hd[c]) /\ Ears(hd[c]) \subseteq Ears(hd'[c]) \cup missed'
  BY DEF Rests, Silent, Queue, Ears
<1>2. Covered(c)' /\ Replayed(c)' BY <1>0, <1>1, QuietCovers DEF Accepted
<1>3. Unspoken(c)' BY <1>0, <1>1 DEF Holds, Unspoken, Onto
<1>4. Accounted(c)'
  <2> SUFFICES ASSUME MayPersist(c)', NEW f \in hd[c].fed, frame'[f] = "ACCEPTED"
               PROVE  \/ f \in missed' \cup Ears(hd'[c])
                      \/ \E i \in Queue(hd[c]) : f \in hd[c].waiting[i].text
    BY <1>1 DEF Accounted, Accepted
  <2>1. MayPersist(c) /\ Accepted(f) BY <1>1 DEF Onto, Accepted
  <2>2. \/ f \in missed \cup Ears(hd[c])
        \/ \E i \in Queue(hd[c]) : f \in hd[c].waiting[i].text
    BY <1>0, <2>1 DEF Holds, Accounted
  <2> QED BY <1>1, <2>2
<1> QED BY <1>2, <1>3, <1>4 DEF Holds

(* It speaks: what it says is the first of what it has heard.              *)
LEMMA SpeakHolds ==
  ASSUME Speech, NEW c \in Conns, Speaks(c)
  PROVE  Holds(c)'
<1>0. Holds(c) /\ hd[c].waiting \in Seq(Sentences) BY SelfIs
<1>1. /\ UNCHANGED <<frame, segments>> /\ missed \subseteq missed' /\ Onto(c) /\ Replays(c)
      /\ hd'[c].fed = hd[c].fed /\ Ears(hd'[c]) = hd'[c].heard
  BY DEF Speaks, Silent, Ears
<1>2. PICK s \in Sentences :
        /\ hd'[c].waiting = Append(hd[c].waiting, s)
        /\ s.text \cup hd'[c].heard = Ears(hd[c])
  BY DEF Speaks
<1> DEFINE W == hd'[c].waiting
           n == Len(hd[c].waiting)
<1>3. /\ Len(W) = n + 1 /\ n \in Nat /\ W[n + 1] = s
      /\ \A i \in 1..n : W[i] = hd[c].waiting[i]
  BY <1>0, <1>2, AppendProperties, LenProperties
<1>4. Queue(hd'[c]) = 1..Len(W) /\ Queue(hd[c]) = 1..n BY DEF Queue
<1> HIDE DEF W, n
<1>5. \A i \in 1..Len(W) : i \in 1..n \/ i = n + 1 BY <1>3
<1>6. 1..n \subseteq 1..Len(W) /\ n + 1 \in 1..Len(W) BY <1>3
<1>7. Covered(c)' /\ Replayed(c)' BY <1>0, <1>1, QuietCovers DEF Accepted
<1>8. Unspoken(c)'
  <2> SUFFICES ASSUME MayPersist(c)', NEW t \in segments, NEW g \in t.text
               PROVE  /\ \A f \in hd'[c].heard : g < f
                      /\ \A i \in 1..Len(W) : \A f \in W[i].text : g < f
    BY <1>1, <1>4 DEF Unspoken, W
  <2>1. /\ \A f \in Ears(hd[c]) : g < f
        /\ \A j \in 1..n : \A f \in hd[c].waiting[j].text : g < f
    BY <1>0, <1>1, <1>4 DEF Holds, Unspoken, Onto
  <2> QED BY <1>2, <1>3, <1>5, <2>1
<1>9. Accounted(c)'
  <2> SUFFICES ASSUME MayPersist(c)', NEW f \in hd[c].fed, frame'[f] = "ACCEPTED"
               PROVE  \/ f \in missed' \cup hd'[c].heard
                      \/ \E i \in 1..Len(W) : f \in W[i].text
    BY <1>1, <1>4 DEF Accounted, Accepted, W
  <2>1. MayPersist(c) /\ Accepted(f) BY <1>1 DEF Onto, Accepted
  <2>2. \/ f \in missed \/ f \in s.text \cup hd'[c].heard
        \/ \E i \in 1..n : f \in hd[c].waiting[i].text
    BY <1>0, <1>2, <1>4, <2>1 DEF Holds, Accounted
  <2> QED BY <1>1, <1>3, <1>6, <2>2
<1> QED BY <1>7, <1>8, <1>9 DEF Holds

(* What is staged: at most the frame at hand is new.                       *)
LEMMA StagesOne ==
  ASSUME Typed, NEW c \in Conns, Stage(c)
  PROVE  /\ UNCHANGED <<segments, missed>> /\ MayPersist(c)
         /\ \A f \in Seqs : /\ f # InHand(c) => frame'[f] = frame[f]
                            /\ frame[f] # "none" => frame'[f] = frame[f]
                            /\ frame'[f] = "CONSUMED" => frame[f] = "CONSUMED"
<1>1. frame \in [Seqs -> {"none", "ACCEPTED", "CONSUMED"}] BY DEF Typed, OthersOK
<1>2. frame' = [frame EXCEPT ![InHand(c)] = IF @ = "none" THEN "ACCEPTED" ELSE @] BY DEF Stage
<1>3. UNCHANGED <<segments, missed>> /\ MayPersist(c) BY DEF Stage, MayPersist
<1> QED BY <1>1, <1>2, <1>3

(* A frame is fed: the next in the order of the sequence numbers, and      *)
(* after all that is stored, which has consumed what comes before it.      *)
LEMMA FeedHolds ==
  ASSUME Speech, NEW c \in Conns, Feeds(c)
  PROVE  Holds(c)'
<1> DEFINE x == InHand(c)
<1>0. /\ Typed /\ Gapless /\ Spent /\ Holds(c) /\ Sound(hd[c]) /\ SoundQueue(hd[c])
      /\ hd[c].fed \subseteq Seqs /\ hd[c].fed \subseteq Staged /\ hd[c] \in Handlers
  BY SelfIs DEF Speech, Stages, Leases
<1>1. hd[c].at = "loop" /\ HasFrame(c) BY DEF Feeds, Stage, HasFrame, At
<1>2. /\ UNCHANGED <<segments, missed>> /\ MayPersist(c)
      /\ \A f \in Seqs : /\ f # x => frame'[f] = frame[f]
                         /\ frame[f] # "none" => frame'[f] = frame[f]
                         /\ frame'[f] = "CONSUMED" => frame[f] = "CONSUMED"
  BY <1>0, StagesOne DEF Feeds
<1>3. /\ x \in Seqs
      /\ hd[c].todo # {} => x \in hd[c].todo /\ \A g \in hd[c].todo : x <= g
  BY <1>0, <1>1, InHandIs DEF Typed
<1>4. /\ hd'[c].fed = hd[c].fed \cup {x} /\ hd'[c].waiting = hd[c].waiting
      /\ hd'[c].todo = hd[c].todo \ {x} /\ Ears(hd'[c]) = Ears(hd[c]) \cup {x}
      /\ frame[x] # "CONSUMED" /\ x \notin hd[c].fed
      /\ \A g \in hd[c].fed : g < x
  BY <1>1 DEF Feeds, Ears, Pend
<1>5. Queue(hd'[c]) = Queue(hd[c]) BY <1>4 DEF Queue
<1> HIDE DEF x
<1>6. hd[c].at \in Loop BY <1>1 DEF Loop
<1>7. ASSUME NEW f \in Seqs, frame'[f] = "ACCEPTED" PROVE f = x \/ Accepted(f)
  BY <1>2, <1>7 DEF Accepted
<1>8. Replayed(c)'
  <2> SUFFICES ASSUME NEW f \in Seqs, frame'[f] = "ACCEPTED"
               PROVE  f \in hd'[c].fed \cup hd'[c].todo
    BY DEF Replayed, Accepted
  <2>1. f = x \/ f \in hd[c].fed \cup hd[c].todo
    BY <1>0, <1>2, <1>6, <1>7 DEF Holds, Replayed
  <2> QED BY <1>4, <2>1
<1>9. Covered(c)'
  <2> SUFFICES ASSUME NEW f \in Seqs, frame'[f] = "ACCEPTED", f \notin hd'[c].fed,
                      NEW g \in hd'[c].fed
               PROVE  g < f
    BY DEF Covered, Accepted
  <2>1. f # x /\ f \notin hd[c].fed BY <1>4
  <2>2. Accepted(f) BY <1>7, <2>1
  <2>3. f \in hd[c].todo BY <1>0, <1>2, <1>6, <2>1, <2>2 DEF Holds, Replayed
  <2>4. x <= f BY <1>3, <2>3
  <2>5. f \in Nat /\ x \in Nat BY <1>3, FrameNumbers
  <2>6. x < f BY <2>1, <2>4, <2>5
  <2>7. CASE g = x BY <2>6, <2>7
  <2>8. CASE g \in hd[c].fed BY <1>0, <1>6, <2>3, <2>8 DEF Sound
  <2> QED BY <1>4, <2>7, <2>8
<1>10. Unspoken(c)'
  <2> SUFFICES ASSUME NEW t \in segments, NEW g \in t.text
               PROVE  /\ \A f \in Ears(hd[c]) : g < f
                      /\ \A i \in Queue(hd[c]) : \A f \in hd[c].waiting[i].text : g < f
                      /\ g < x
    BY <1>2, <1>4, <1>5 DEF Unspoken
  <2>1. /\ \A f \in Ears(hd[c]) : g < f
        /\ \A i \in Queue(hd[c]) : \A f \in hd[c].waiting[i].text : g < f
    BY <1>0, <1>2 DEF Holds, Unspoken
  <2>2. t.seq \in Seqs /\ g <= t.seq /\ ~(x <= t.seq) BY <1>0, <1>3, <1>4 DEF Spent
  <2>3. t.seq \in Nat /\ x \in Nat BY <1>3, <2>2, FrameNumbers
  <2>4. g \in Nat
    <3>1. t \in Stored BY <1>0 DEF Typed, OthersOK
    <3> QED BY <3>1, FrameNumbers DEF Stored
  <2> QED BY <2>1, <2>2, <2>3, <2>4
<1>11. Accounted(c)'
  <2> SUFFICES ASSUME NEW f \in hd'[c].fed, frame'[f] = "ACCEPTED"
               PROVE  \/ f \in missed \cup Ears(hd[c]) \cup {x}
                      \/ \E i \in Queue(hd[c]) : f \in hd[c].waiting[i].text
    BY <1>2, <1>4, <1>5 DEF Accounted, Accepted
  <2>1. CASE f = x BY <2>1
  <2>2. CASE f \in hd[c].fed /\ f # x
    <3>1. f \in Seqs /\ Accepted(f) BY <1>0, <1>7, <2>2
    <3> QED BY <1>0, <1>2, <2>2, <3>1 DEF Holds, Accounted
  <2> QED BY <1>4, <2>1, <2>2
<1> QED BY <1>8, <1>9, <1>10, <1>11 DEF Holds

(* A sentence leaves the queue: it is stored, or its frames are missed.    *)
LEMMA DropHolds ==
  ASSUME Speech, NEW c \in Conns, Drops(c)
  PROVE  Holds(c)'
<1>0. /\ Holds(c) /\ SoundQueue(hd[c]) /\ hd[c].waiting \in Seq(Sentences)
      /\ hd[c].fed \subseteq Seqs
  BY SelfIs
<1>1. /\ Onto(c) /\ Replays(c) /\ missed \subseteq missed' /\ hd[c].waiting # <<>>
      /\ hd'[c].fed = hd[c].fed /\ hd'[c].heard = hd[c].heard
      /\ hd'[c].waiting = Tail(hd[c].waiting) /\ Pend(hd'[c]) \subseteq Pend(hd[c])
      /\ Ears(hd'[c]) \subseteq Ears(hd[c])
  BY DEF Drops, Ears
<1> DEFINE s == hd[c].waiting[1]
           W == hd'[c].waiting
           n == Len(hd[c].waiting)
<1>2. /\ MayPersist(c)' =>
           /\ Ears(hd[c]) \subseteq Ears(hd'[c]) \cup missed'
           /\ segments' \subseteq segments \cup {Entry(s)}
           /\ \A f \in Seqs : frame'[f] = "ACCEPTED" =>
                Accepted(f) /\ (f \in s.text => f \in missed')
  BY DEF Drops, Ears
<1>3. /\ Len(W) = n - 1 /\ n \in Nat /\ n # 0
      /\ \A i \in 1..Len(W) : W[i] = hd[c].waiting[i + 1]
  BY <1>0, <1>1, HeadTailProperties, LenProperties, EmptySeq
<1>4. Queue(hd'[c]) = 1..Len(W) /\ Queue(hd[c]) = 1..n BY DEF Queue
<1>5. Entry(s).text = s.text BY DEF Entry
<1> HIDE DEF s, W, n
<1>6. 1 \in 1..n /\ \A i \in 1..Len(W) : i + 1 \in 1..n /\ 1 < i + 1 BY <1>3
<1>7. \A i \in 1..n : i # 1 => i - 1 \in 1..Len(W) /\ W[i - 1] = hd[c].waiting[i]
  <2> SUFFICES ASSUME NEW i \in 1..n, i # 1
               PROVE  i - 1 \in 1..Len(W) /\ W[i - 1] = hd[c].waiting[i]
    OBVIOUS
  <2>1. i - 1 \in 1..Len(W) /\ (i - 1) + 1 = i BY <1>3
  <2> QED BY <1>3, <2>1
<1>8. Covered(c)' /\ Replayed(c)' BY <1>0, <1>1, <1>2, QuietCovers
<1>9. Unspoken(c)'
  <2> SUFFICES ASSUME MayPersist(c)', NEW t \in segments', NEW g \in t.text
               PROVE  /\ \A f \in Ears(hd'[c]) : g < f
                      /\ \A i \in 1..Len(W) : \A f \in W[i].text : g < f
    BY <1>4 DEF Unspoken, W
  <2>1. CASE t \in segments
    <3>1. /\ \A f \in Ears(hd[c]) : g < f
          /\ \A j \in 1..n : \A f \in hd[c].waiting[j].text : g < f
      BY <1>0, <1>1, <1>4, <2>1 DEF Holds, Unspoken, Onto
    <3> QED BY <1>1, <1>3, <1>6, <3>1
  <2>2. CASE t = Entry(s)
    <3>1. /\ \A f \in Ears(hd[c]) : g < f
          /\ \A j \in 1..n : 1 < j => \A f \in hd[c].waiting[j].text : g < f
      BY <1>0, <1>4, <1>5, <1>6, <2>2 DEF SoundQueue, s
    <3> QED BY <1>1, <1>3, <1>6, <3>1
  <2> QED BY <1>2, <2>1, <2>2
<1>10. Accounted(c)'
  <2> SUFFICES ASSUME MayPersist(c)', NEW f \in hd[c].fed, frame'[f] = "ACCEPTED"
               PROVE  \/ f \in missed' \cup Ears(hd'[c])
                      \/ \E i \in 1..Len(W) : f \in W[i].text
    BY <1>1, <1>4 DEF Accounted, Accepted, W
  <2>1. MayPersist(c) /\ Accepted(f) /\ (f \in s.text => f \in missed')
    BY <1>0, <1>1, <1>2 DEF Onto
  <2>2. \/ f \in missed \cup Ears(hd[c])
        \/ \E i \in 1..n : f \in hd[c].waiting[i].text
    BY <1>0, <1>4, <2>1 DEF Holds, Accounted
  <2>3. ASSUME NEW i \in 1..n, f \in hd[c].waiting[i].text
        PROVE  f \in missed' \/ \E j \in 1..Len(W) : f \in W[j].text
    <3>1. CASE i = 1 BY <2>1, <2>3, <3>1 DEF s
    <3>2. CASE i # 1 BY <1>7, <2>3, <3>2
    <3> QED BY <3>1, <3>2
  <2> QED BY <1>1, <1>2, <2>2, <2>3
<1> QED BY <1>8, <1>9, <1>10 DEF Holds

(* The others, who do not hold the lease if this handler does anything to  *)
(* the frames or the sentences.                                            *)
LEMMA Apart ==
  ASSUME Speech, NEW c \in Conns, NEW d \in Conns, hd'[d] = hd[d], Onto(d),
         MayPersist(d)' => Silent
  PROVE  Holds(d)'
<1>0. Holds(d) BY DEF Speech
<1>1. CASE ~MayPersist(d)'
  BY <1>1 DEF Holds, Covered, Replayed, Unspoken, Accounted
<1>2. CASE MayPersist(d)'
  <2>1. MayPersist(d) /\ UNCHANGED <<frame, segments>> /\ missed \subseteq missed'
    BY <1>2 DEF Onto, Silent
  <2>2. Covered(d)' BY <1>0, <2>1 DEF Holds, Covered, Accepted
  <2>3. Replayed(d)' BY <1>0, <2>1 DEF Holds, Replayed, Accepted
  <2>4. Unspoken(d)' BY <1>0, <2>1 DEF Holds, Unspoken
  <2>5. Accounted(d)' BY <1>0, <2>1 DEF Holds, Accounted, Accepted
  <2> QED BY <2>2, <2>3, <2>4, <2>5 DEF Holds
<1> QED BY <1>1, <1>2

-----------------------------------------------------------------------------
(* What is stored.                                                         *)

(* What is stored stays so, and what is missed stays missed.               *)
LEMMA SilentStores ==
  ASSUME Spent, SpokenOnce, ConsumedIsDurable, UNCHANGED segments, missed \subseteq missed',
         \A f \in Seqs : frame[f] = "CONSUMED" <=> frame'[f] = "CONSUMED"
  PROVE  Spent' /\ SpokenOnce' /\ ConsumedIsDurable'
<1>1. Spent' BY DEF Spent
<1>2. SpokenOnce' BY DEF SpokenOnce
<1>3. ConsumedIsDurable' BY DEF ConsumedIsDurable
<1> QED BY <1>1, <1>2, <1>3

(* What a sentence consumes is in it, or will be in one behind it, or was  *)
(* missed.                                                                 *)
LEMMA ConsumesIs ==
  ASSUME Speech, NEW c \in Conns, Persist(c), NEW f \in Seqs, f <= Said(c).seq, Accepted(f)
  PROVE  f \in Said(c).text \cup missed'
<1>0. /\ Typed /\ Holds(c) /\ hd[c].at \in Pairing /\ MayPersist(c)
      /\ hd[c].waiting \in Seq(Sentences)
  BY SelfIs DEF Speech, Stages, Leases, Persist
<1>1. /\ Said(c) = hd[c].waiting[1] /\ Said(c).seq \in hd[c].fed
      /\ hd[c].fed \subseteq Seqs /\ \A g \in Pend(hd[c]) : Said(c).seq < g
  BY <1>0, HeadIs
<1>2. f \in Nat /\ Said(c).seq \in Nat /\ f \in 1..Said(c).seq
  <2>1. Said(c).seq \in Seqs BY <1>1
  <2>2. f \in Nat /\ f # 0 /\ Said(c).seq \in Nat BY <2>1, FrameNumbers
  <2> QED BY <2>2
<1>3. f \in hd[c].fed
  <2>1. f \in hd[c].fed \/ \A g \in hd[c].fed : g < f BY <1>0 DEF Holds, Covered
  <2> QED BY <1>1, <1>2, <2>1
<1>4. \/ f \in missed \cup Ears(hd[c])
      \/ \E i \in Queue(hd[c]) : f \in hd[c].waiting[i].text
  BY <1>0, <1>3 DEF Holds, Accounted
<1>5. f \notin Pend(hd[c]) BY <1>1, <1>2
<1>6. missed \cup Late(c) \subseteq missed' BY <1>0, PersistIs
<1>7. ASSUME NEW i \in Queue(hd[c]), f \in hd[c].waiting[i].text
      PROVE  f \in Said(c).text \cup missed'
  <2>1. CASE i = 1 BY <1>1, <1>7, <2>1
  <2>2. CASE i # 1
    <3>1. i \in 2..Len(hd[c].waiting) BY <2>2 DEF Queue
    <3>2. f \in Late(c) BY <1>2, <1>7, <3>1 DEF Late
    <3> QED BY <1>6, <3>2
  <2> QED BY <2>1, <2>2
<1>8. CASE f \in hd[c].heard
  <2>1. f \in Late(c) BY <1>2, <1>8 DEF Late
  <2> QED BY <1>6, <2>1
<1> QED BY <1>4, <1>5, <1>6, <1>7, <1>8 DEF Ears

(* Frames are staged without a gap: all up to that of the sentence.        *)
LEMMA PersistConsumes ==
  ASSUME Speech, NEW c \in Conns, Persist(c)
  PROVE  /\ Said(c).seq \in Seqs
         /\ \A f \in Seqs : frame'[f] = "CONSUMED" <=> f <= Said(c).seq \/ frame[f] = "CONSUMED"
         /\ \A f \in Seqs : frame'[f] # "none" <=> frame[f] # "none"
<1>0. /\ Typed /\ Gapless /\ hd[c].at \in Pairing
      /\ frame \in [Seqs -> {"none", "ACCEPTED", "CONSUMED"}]
  BY DEF Speech, Stages, Leases, Persist, Typed, OthersOK
<1>1. Said(c).seq \in Seqs /\ Said(c).seq \in Staged BY <1>0, HeadIs
<1>2. \A f \in Seqs :
        frame'[f] = IF f <= Said(c).seq /\ frame[f] = "ACCEPTED" THEN "CONSUMED" ELSE frame[f]
  BY DEF Persist, Consumed
<1>3. \A f \in Seqs : f <= Said(c).seq => frame[f] # "none"
  BY <1>0, <1>1 DEF Gapless, Filled, Staged
<1> QED BY <1>0, <1>1, <1>2, <1>3

(* A sentence is stored.                                                   *)
LEMMA PersistStores ==
  ASSUME Speech, NEW c \in Conns, Persist(c)
  PROVE  Spent' /\ SpokenOnce' /\ ConsumedIsDurable'
<1>0. /\ Typed /\ Spent /\ SpokenOnce /\ ConsumedIsDurable /\ Holds(c)
      /\ hd[c].at \in Pairing /\ MayPersist(c)
      /\ frame \in [Seqs -> {"none", "ACCEPTED", "CONSUMED"}]
  BY SelfIs DEF Speech, Stages, Leases, Persist, Typed, OthersOK
<1> DEFINE s == Said(c)
<1>1. /\ s = hd[c].waiting[1] /\ 1 \in Queue(hd[c]) /\ s \in Sentences
      /\ \A f \in s.text : f <= s.seq
  BY <1>0, HeadIs
<1>2. /\ s.seq \in Seqs
      /\ \A f \in Seqs : frame'[f] = "CONSUMED" <=> f <= s.seq \/ frame[f] = "CONSUMED"
  BY PersistConsumes
<1>3. missed \subseteq missed' BY <1>0, PersistIs
<1>4. \A f \in Seqs : f <= s.seq /\ Accepted(f) => f \in s.text \cup missed' BY ConsumesIs
<1>5. Entry(s).text = s.text /\ Entry(s).seq = s.seq BY DEF Entry
<1>6. (Filed(s) /\ segments' = segments) \/ segments' = segments \cup {Entry(s)} BY DEF Persist
<1> HIDE DEF s
<1>7. Spent'
  <2> SUFFICES ASSUME NEW t \in segments \cup {Entry(s)}
               PROVE  /\ t.seq \in Seqs /\ \A f \in t.text : f <= t.seq
                      /\ \A f \in Seqs : f <= t.seq => frame'[f] = "CONSUMED"
    BY <1>6 DEF Spent
  <2>1. CASE t \in segments BY <1>0, <1>2, <2>1 DEF Spent
  <2>2. CASE t = Entry(s) BY <1>1, <1>2, <1>5, <2>2
  <2> QED BY <2>1, <2>2
<1>8. SpokenOnce'
  <2>1. ASSUME NEW t \in segments PROVE t.text \cap s.text = {}
    <3>1. \A g \in t.text, f \in s.text : g < f BY <1>0, <1>1 DEF Holds, Unspoken
    <3>2. s.text \subseteq Nat BY <1>1, FrameNumbers DEF Sentences
    <3> QED BY <3>1, <3>2
  <2> QED BY <1>0, <1>5, <1>6, <2>1 DEF SpokenOnce
<1>9. ConsumedIsDurable'
  <2> SUFFICES ASSUME NEW f \in Seqs, frame'[f] = "CONSUMED"
               PROVE  f \in missed' \/ \E t \in segments' : f \in t.text
    BY DEF ConsumedIsDurable
  <2>0. segments \subseteq segments' BY <1>6
  <2>1. CASE frame[f] = "CONSUMED"
    BY <1>0, <1>3, <2>0, <2>1 DEF ConsumedIsDurable
  <2>2. CASE frame[f] # "CONSUMED"
    <3>1. f <= s.seq BY <1>2, <2>2
    <3>2. segments' = segments \cup {Entry(s)}
      <4>1. ASSUME Filed(s) PROVE FALSE
        BY <1>0, <2>2, <3>1, <4>1 DEF Filed, Spent
      <4> QED BY <1>6, <4>1
    <3>3. Accepted(f)
      <4>1. frame'[f] # "none" <=> frame[f] # "none" BY PersistConsumes
      <4> QED BY <1>0, <2>2, <4>1 DEF Accepted
    <3> QED BY <1>4, <1>5, <3>1, <3>2, <3>3
  <2> QED BY <2>1, <2>2
<1> QED BY <1>7, <1>8, <1>9

(* A step of a handler.                                                    *)
LEMMA HandlerSpeech ==
  ASSUME Speech, NEW c \in Conns, HandlerStep(c)
  PROVE  Selves' /\ Spent' /\ (\A d \in Conns : Holds(d))' /\ SpokenOnce' /\ ConsumedIsDurable'
<1>0. /\ Typed /\ Leases /\ Lease /\ Spent /\ SpokenOnce /\ ConsumedIsDurable
      /\ \A d \in Conns : d # c => hd'[d] = hd[d]
  BY OnlyOne DEF Speech, Stages, Leases
<1>1. Selves'
  <2> SUFFICES ASSUME NEW d \in Conns PROVE Sound(hd'[d]) /\ SoundQueue(hd'[d]) BY DEF Selves
  <2>1. CASE d = c BY <2>1, SoundKept, QueueKept
  <2>2. CASE d # c BY <1>0, <2>2, SelfIs
  <2> QED BY <2>1, <2>2
<1>2. Spent' /\ SpokenOnce' /\ ConsumedIsDurable'
  <2>1. CASE Persist(c) BY <2>1, PersistStores
  <2>2. CASE Stage(c)
    <3>1. /\ UNCHANGED <<segments, missed>>
          /\ \A f \in Seqs : frame[f] = "CONSUMED" <=> frame'[f] = "CONSUMED"
      BY <1>0, <2>2, StagesOne
    <3> QED BY <1>0, <3>1, SilentStores
  <2>3. CASE ~Stage(c) /\ ~Persist(c)
    <3>1. UNCHANGED <<frame, segments>> /\ missed \subseteq missed'
      BY <1>0, <2>3, Silently DEF Silent
    <3> QED BY <1>0, <3>1, SilentStores
  <2> QED BY <2>1, <2>2, <2>3
<1>3. ASSUME NEW d \in Conns PROVE Holds(d)'
  <2>1. CASE d = c
    BY <2>1, Kinds, IdleHolds, RestHolds, SpeakHolds, FeedHolds, DropHolds
  <2>2. CASE d # c
    <3>1. Onto(d) BY <1>0, <2>2, Ontos
    <3>2. ASSUME MayPersist(d)' PROVE Silent
      <4>1. MayPersist(d) /\ d = latest
        BY <1>0, <3>1, <3>2 DEF Onto, Lease, MayPersist, Live
      <4>2. ~MayPersist(c) BY <1>0, <2>2, <4>1 DEF Lease, MayPersist, Live
      <4>3. ~Stage(c) /\ ~Persist(c) BY <4>2 DEF Stage, Persist, MayPersist
      <4> QED BY <1>0, <4>3, Silently
    <3> QED BY <1>0, <2>2, <3>1, <3>2, Apart
  <2> QED BY <2>1, <2>2
<1> QED BY <1>1, <1>2, <1>3

(* Every step.                                                             *)
LEMMA NextSpeech == Speech /\ [Next]_vars => Speech'
<1> SUFFICES ASSUME Speech, [Next]_vars PROVE Speech' OBVIOUS
<1>0. /\ Typed /\ Stages' /\ Spent /\ SpokenOnce /\ ConsumedIsDurable /\ Selves
      /\ \A d \in Conns : Holds(d)
  BY NextStages DEF Speech, Stages, Leases
<1>1. ASSUME NEW c \in Conns, HandlerStep(c) PROVE Speech'
  BY <1>0, <1>1, HandlerSpeech DEF Speech
<1>2. CASE UNCHANGED <<hd, row, frame, segments, missed>>
  <2>1. Selves' BY <1>0, <1>2 DEF Selves
  <2>2. Spent' /\ SpokenOnce' /\ ConsumedIsDurable' BY <1>0, <1>2, SilentStores
  <2>3. ASSUME NEW d \in Conns PROVE Holds(d)'
    BY <1>2, Apart DEF Onto, MayPersist, Silent
  <2> QED BY <1>0, <2>1, <2>2, <2>3 DEF Speech
<1>3. CASE Dial
  <2>1. PICK c \in Conns :
          /\ hd[c] = Fresh("off") /\ Same(hd[c], hd'[c]) /\ hd'[c].at = "reserve"
          /\ \A d \in Conns : d # c => hd'[d] = hd[d]
    BY <1>0, <1>3, DialIs
  <2>2. UNCHANGED <<row, frame, segments, missed>> BY <1>3 DEF Dial, Served
  <2>3. hd'[c].fed = {} /\ hd'[c].heard = {} /\ hd'[c].waiting = <<>>
    BY <2>1 DEF Same, Keeps, Fresh
  <2>4. Sound(hd'[c]) /\ SoundQueue(hd'[c])
    BY <2>1, <2>3 DEF Sound, SoundQueue, Queue, Ears, Pend, Loop
  <2>5. Selves' BY <1>0, <2>1, <2>4 DEF Selves
  <2>6. Spent' /\ SpokenOnce' /\ ConsumedIsDurable' BY <1>0, <2>2, SilentStores
  <2>7. Holds(c)'
    <3>1. Idles(c) BY <2>1, <2>2, <2>3 DEF Idles, Silent, Loop
    <3> QED BY <2>1, <3>1, IdleHolds
  <2>8. ASSUME NEW d \in Conns, d # c PROVE Holds(d)'
    BY <2>1, <2>2, <2>8, Apart DEF Onto, MayPersist, Silent
  <2> QED BY <1>0, <2>5, <2>6, <2>7, <2>8 DEF Speech
<1>4. CASE Crash
  <2>1. UNCHANGED <<row, frame, segments, missed>> /\ \A d \in Conns : hd'[d] = Fresh("off")
    BY <1>4 DEF Crash
  <2>2. \A d \in Conns : /\ hd'[d].fed = {} /\ hd'[d].heard = {} /\ hd'[d].waiting = <<>>
                         /\ hd'[d].at = "off"
    BY <2>1 DEF Fresh
  <2>3. Selves' BY <2>2 DEF Selves, Sound, SoundQueue, Queue, Ears, Pend, Loop
  <2>4. Spent' /\ SpokenOnce' /\ ConsumedIsDurable' BY <1>0, <2>1, SilentStores
  <2>5. ASSUME NEW d \in Conns PROVE Holds(d)'
    <3>1. Idles(d) BY <2>1, <2>2 DEF Idles, Silent, Loop
    <3> QED BY <3>1, IdleHolds
  <2> QED BY <1>0, <2>3, <2>4, <2>5 DEF Speech
<1>5. CASE Client /\ ~Dial
  BY <1>0, <1>2, <1>5, ClientIs
<1>6. ASSUME NEW c \in Conns, Break(c) PROVE Speech'
  BY <1>2, <1>6 DEF Break, Served
<1>7. CASE Batch BY <1>2, <1>7 DEF Batch
<1>8. CASE UNCHANGED vars BY <1>2, <1>8 DEF vars
<1> QED BY <1>1, <1>3, <1>4, <1>5, <1>6, <1>7, <1>8 DEF Next

(* It holds always.                                                        *)
LEMMA AlwaysSpeech == Spec => []Speech
<1>1. Init /\ Stages => Speech
  <2> SUFFICES ASSUME Init, Stages PROVE Speech OBVIOUS
  <2>1. /\ \A c \in Conns : /\ hd[c].fed = {} /\ hd[c].heard = {} /\ hd[c].waiting = <<>>
                            /\ hd[c].at = "off" /\ row[c].status = "none"
        /\ segments = {} /\ \A f \in Seqs : frame[f] = "none"
    BY DEF Init, Fresh
  <2>2. Selves BY <2>1 DEF Selves, Sound, SoundQueue, Queue, Ears, Pend, Loop
  <2>3. Spent /\ SpokenOnce /\ ConsumedIsDurable
    BY <2>1 DEF Spent, SpokenOnce, ConsumedIsDurable
  <2>4. \A c \in Conns : ~MayPersist(c) BY <2>1 DEF MayPersist
  <2>5. \A c \in Conns : Holds(c)
    BY <2>4 DEF Holds, Covered, Replayed, Unspoken, Accounted
  <2> QED BY <2>2, <2>3, <2>5 DEF Speech
<1> QED BY <1>1, InitStages, NextSpeech, PTL DEF Spec

-----------------------------------------------------------------------------
(* Theorems.                                                               *)

(* ResendsAreInOrder: a panel that resends what it has no acknowledgement  *)
(* of, to a handler that has replayed what it found stored, is never told  *)
(* OUT_OF_ORDER_SEQ, over any number of connections, failures and          *)
(* restarts.                                                               *)
THEOREM ResendsAreAlwaysInOrder == Spec => []ResendsAreInOrder
<1>1. Speech => ResendsAreInOrder
  <2> SUFFICES ASSUME Speech, NEW c \in Conns, HasFrame(c), row[c].status = "ACTIVE"
               PROVE  frame[InHand(c)] = "CONSUMED" \/ ~OutOfOrder([hd[c] EXCEPT !.cur = InHand(c)])
    BY DEF ResendsAreInOrder
  <2> DEFINE h == [hd[c] EXCEPT !.cur = InHand(c)]
  <2>1. h.cur = InHand(c) /\ h.fed = hd[c].fed BY SelfIs DEF Handlers
  <2>2. LastSeq(h) = LastSeq(hd[c]) BY <2>1 DEF LastSeq
  <2> HIDE DEF h
  <2>3. frame[InHand(c)] = "CONSUMED" \/ ~OutOfOrder(h) BY <2>1, <2>2, InOrder DEF OutOfOrder
  <2> QED BY <2>3 DEF h
<1> QED BY <1>1, AlwaysSpeech, PTL

(* SpokenOnce: no frame goes into two sentences from the session that gave *)
(* it to the recogniser, although each epoch hears again what the one      *)
(* before has left and the handler of an abandoned connection may still be *)
(* about to store its own.                                                 *)
THEOREM SpokenOnceAlways == Spec => []SpokenOnce
<1>1. Speech => SpokenOnce BY DEF Speech
<1> QED BY <1>1, AlwaysSpeech, PTL

(* ConsumedIsDurable: a frame that is consumed, which no later epoch will  *)
(* replay, is part of a stored sentence, unless a failure that its handler *)
(* saw kept it from being heard or stored, or a sentence was filed behind  *)
(* it before the recogniser had answered for it.                           *)
THEOREM ConsumedIsAlwaysDurable == Spec => []ConsumedIsDurable
<1>1. Speech => ConsumedIsDurable BY DEF Speech
<1> QED BY <1>1, AlwaysSpeech, PTL

-----------------------------------------------------------------------------
(* The order of what is stored, and the state of the run.                  *)

(* What is consumed comes before what is not.                              *)
InTurn == \A f \in Consumption, g \in Seqs : g <= f => g \in Consumption

(* The run tells whether the capture has begun, and has been handed on.    *)
HandedOn == {"projections", "partial"}
Runs ==
  /\ run \in HandedOn => Closed
  /\ HandedOver
  /\ run = "none" => latest = 0
  /\ \A c \in Conns : hd[c].wrote => segments # {}

Order == Speech /\ InTurn /\ Runs

(* Frames are consumed in the order of their numbers.                      *)
LEMMA InTurnKept ==
  ASSUME Speech, InTurn, NEW c \in Conns, HandlerStep(c)
  PROVE  InTurn'
<1>0. /\ Typed /\ Gapless /\ frame \in [Seqs -> {"none", "ACCEPTED", "CONSUMED"}]
  BY DEF Speech, Stages, Leases, Typed, OthersOK
<1> SUFFICES ASSUME NEW f \in Seqs, frame'[f] = "CONSUMED", NEW g \in Seqs, g <= f
             PROVE  frame'[g] = "CONSUMED"
  BY DEF InTurn, Consumption
<1>1. frame[f] = "CONSUMED" => frame[g] = "CONSUMED" BY DEF InTurn, Consumption
<1>2. CASE Persist(c)
  <2> DEFINE s == Said(c)
  <2>1. \A h \in Seqs : frame'[h] = "CONSUMED" <=> h <= s.seq \/ frame[h] = "CONSUMED"
    BY <1>2, PersistConsumes
  <2>2. s.seq \in Nat /\ f \in Nat /\ g \in Nat
    <3>1. s.seq \in Seqs BY <1>2, PersistConsumes
    <3> QED BY <3>1, FrameNumbers
  <2> HIDE DEF s
  <2>3. f <= s.seq => g <= s.seq BY <2>2
  <2> QED BY <1>1, <2>1, <2>3
<1>3. CASE Stage(c) BY <1>0, <1>1, <1>3, StagesOne
<1>4. CASE ~Stage(c) /\ ~Persist(c) BY <1>0, <1>1, <1>4, Silently DEF Silent
<1> QED BY <1>2, <1>3, <1>4

(* Helpers of a session that leave alone whether it has stored anything.   *)
LEMMA WroteKept ==
  ASSUME NEW h \in Handlers
  PROVE  /\ Draining(h).wrote = h.wrote /\ Thrown(h).wrote = h.wrote
         /\ Finished(h).wrote = h.wrote /\ Paired(h).wrote = h.wrote
         /\ \A g \in Detected(h) \cup Finalizing(h) \cup Leftover(h) : g.wrote = h.wrote
<1>1. Draining(h).wrote = h.wrote BY DEF Draining, Handlers
<1>2. Thrown(h).wrote = h.wrote BY <1>1 DEF Thrown, Handlers
<1>3. \A g \in Handlers : Finished(g).wrote = g.wrote BY DEF Finished, Handlers
<1>4. Paired(h).wrote = h.wrote BY DEF Paired, Handlers
<1>5. \A g \in Detected(h) : g.wrote = h.wrote BY DEF Detected, Handlers

<1>6. ASSUME NEW g \in Finalizing(h) \cup Leftover(h) PROVE g.wrote = h.wrote
  <2>1. ASSUME NEW q \in Quiet(h) PROVE q \in Handlers /\ q.wrote = h.wrote
    <3>1. PICK k \in {0, 1} : q = [h EXCEPT !.closed = @ + k, !.at = "final_pair"]
      BY <2>1 DEF Quiet
    <3>2. h.closed + k \in Nat BY DEF Handlers
    <3> QED BY <3>1, <3>2 DEF Handlers, Phases
  <2>2. ASSUME NEW q \in Quiet(h), NEW text PROVE Confirmed(q, text).wrote = h.wrote
    BY <2>1 DEF Confirmed, Handlers
  <2>3. \E x : g = Over(x) /\ x.wrote = h.wrote
    <3>1. CASE \E q \in Quiet(h) : g = Over(q) BY <2>1, <3>1
    <3>2. CASE \E q \in Quiet(h), text \in {{}} \cup Prefixes(h.heard) : g = Over(Confirmed(q, text))
      BY <2>2, <3>2
    <3> QED BY <3>1, <3>2 DEF Finalizing, Leftover
  <2>4. PICK x : g = Over(x) /\ x.wrote = h.wrote BY <2>3
  <2>5. Finished(x).wrote = x.wrote BY DEF Finished
  <2> QED BY <2>4, <2>5 DEF Over
<1> QED BY <1>1, <1>2, <1>3, <1>4, <1>5, <1>6

(* A session has stored something only by Persist.                         *)
LEMMA WroteIs ==
  ASSUME Typed, NEW c \in Conns, HandlerStep(c), ~Persist(c)
  PROVE  hd'[c].wrote => hd[c].wrote
<1>0. hd[c] \in Handlers BY TypesAt
<1>1. CASE TurnAway(c) \/ ActivateFails(c) \/ Strand(c) \/ Close(c) \/ CloseFails(c)
  BY <1>1, OverIs DEF Fresh
<1>2. CASE Reserve(c) \/ Activate(c)
  <2>1. PICK phase : Goto(c, phase) BY <1>2 DEF Reserve, Activate
  <2>2. hd'[c] = [hd[c] EXCEPT !.at = phase] BY <2>1, BecomesIs DEF Goto
  <2> QED BY <1>0, <2>2 DEF Handlers
<1>3. CASE Open(c)
  <2> DEFINE h == [hd[c] EXCEPT !.at = "replay", !.replaying = TRUE]
  <2>1. hd'[c] = h \/ hd'[c] = Thrown(h) BY <1>3, BecomesIs DEF Open, Sent
  <2>2. h \in Handlers /\ h.wrote = hd[c].wrote BY <1>0 DEF Handlers, Phases
  <2> QED BY <2>1, <2>2, WroteKept
<1>4. CASE Replay(c)
  <2>1. hd'[c] = [hd[c] EXCEPT !.at = "loop", !.todo = Pending] BY <1>4, BecomesIs DEF Replay
  <2> QED BY <1>0, <2>1 DEF Handlers
<1>5. CASE ReplayFails(c) \/ StageFails(c)
  <2>1. hd'[c] = Thrown(hd[c]) \/ hd'[c] = Draining(hd[c])
    BY <1>5, BecomesIs DEF ReplayFails, StageFails
  <2> QED BY <1>0, <2>1, WroteKept
<1>6. CASE Stage(c)
  <2> DEFINE f == InHand(c)
             h == [hd[c] EXCEPT !.replaying = hd[c].todo # {}, !.cur = f, !.todo = @ \ {f}]
  <2>1. f \in 0..Frames BY <1>6, StageIs, FrameNumbers
  <2>2. hd'[c] \in {[h EXCEPT !.at = "ack"], [h EXCEPT !.cur = 0]} \cup Detected(h)
    <3>1. \E next \in {[h EXCEPT !.at = "ack"], [h EXCEPT !.cur = 0]} \cup Detected(h) :
            Becomes(c, next)
      BY <1>6 DEF Stage
    <3> QED BY <3>1, BecomesIs
  <2>3. h \in Handlers /\ h.wrote = hd[c].wrote BY <1>0, <2>1 DEF Handlers
  <2> HIDE DEF h
  <2>4. CASE hd'[c] \in {[h EXCEPT !.at = "ack"], [h EXCEPT !.cur = 0]}
    BY <2>3, <2>4 DEF Handlers
  <2>5. CASE hd'[c] \in Detected(h) BY <2>3, <2>5, WroteKept
  <2> QED BY <2>2, <2>4, <2>5

<1>7. CASE Hear(c) \/ HearFails(c)
  <2>1. CASE Goto(c, "ack")
    <3>1. hd'[c] = [hd[c] EXCEPT !.at = "ack"] BY <1>0, <2>1, BecomesIs DEF Goto
    <3> QED BY <1>0, <3>1 DEF Handlers
  <2>2. ASSUME NEW heard, Becomes(c, [hd[c] EXCEPT !.heard = heard, !.at = "ack"])
        PROVE  hd'[c].wrote = hd[c].wrote
    <3>1. hd'[c] = [hd[c] EXCEPT !.heard = heard, !.at = "ack"] BY <1>0, <2>2, BecomesIs
    <3> QED BY <1>0, <3>1 DEF Handlers
  <2>3. ASSUME NEW heard, NEW said, NEW phase,
               Becomes(c, [hd[c] EXCEPT !.heard = heard, !.waiting = Append(@, said), !.at = phase])
        PROVE  hd'[c].wrote = hd[c].wrote
    <3>1. hd'[c] = [hd[c] EXCEPT !.heard = heard, !.waiting = Append(@, said), !.at = phase]
      BY <1>0, <2>3, BecomesIs
    <3> QED BY <1>0, <3>1 DEF Handlers
  <2> QED BY <1>7, <2>1, <2>2, <2>3 DEF Hear, HearFails
<1>8. CASE Ack(c)
  <2> DEFINE h == [hd[c] EXCEPT !.at = "loop", !.cur = 0]
  <2>1. hd'[c] = h \/ hd'[c] = Thrown(h) BY <1>8, BecomesIs DEF Ack, Sent
  <2>2. h \in Handlers /\ h.wrote = hd[c].wrote BY <1>0, FrameNumbers DEF Handlers, Phases
  <2> QED BY <2>1, <2>2, WroteKept
<1>9. CASE PersistFails(c)
  <2> DEFINE h == Draining(Paired(hd[c]))
  <2>1. hd'[c] = h \/ hd'[c] = Finished(h) BY <1>9, BecomesIs DEF PersistFails
  <2>2. Paired(hd[c]) \in Handlers
    <3>1. hd[c].closed > 0 /\ hd[c].waiting # <<>> BY <1>9, SaidIs DEF PersistFails
    <3> QED BY <1>0, <3>1, PairedIs
  <2>3. h \in Handlers /\ h.wrote = hd[c].wrote
    BY <1>0, <2>2, WroteKept, DrainingIs DEF Orderly
  <2> QED BY <2>1, <2>3, WroteKept
<1>10. CASE Disconnect(c)
  <2>1. PICK why : hd'[c] = [Draining(hd[c]) EXCEPT !.reason = why]
    BY <1>10, BecomesIs DEF Disconnect
  <2>2. Draining(hd[c]).wrote = hd[c].wrote BY <1>0, WroteKept
  <2> QED BY <2>1, <2>2
<1>11. CASE ReceiveFinalize(c) \/ Drain(c)
  <2>1. PICK h \in {[hd[c] EXCEPT !.replaying = FALSE], [hd[c] EXCEPT !.draining = TRUE]} :
          hd'[c] = Finished(h) \/ hd'[c] \in Finalizing(h) \cup Leftover(h)
    BY <1>11, BecomesIs DEF ReceiveFinalize, Drain
  <2>2. h \in Handlers /\ h.wrote = hd[c].wrote BY <1>0 DEF Handlers
  <2> QED BY <2>1, <2>2, WroteKept
<1> QED BY <1>1, <1>2, <1>3, <1>4, <1>5, <1>6, <1>7, <1>8, <1>9, <1>10, <1>11 DEF HandlerStep

(* A handler that writes holds the lease, so the capture has begun and has *)
(* not been handed on.                                                     *)
LEMMA HolderWrites ==
  ASSUME Order, NEW c \in Conns, row[c].status \in Live
  PROVE  run \notin HandedOn \cup {"none"} /\ ~Closed
<1>1. c = latest /\ Lease /\ Runs BY DEF Order, Speech, Stages, Leases, Lease
<1>2. latest # 0 BY <1>1, StreamConstants DEF Conns
<1>3. ~Closed
  <2> SUFFICES ASSUME NEW d \in Conns, row[d].status = "CLOSED" PROVE FALSE BY DEF Closed
  <2>1. d = latest BY <1>1 DEF Lease
  <2> QED BY <1>1, <2>1 DEF Live
<1> QED BY <1>1, <1>2, <1>3 DEF Runs

(* The run and the end of the capture move together.                       *)
LEMMA RunMoves ==
  ASSUME Leases, NEW c \in Conns, HandlerStep(c)
  PROVE  \/ /\ Close(c) /\ hd[c].reason = "normal" /\ row[c].status \in Live
            /\ row'[c].status = "CLOSED"
            /\ run' = IF run = "over" THEN run ELSE IF hd[c].wrote THEN "projections" ELSE "partial"
         \/ /\ \A d \in Conns : row'[d].status = "CLOSED" => row[d].status = "CLOSED"
            /\ \/ run' = run
               \/ Reserve(c) /\ run' = IF run = "none" THEN "asr" ELSE run
               \/ row[c].status \in Live /\ run' \in {"failed_retryable", "segments"}
<1>0. Typed /\ row \in [Conns -> [status : RowStates, ack : 0..Frames]]
  BY DEF Leases, Typed, OthersOK
<1>1. CASE Close(c) /\ hd[c].reason = "normal"
  <2>1. row'[c].status = "CLOSED" /\ row[c].status \in Live BY <1>0, <1>1 DEF Close, Live
  <2> QED BY <1>1, <2>1 DEF Close, Retryable
<1>2. CASE ~(Close(c) /\ hd[c].reason = "normal")
  <2>1. \A d \in Conns : row'[d].status = "CLOSED" => row[d].status = "CLOSED"
    BY <1>0, <1>2, OnlyCloseCloses
  <2>2. CASE Reserve(c) BY <2>1, <2>2 DEF Reserve
  <2>3. CASE Close(c) \/ Persist(c) \/ ActivateFails(c)
    <3>1. row[c].status \in Live
      BY <2>3 DEF Close, Persist, MayPersist, ActivateFails, Leases, Lease, Live
    <3>2. run' \in {run, "failed_retryable", "segments"}
      BY <1>2, <2>3 DEF Close, Persist, ActivateFails, Retryable
    <3> QED BY <2>1, <3>1, <3>2
  <2>4. CASE ~Reserve(c) /\ ~Close(c) /\ ~Persist(c) /\ ~ActivateFails(c)
    <3>1. run' = run
      BY <2>4 DEF HandlerStep, TurnAway, Activate, Open, Replay, ReplayFails, Strand, Stage,
                  StageFails, Hear, HearFails, Ack, PersistFails, ReceiveFinalize, Disconnect,
                  Drain, CloseFails
    <3> QED BY <2>1, <3>1
  <2> QED BY <2>2, <2>3, <2>4
<1> QED BY <1>1, <1>2

(* What the run tells stays true.                                          *)
LEMMA RunsKept ==
  ASSUME Order, NEW c \in Conns, HandlerStep(c)
  PROVE  Runs'
<1>0. /\ Typed /\ Leases /\ Lease /\ Runs /\ HandedOver /\ Next
      /\ \A d \in Conns : d # c => hd'[d] = hd[d]
  BY OnlyOne DEF Order, Speech, Stages, Leases, Runs, Next
<1>1. run' \in HandedOn => Closed'
  <2>1. CASE Closed
    <3>1. PICK e \in Conns : row[e].status = "CLOSED" BY <2>1 DEF Closed
    <3>2. latest = e /\ e # 0 BY <1>0, <3>1, StreamConstants DEF Lease, Conns
    <3>3. ~Reserve(c) BY <3>1, <3>2 DEF Reserve, MayReserve
    <3>4. hd[e].at # "acquire" BY <1>0, <3>1 DEF Lease, At
    <3>5. row'[e].status = "CLOSED" BY <1>0, <3>1, <3>3, <3>4, RowMoves
    <3> QED BY <3>5 DEF Closed
  <2>2. CASE ~Closed
    <3>1. run \notin HandedOn BY <1>0, <2>2 DEF Runs
    <3>2. CASE row'[c].status = "CLOSED" BY <3>2 DEF Closed
    <3>3. CASE run' \in {run, "asr", "failed_retryable", "segments"}
      BY <3>1, <3>3 DEF HandedOn
    <3> QED BY <1>0, <3>2, <3>3, RunMoves
  <2> QED BY <2>1, <2>2
<1>2. run' = "none" => latest' = 0
  <2>1. CASE Reserve(c) BY <2>1 DEF Reserve
  <2>2. CASE ~Reserve(c)
    <3>1. latest' = latest BY <1>0, <2>2, RowMoves
    <3>2. run' = "none" => run = "none" BY <1>0, <2>2, RunMoves
    <3> QED BY <1>0, <3>1, <3>2 DEF Runs
  <2> QED BY <2>1, <2>2
<1>3. ASSUME NEW d \in Conns, hd'[d].wrote PROVE segments' # {}
  <2>1. segments \subseteq segments'
    BY DEF HandlerStep, Reserve, TurnAway, Activate, ActivateFails, Open, Replay, ReplayFails,
           Strand, Stage, StageFails, Hear, HearFails, Ack, Persist, PersistFails,
           ReceiveFinalize, Disconnect, Drain, Close, CloseFails
  <2>2. CASE Persist(c) BY <2>2 DEF Persist, Filed
  <2>3. CASE ~Persist(c)
    <3>1. hd[d].wrote BY <1>0, <1>3, <2>3, WroteIs
    <3> QED BY <1>0, <2>1, <3>1 DEF Runs
  <2> QED BY <2>2, <2>3
<1>4. HandedOver' BY <1>0, NextHandedOver
<1> QED BY <1>1, <1>2, <1>3, <1>4 DEF Runs

(* Order is an invariant.                                                  *)
LEMMA NextOrder == Order /\ [Next]_vars => Order'
<1> SUFFICES ASSUME Order, [Next]_vars PROVE Order' OBVIOUS
<1>0. /\ Speech /\ Typed /\ Runs /\ InTurn /\ Speech' /\ HandedOver'
  BY NextSpeech, NextHandedOver DEF Order, Speech, Stages, Leases, Runs
<1>1. ASSUME NEW c \in Conns, HandlerStep(c) PROVE Order'
  BY <1>0, <1>1, InTurnKept, RunsKept DEF Order
<1>2. ASSUME UNCHANGED <<row, latest, frame, segments>>, run' # "none",
             \A d \in Conns : hd'[d].wrote => hd[d].wrote,
             run' = run \/ run' \notin HandedOn
      PROVE  Order'
  BY <1>0, <1>2 DEF Order, InTurn, Consumption, Runs, Closed
<1>3. ASSUME UNCHANGED <<row, latest, frame, segments, run>>,
             \A d \in Conns : hd'[d].wrote => hd[d].wrote
      PROVE  Order'
  BY <1>0, <1>3 DEF Order, InTurn, Consumption, Runs, Closed
<1>4. CASE Dial
  <2>1. PICK c \in Conns :
          /\ hd[c] = Fresh("off") /\ hd' = [hd EXCEPT ![c].at = "reserve"]
          /\ \A d \in Conns : d # c => hd'[d] = hd[d]
    <3>1. PICK c \in Conns : c = panel.line + 1 /\ hd[c] = Fresh("off")
      BY <1>0, <1>4, DialIs
    <3>2. hd' = [hd EXCEPT ![c].at = "reserve"]
      BY <1>4, <3>1 DEF Dial, Current, Goto, Becomes
    <3> QED BY <1>0, <3>1, <3>2 DEF Typed, Sessions
  <2>2. UNCHANGED <<row, latest, frame, segments, run>> BY <1>4 DEF Dial, Served
  <2>3. hd'[c] = [Fresh("off") EXCEPT !.at = "reserve"] BY <1>0, <2>1 DEF Typed, Sessions
  <2>4. ~hd'[c].wrote BY <2>3 DEF Fresh
  <2> QED BY <1>3, <2>1, <2>2, <2>4
<1>5. CASE Crash
  <2>1. UNCHANGED <<row, latest, frame, segments, run>> /\ \A d \in Conns : hd'[d] = Fresh("off")
    BY <1>5 DEF Crash
  <2>2. \A d \in Conns : ~hd'[d].wrote BY <2>1 DEF Fresh
  <2> QED BY <1>3, <2>1, <2>2
<1>6. CASE Client /\ ~Dial
  BY <1>3, <1>6 DEF Client, NoToken, Capture, Overflow, Stop, Notice, Served
<1>7. ASSUME NEW c \in Conns, Break(c) PROVE Order'
  BY <1>3, <1>7 DEF Break, Served
<1>8. CASE Batch BY <1>2, <1>8 DEF Batch, HandedOn
<1>9. CASE UNCHANGED vars BY <1>3, <1>9 DEF vars
<1> QED BY <1>1, <1>4, <1>5, <1>6, <1>7, <1>8, <1>9 DEF Next

(* It holds always.                                                        *)
LEMMA AlwaysOrder == Spec => []Order
<1>1. Init /\ Speech => Order
  <2> SUFFICES ASSUME Init, Speech PROVE Order OBVIOUS
  <2>1. /\ \A c \in Conns : ~hd[c].wrote /\ row[c].status = "none"
        /\ \A f \in Seqs : frame[f] = "none"
        /\ latest = 0 /\ run = "none"
    BY DEF Init, Fresh
  <2>2. InTurn BY <2>1 DEF InTurn, Consumption
  <2>3. Runs BY <2>1 DEF Runs, HandedOver, Closed, HandedOn
  <2> QED BY <2>2, <2>3 DEF Order
<1> QED BY <1>1, AlwaysSpeech, NextOrder, PTL DEF Spec

-----------------------------------------------------------------------------
(* The capture implements the transcript it promises.                      *)

(* What is staged and what is consumed are first frames.                   *)
Ends ==
  /\ Kept \in 0..Frames /\ Staged = 1..Kept
  /\ Spoken \in 0..Frames /\ Consumption = 1..Spoken

(* Frames without a gap end with the largest.                              *)
LEMMA FirstFrames ==
  ASSUME NEW S \in SUBSET Seqs, \A f \in S, g \in Seqs : g <= f => g \in S
  PROVE  /\ Largest(S \cup {0}) \in 0..Frames
         /\ S = 1..Largest(S \cup {0})
<1> DEFINE T == S \cup {0}
           n == Largest(T)
<1>1. T \in SUBSET (0..Frames) /\ T # {} BY FrameNumbers
<1> HIDE DEF T
<1>2. n \in T /\ \A m \in T : m <= n BY <1>1, LargestOf
<1>4. T = S \cup {0} BY DEF T
<1> HIDE DEF n
<1>3. n \in 0..Frames /\ n \in Nat
  <2>1. n \in 0..Frames BY <1>1, <1>2
  <2> QED BY <2>1
<1>5. ASSUME NEW f \in S PROVE f \in 1..n
  <2>1. f \in Nat /\ f # 0 BY FrameNumbers
  <2>2. f <= n BY <1>2, <1>4
  <2> QED BY <1>3, <2>1, <2>2
<1>6. ASSUME NEW f \in 1..n PROVE f \in S
  <2>1. n # 0 /\ f <= n BY <1>3, <1>6
  <2>3. f \in Seqs BY <1>3, <1>6, FrameNumbers DEF Seqs
  <2>2. n \in S BY <1>2, <1>4, <2>1
  <2> QED BY <2>1, <2>2, <2>3
<1>7. S = 1..n BY <1>5, <1>6
<1> QED BY <1>3, <1>7 DEF n, T

(* So they do in every state.                                              *)
LEMMA EndsAre == Order => Ends
<1> SUFFICES ASSUME Order PROVE Ends OBVIOUS
<1>1. Gapless /\ InTurn BY DEF Order, Speech, Stages
<1>2. Staged \in SUBSET Seqs /\ \A f \in Staged, g \in Seqs : g <= f => g \in Staged
  BY <1>1 DEF Gapless, Filled, Staged
<1>3. /\ Consumption \in SUBSET Seqs
      /\ \A f \in Consumption, g \in Seqs : g <= f => g \in Consumption
  BY <1>1 DEF InTurn, Consumption
<1>4. Kept \in 0..Frames /\ Staged = 1..Kept BY <1>2, FirstFrames DEF Kept
<1>5. Spoken \in 0..Frames /\ Consumption = 1..Spoken BY <1>3, FirstFrames DEF Spoken
<1> QED BY <1>4, <1>5 DEF Ends

(* The first frames determine how many they are.                           *)
LEMMA SameEnd ==
  ASSUME NEW a \in Nat, NEW b \in Nat, 1..a = 1..b
  PROVE  a = b
<1>1. ASSUME a < b PROVE FALSE
  <2>1. b \in 1..b /\ b \notin 1..a BY <1>1
  <2> QED BY <2>1
<1>2. ASSUME b < a PROVE FALSE
  <2>1. a \in 1..a /\ a \notin 1..b BY <1>2
  <2> QED BY <2>1
<1> QED BY <1>1, <1>2

(* One more is the next.                                                   *)
LEMMA NextEnd ==
  ASSUME NEW a \in Nat, NEW b \in Nat, NEW f \in Nat, f \notin 1..a, f # 0, 1..b = 1..a \cup {f}
  PROVE  b = a + 1
<1>1. f \in 1..b OBVIOUS
<1>2. a < f /\ f <= b BY <1>1
<1>3. a + 1 \in 1..b BY <1>2
<1>4. a + 1 \notin 1..a BY <1>3
<1>5. a + 1 = f BY <1>3, <1>4
<1>6. b \in 1..b /\ b \notin 1..a BY <1>2
<1>7. b = f BY <1>6
<1> QED BY <1>5, <1>7

(* What the frames have in common with the frames before.                  *)
LEMMA SameFrames ==
  ASSUME Ends, Ends'
  PROVE  /\ Kept \in Nat /\ Kept' \in Nat /\ Spoken \in Nat /\ Spoken' \in Nat
         /\ Staged' = Staged => Kept' = Kept
         /\ Consumption' = Consumption => Spoken' = Spoken
<1>1. Kept \in Nat /\ Kept' \in Nat /\ Spoken \in Nat /\ Spoken' \in Nat
  BY FrameNumbers DEF Ends
<1>2. ASSUME Staged' = Staged PROVE Kept' = Kept
  <2>1. 1..Kept = 1..Kept' BY <1>2 DEF Ends
  <2> QED BY <1>1, <2>1, SameEnd
<1>3. ASSUME Consumption' = Consumption PROVE Spoken' = Spoken
  <2>1. 1..Spoken = 1..Spoken' BY <1>3 DEF Ends
  <2> QED BY <1>1, <2>1, SameEnd
<1> QED BY <1>1, <1>2, <1>3

(* What is told of frames, sentences and the acknowledgement when they     *)
(* stay as they are.                                                       *)
LEMMA SameTranscript ==
  ASSUME Ends, Ends'
  PROVE  /\ frame' = frame => Kept' = Kept /\ Spoken' = Spoken
         /\ segments' = segments => Texts' = Texts
<1>1. frame' = frame => Staged' = Staged /\ Consumption' = Consumption BY DEF Staged, Consumption
<1>2. segments' = segments => Texts' = Texts BY DEF Texts
<1> QED BY <1>1, <1>2, SameFrames

(* A step that moves none of this.                                         *)
Stutters == UNCHANGED <<frame, segments, missed, run>> /\ panel'.acked = panel.acked

LEMMA StutterIs ==
  ASSUME Ends, Ends', Stutters
  PROVE  UNCHANGED Promise!vars
BY SameTranscript DEF Stutters, Promise!vars

(* The writer's run is one that is being written to, or has been ended.    *)
LEMMA WriterMay ==
  ASSUME Order, NEW c \in Conns, row[c].status \in Live
  PROVE  Promise!Begun
BY HolderWrites DEF HandedOn, Promise!Begun, Promise!HandedOn

(* A frame is staged: it is the next, or it was staged before.             *)
LEMMA StageImplements ==
  ASSUME Order, Ends, Ends', NEW c \in Conns, Stage(c)
  PROVE  Promise!Keep \/ UNCHANGED Promise!vars
<1>0. /\ Typed /\ frame \in [Seqs -> {"none", "ACCEPTED", "CONSUMED"}]
  BY DEF Order, Speech, Stages, Leases, Typed, OthersOK
<1> DEFINE f == InHand(c)
<1>1. f \in Seqs BY <1>0, StageIs
<1>2. /\ UNCHANGED <<segments, missed, run>> /\ panel'.acked = panel.acked
      /\ row[c].status \in Live
  BY <1>0 DEF Stage, Typed, OthersOK, Live
<1>3. \A g \in Seqs : frame'[g] = IF g = f /\ frame[f] = "none" THEN "ACCEPTED" ELSE frame[g]
  BY <1>0, <1>1 DEF Stage
<1> HIDE DEF f
<1>4. Consumption' = Consumption BY <1>1, <1>3 DEF Consumption
<1>5. Staged' = Staged \cup {f} BY <1>1, <1>3 DEF Staged
<1>6. Texts' = Texts /\ Spoken' = Spoken BY <1>2, <1>4, SameTranscript, SameFrames
<1>7. CASE f \in Staged
  <2>1. Kept' = Kept
    <3>1. Staged' = Staged BY <1>5, <1>7
    <3> QED BY <3>1, SameFrames
  <2> QED BY <1>2, <1>6, <2>1 DEF Promise!vars
<1>8. CASE f \notin Staged
  <2>1. Kept \in Nat /\ Kept' \in Nat /\ f \in Nat /\ f # 0 BY <1>1, SameFrames, FrameNumbers
  <2>2. f \notin 1..Kept /\ 1..Kept' = 1..Kept \cup {f} BY <1>5, <1>8 DEF Ends
  <2>3. Kept' = Kept + 1 BY <2>1, <2>2, NextEnd
  <2>4. Kept < Frames
    <3>1. Kept' \in 0..Frames BY DEF Ends
    <3>2. Frames \in Nat BY FrameNumbers
    <3> QED BY <2>1, <2>3, <3>1, <3>2
  <2>5. Promise!Begun BY <1>2, WriterMay
  <2> QED BY <1>2, <1>6, <2>3, <2>4, <2>5 DEF Promise!Keep
<1> QED BY <1>7, <1>8

(* Something cannot be heard or stored: only frames that were fed are      *)
(* missed.                                                                 *)
LEMMA FailureImplements ==
  ASSUME Order, Ends, Ends', NEW c \in Conns, HearFails(c) \/ PersistFails(c)
  PROVE  Promise!Miss
<1>0. Speech /\ Typed BY DEF Order, Speech, Stages, Leases
<1>1. /\ UNCHANGED <<frame, segments, run, panel>> BY DEF HearFails, PersistFails
<1>2. Sound(hd[c]) /\ hd[c].fed \subseteq Staged BY <1>0, SelfIs
<1>3. missed \subseteq missed' /\ missed' \ missed \subseteq hd[c].fed
  <2>1. CASE HearFails(c)
    <3>1. /\ hd[c].at = "asr" /\ missed \subseteq missed' /\ missed' \subseteq missed \cup Heard(c)
      BY <1>0, <2>1, HeardIs
    <3>2. Heard(c) \subseteq hd[c].fed BY <1>2, <3>1 DEF Heard, Sound, Ears, Pend
    <3> QED BY <3>1, <3>2
  <2>2. CASE PersistFails(c)
    <3>1. Said(c).text \subseteq hd[c].fed BY <1>0, <2>2, HeadIs DEF PersistFails
    <3>2. At(c, "vad_pair") => hd[c].cur \in hd[c].fed BY <1>2 DEF At, Sound, Ears, Pend
    <3> QED BY <2>2, <3>1, <3>2 DEF PersistFails
  <2> QED BY <2>1, <2>2
<1>4. missed' \ missed \subseteq 1..Kept BY <1>2, <1>3 DEF Ends
<1> QED BY <1>1, <1>3, <1>4, SameTranscript DEF Promise!Miss, Promise!MissMore

(* An acknowledgement: the frame at hand is stored, and all before it.     *)
LEMMA AckImplements ==
  ASSUME Order, Ends, Ends', NEW c \in Conns, Ack(c)
  PROVE  Promise!Tell \/ UNCHANGED Promise!vars
<1>0. /\ Typed /\ Gapless /\ panel.acked \in Nat
      /\ panel \in [state : {"live", "committed", "failed"}, link : Links, line : 0..Lines,
                     token : 0..Lines, captured : 0..Frames, acked : 0..Frames, ending : BOOLEAN]
  BY StreamConstants DEF Order, Speech, Stages, Leases, Typed, OthersOK
<1>1. UNCHANGED <<frame, segments, missed, run>> BY DEF Ack
<1>2. hd[c].cur \in Seqs /\ hd[c].cur \in Nat
  <2>1. hd[c].cur \in Seqs BY <1>0, TypesAt DEF Ack, At, Typed, Sessions, Orderly, Loop
  <2> QED BY <2>1, FrameNumbers
<1>3. hd[c].cur \in 1..Kept
  <2>1. Filled(frame, hd[c].cur) BY <1>0 DEF Gapless
  <2>2. hd[c].cur \in Staged BY <1>2, <2>1 DEF Filled, Staged
  <2> QED BY <2>2 DEF Ends
<1>4. CASE Hears(c) /\ hd[c].cur > panel.acked
  <2>1. panel'.acked = hd[c].cur BY <1>0, <1>4 DEF Ack
  <2>2. hd[c].cur \in (panel.acked + 1)..Kept
    <3>1. Kept \in Nat BY SameFrames
    <3> QED BY <1>0, <1>2, <1>3, <1>4, <3>1
  <2> QED BY <1>1, <2>1, <2>2, SameTranscript DEF Promise!Tell
<1>5. CASE ~(Hears(c) /\ hd[c].cur > panel.acked)
  <2>1. panel' = panel BY <1>5 DEF Ack
  <2> QED BY <1>1, <2>1, StutterIs DEF Stutters
<1> QED BY <1>4, <1>5

(* The first epoch begins the transcript; the others find it begun.        *)
LEMMA ReserveImplements ==
  ASSUME Ends, Ends', NEW c \in Conns, Reserve(c)
  PROVE  Promise!Begin \/ UNCHANGED Promise!vars
<1>1. UNCHANGED <<panel, frame, segments, missed>> BY DEF Reserve
<1>2. CASE run = "none"
  <2>1. run' = "asr" BY <1>2 DEF Reserve
  <2> QED BY <1>1, <1>2, <2>1, SameTranscript DEF Promise!Begin
<1>3. CASE run # "none"
  <2>1. run' = run BY <1>3 DEF Reserve
  <2> QED BY <1>1, <2>1, StutterIs DEF Stutters
<1> QED BY <1>2, <1>3

(* An epoch fails, or closes the transcript; one that was ended stays so.  *)
LEMMA EndImplements ==
  ASSUME Order, Ends, Ends', NEW c \in Conns, ActivateFails(c) \/ Close(c)
  PROVE  Promise!Fail \/ Promise!Close \/ UNCHANGED Promise!vars
<1>0. Typed /\ Lease /\ Runs BY DEF Order, Speech, Stages, Leases
<1>1. UNCHANGED <<frame, segments, missed>> /\ panel'.acked = panel.acked
  BY <1>0 DEF ActivateFails, Close, Typed, OthersOK
<1>2. row[c].status \in Live BY <1>0 DEF ActivateFails, Close, Lease, Live
<1>3. Promise!Begun BY <1>2, WriterMay
<1>4. CASE run' = run BY <1>1, <1>4, StutterIs DEF Stutters
<1>5. CASE run # "over" /\ run' = "failed_retryable"
  BY <1>1, <1>3, <1>5, SameTranscript DEF Promise!Fail, Promise!Writable
<1>6. CASE run # "over" /\ Close(c) /\ run' = IF hd[c].wrote THEN "projections" ELSE "partial"
  <2>1. hd[c].wrote => Texts # {} BY <1>0 DEF Runs, Texts
  <2>2. run' \in Promise!HandedOn /\ (run' = "projections" => Texts # {})
    BY <1>6, <2>1 DEF Promise!HandedOn
  <2> QED BY <1>1, <1>3, <1>6, <2>2, SameTranscript DEF Promise!Close, Promise!Writable
<1> QED BY <1>4, <1>5, <1>6 DEF ActivateFails, Close, Retryable

(* A run is failed or ended from outside, but none that is handed on.      *)
LEMMA BatchImplements ==
  ASSUME Ends, Ends', Batch
  PROVE  Promise!Fail
<1>1. UNCHANGED <<panel, frame, segments, missed>> BY DEF Batch
<1>2. Promise!Writable /\ run' \in {"failed_retryable", "over"}
  BY DEF Batch, Promise!Writable, Promise!Begun, Promise!HandedOn
<1> QED BY <1>1, <1>2, SameTranscript DEF Promise!Fail

(* A sentence is stored: it comes after all others, and what it passes by  *)
(* was missed.  One that is taken for a stored one changes nothing else.   *)
LEMMA PersistImplements ==
  ASSUME Order, Ends, Ends', NEW c \in Conns, Persist(c)
  PROVE  Promise!Say \/ Promise!Miss
<1> DEFINE s == Said(c)
<1>0. /\ Speech /\ Typed /\ Spent /\ Sound(hd[c]) /\ Holds(c)
      /\ hd[c].at \in Pairing /\ MayPersist(c)
      /\ frame \in [Seqs -> {"none", "ACCEPTED", "CONSUMED"}]
  BY SelfIs DEF Order, Speech, Stages, Leases, Typed, OthersOK, Persist
<1>1. /\ s = hd[c].waiting[1] /\ 1 \in Queue(hd[c])
      /\ s.text \subseteq hd[c].fed /\ s.seq \in hd[c].fed
      /\ hd[c].fed \subseteq Staged /\ hd[c].fed \subseteq Seqs
      /\ \A f \in s.text : f <= s.seq
  BY <1>0, HeadIs
<1>2. /\ panel' = panel
      /\ \/ Filed(s) /\ segments' = segments /\ run' = run
         \/ run # "over" /\ segments' = segments \cup {Entry(s)} /\ run' = "segments"
  BY DEF Persist
<1>3. /\ s.seq \in Seqs
      /\ \A f \in Seqs : frame'[f] = "CONSUMED" <=> f <= s.seq \/ frame[f] = "CONSUMED"
      /\ \A f \in Seqs : frame'[f] # "none" <=> frame[f] # "none"
  BY <1>0, PersistConsumes
<1>4. \A f \in Seqs : f <= s.seq /\ Accepted(f) => f \in s.text \cup missed'
  BY <1>0, ConsumesIs
<1>5. \A t \in segments : \A g \in t.text : \A f \in s.text : g < f
  BY <1>0, <1>1 DEF Holds, Unspoken
<1>6. Entry(s).text = s.text BY DEF Entry
<1>7. Staged' = Staged BY <1>3 DEF Staged
<1>8. \A f \in Seqs : f \in Consumption' <=> f <= s.seq \/ f \in Consumption
  BY <1>3 DEF Consumption
<1>9. Kept' = Kept /\ Kept \in Nat /\ Spoken \in Nat /\ Spoken' \in Nat BY <1>7, SameFrames
<1>10. /\ s.seq \in Nat /\ s.seq \in 1..Kept /\ s.text \subseteq 1..Kept
       /\ 1..Kept \subseteq Seqs /\ 1..Spoken \subseteq Staged
  <2>1. s.seq \in Nat BY <1>3, FrameNumbers
  <2>2. s.seq \in Staged /\ s.text \subseteq Staged BY <1>1
  <2>3. Staged \subseteq Seqs /\ Consumption \subseteq Staged BY DEF Staged, Consumption
  <2> QED BY <2>1, <2>2, <2>3 DEF Ends
<1>11. Promise!MissMore
  <2>1. /\ missed \subseteq missed'
        /\ missed' \subseteq missed \cup Late(c) \cup Pend(hd[c])
    BY <1>0, PersistIs DEF Pend
  <2>2. Pend(hd[c]) \subseteq 1..Kept BY <1>0, <1>1 DEF Sound, Ears, Ends
  <2>3. Late(c) \subseteq 1..Kept
    <3>1. Late(c) \subseteq 1..s.seq BY DEF Late
    <3> HIDE DEF s
    <3> QED BY <1>9, <1>10, <3>1
  <2> QED BY <1>9, <2>1, <2>2, <2>3 DEF Promise!MissMore
<1> HIDE DEF s
<1>12. CASE Filed(s) /\ segments' = segments /\ run' = run
  <2>1. \A f \in Seqs : f <= s.seq => frame[f] = "CONSUMED"
    BY <1>0, <1>12 DEF Filed, Spent
  <2>2. Consumption' = Consumption BY <1>3, <2>1 DEF Consumption
  <2>3. Spoken' = Spoken /\ Texts' = Texts BY <1>12, <2>2, SameFrames, SameTranscript
  <2> QED BY <1>2, <1>9, <1>11, <1>12, <2>3 DEF Promise!Miss
<1>13. CASE run # "over" /\ segments' = segments \cup {Entry(s)} /\ run' = "segments"
  <2> DEFINE last == IF Spoken < s.seq THEN s.seq ELSE Spoken
  <2>1. last \in Nat /\ last \in Spoken..Kept /\ s.seq <= last
    <3>1. Spoken <= Kept
      <4>1. CASE Spoken = 0 BY <1>9, <4>1
      <4>2. CASE Spoken # 0
        <5>1. Spoken \in 1..Spoken BY <1>9, <4>2
        <5>2. Spoken \in 1..Kept BY <1>10, <5>1 DEF Ends
        <5> QED BY <1>9, <5>2
      <4> QED BY <4>1, <4>2
    <3> QED BY <1>9, <1>10, <3>1
  <2>2. Spoken' = last
    <3>1. 1..Spoken' = 1..last
      <4>1. ASSUME NEW f \in 1..Spoken' PROVE f \in 1..last
        <5>1. f \in Consumption' /\ f \in Seqs /\ f \in Nat /\ f # 0
          BY <1>9, <4>1 DEF Ends, Consumption
        <5>2. f <= s.seq \/ f \in 1..Spoken BY <1>8, <5>1 DEF Ends
        <5> QED BY <1>9, <1>10, <5>1, <5>2
      <4>2. ASSUME NEW f \in 1..last PROVE f \in 1..Spoken'
        <5>1. f \in 1..Kept BY <1>9, <2>1, <4>2
        <5>2. f <= s.seq \/ f \in 1..Spoken BY <1>9, <1>10, <4>2
        <5> QED BY <1>8, <1>10, <5>1, <5>2 DEF Ends
      <4> QED BY <4>1, <4>2
    <3> HIDE DEF last
    <3> QED BY <1>9, <2>1, <3>1, SameEnd
  <2>3. \A f \in s.text : f <= last /\ \A said \in Texts : \A g \in said : g < f
    <3>1. ASSUME NEW f \in s.text PROVE f <= last
      <4>1. f <= s.seq /\ f \in Nat BY <1>1, <1>9, <1>10
      <4> HIDE DEF last
      <4> QED BY <1>10, <2>1, <4>1
    <3>2. \A f \in s.text : \A said \in Texts : \A g \in said : g < f BY <1>5 DEF Texts
    <3> QED BY <3>1, <3>2
  <2>4. ASSUME NEW f \in (Spoken + 1)..last PROVE f \in s.text \cup missed'
    <3>1. f \in 1..Kept /\ f <= s.seq /\ f \notin 1..Spoken BY <1>9, <1>10, <2>1
    <3>2. f \in Staged /\ f \notin Consumption /\ f \in Seqs BY <1>10, <3>1 DEF Ends
    <3>3. Accepted(f) BY <1>0, <3>2 DEF Staged, Consumption, Accepted
    <3> QED BY <1>4, <3>1, <3>2, <3>3
  <2>5. Texts' = Texts \cup {s.text} BY <1>6, <1>13 DEF Texts
  <2>6. Promise!Writable
    <3>1. row[c].status \in Live BY <1>0 DEF MayPersist, Live
    <3>2. Promise!Begun BY <3>1, WriterMay
    <3> QED BY <1>13, <3>2 DEF Promise!Writable
  <2>7. s.text \in SUBSET (1..Kept) BY <1>10
  <2> HIDE DEF last
  <2>8. \E end \in Spoken..Kept, text \in SUBSET (1..Kept) :
          /\ \A f \in text : f <= end /\ \A said \in Texts : \A g \in said : g < f
          /\ \A f \in (Spoken + 1)..end : f \in text \cup missed'
          /\ Spoken' = end /\ Texts' = Texts \cup {text}
    BY <2>1, <2>2, <2>3, <2>4, <2>5, <2>7
  <2> QED BY <1>2, <1>9, <1>11, <1>13, <2>6, <2>8 DEF Promise!Say
<1> QED BY <1>2, <1>12, <1>13

(* Whatever else a handler does is not seen in the transcript.             *)
LEMMA OthersStutter ==
  ASSUME Typed, NEW c \in Conns,
         \/ TurnAway(c) \/ Activate(c) \/ Open(c) \/ Replay(c) \/ ReplayFails(c) \/ Strand(c)
         \/ StageFails(c) \/ Hear(c) \/ ReceiveFinalize(c) \/ Disconnect(c) \/ Drain(c)
         \/ CloseFails(c)
  PROVE  Stutters
<1>1. panel'.acked = panel.acked
  <2>1. CASE Open(c) BY <2>1 DEF Open, Typed, OthersOK
  <2>2. CASE ~Open(c)
    BY <2>2 DEF TurnAway, Activate, Replay, ReplayFails, Strand, StageFails, Hear,
                ReceiveFinalize, Disconnect, Drain, CloseFails
  <2> QED BY <2>1, <2>2
<1> QED
  BY <1>1 DEF TurnAway, Activate, Open, Replay, ReplayFails, Strand, StageFails, Hear,
              ReceiveFinalize, Disconnect, Drain, CloseFails, Stutters

(* Nor are the client, a connection that breaks and a restart.             *)
LEMMA RestStutter ==
  ASSUME Typed, Client \/ Crash \/ (\E c \in Conns : Break(c)) \/ UNCHANGED vars
  PROVE  Stutters
<1>1. CASE Client
  <2>1. UNCHANGED <<frame, segments, missed, run>>
    BY <1>1 DEF Client, Dial, NoToken, Capture, Overflow, Stop, Notice, Served
  <2>2. panel'.acked = panel.acked
    <3>1. Failed(panel).acked = panel.acked BY DEF Failed, Typed, OthersOK
    <3>2. Reconnecting(panel).acked = panel.acked
      BY <3>1 DEF Reconnecting, Typed, OthersOK
    <3>3. Stop => panel'.acked = panel.acked
      <4> DEFINE p == [panel EXCEPT !.ending = TRUE]
      <4>1. p.acked = panel.acked BY DEF Typed, OthersOK
      <4> HIDE DEF p
      <4>2. Reconnecting(p).acked = p.acked BY DEF Reconnecting, Failed
      <4>3. Stop => panel' = p \/ panel' = Reconnecting(p) BY DEF Stop, p
      <4> QED BY <4>1, <4>2, <4>3
    <3>4. Dial \/ Capture => panel'.acked = panel.acked BY DEF Dial, Capture, Typed, OthersOK
    <3> QED BY <1>1, <3>1, <3>2, <3>3, <3>4 DEF Client, NoToken, Overflow, Notice
  <2> QED BY <2>1, <2>2 DEF Stutters
<1>2. CASE Crash BY <1>2 DEF Crash, Stutters
<1>3. CASE \E c \in Conns : Break(c) BY <1>3 DEF Break, Served, Stutters
<1>4. CASE UNCHANGED vars BY <1>4 DEF vars, Stutters
<1> QED BY <1>1, <1>2, <1>3, <1>4

(* Every step is a step of the transcript, or none.                        *)
LEMMA TranscriptStep ==
  Order /\ Ends /\ Ends' /\ [Next]_vars => [Promise!Next]_(Promise!vars)
<1> SUFFICES ASSUME Order, Ends, Ends', [Next]_vars
             PROVE  Promise!Next \/ UNCHANGED Promise!vars
  OBVIOUS
<1>0. Typed BY DEF Order, Speech, Stages, Leases
<1>1. ASSUME NEW c \in Conns, HandlerStep(c) PROVE Promise!Next \/ UNCHANGED Promise!vars
  <2>1. CASE Reserve(c) BY <2>1, ReserveImplements DEF Promise!Next
  <2>2. CASE Stage(c) BY <2>2, StageImplements DEF Promise!Next
  <2>3. CASE HearFails(c) \/ PersistFails(c) BY <2>3, FailureImplements DEF Promise!Next
  <2>4. CASE Ack(c) BY <2>4, AckImplements DEF Promise!Next
  <2>5. CASE Persist(c) BY <2>5, PersistImplements DEF Promise!Next
  <2>6. CASE ActivateFails(c) \/ Close(c) BY <2>6, EndImplements DEF Promise!Next
  <2>7. CASE \/ TurnAway(c) \/ Activate(c) \/ Open(c) \/ Replay(c) \/ ReplayFails(c) \/ Strand(c)
             \/ StageFails(c) \/ Hear(c) \/ ReceiveFinalize(c) \/ Disconnect(c) \/ Drain(c)
             \/ CloseFails(c)
    <3>1. Stutters BY <1>0, <2>7, OthersStutter
    <3> QED BY <3>1, StutterIs
  <2> QED BY <1>1, <2>1, <2>2, <2>3, <2>4, <2>5, <2>6, <2>7 DEF HandlerStep
<1>2. CASE Client \/ Crash \/ (\E c \in Conns : Break(c)) \/ UNCHANGED vars
  <2>1. Stutters BY <1>0, <1>2, RestStutter
  <2> QED BY <2>1, StutterIs
<1>3. CASE Batch BY <1>3, BatchImplements DEF Promise!Next
<1> QED BY <1>1, <1>2, <1>3 DEF Next

(* Nothing is kept, told or said yet.                                      *)
LEMMA TranscriptInit == Init /\ Ends => Promise!Init
<1> SUFFICES ASSUME Init, Ends PROVE Promise!Init OBVIOUS
<1>1. Staged = {} /\ Consumption = {} /\ Texts = {} BY DEF Init, Staged, Consumption, Texts
<1>2. ASSUME NEW n \in Nat, 1..n = {} PROVE n = 0
  <2>1. n # 0 => 1 \in 1..n OBVIOUS
  <2> QED BY <1>2, <2>1
<1>3. Kept = 0 /\ Spoken = 0
  <2>1. Kept \in Nat /\ Spoken \in Nat BY FrameNumbers DEF Ends
  <2>2. 1..Kept = {} /\ 1..Spoken = {} BY <1>1 DEF Ends
  <2> QED BY <1>2, <2>1, <2>2
<1> QED BY <1>1, <1>3 DEF Init, Promise!Init

(* ImplementsTranscript: with all its connections, leases, replays,        *)
(* failures and restarts, a capture is the transcript it promises.         *)
THEOREM TranscriptIsImplemented == Spec => ImplementsTranscript
BY AlwaysOrder, EndsAre, TranscriptInit, TranscriptStep, PTL
   DEF Spec, ImplementsTranscript, Promise!Spec
=============================================================================
