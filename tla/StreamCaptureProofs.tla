-------------------------- MODULE StreamCaptureProofs --------------------------
(***************************************************************************)
(* What holds of a live capture for every number of frames, connections    *)
(* and permits: its types, that every permit comes back, that a closed     *)
(* capture stays as it is, and that the panel forgets nothing that is not  *)
(* stored.                                                                 *)
(***************************************************************************)
EXTENDS StreamCapture, FiniteSetTheorems, SequenceTheorems, TLAPS

-----------------------------------------------------------------------------
(* Numbers.                                                                *)

(* A set of numbers up to n has a largest and a smallest element.          *)
LEMMA Extremes ==
  ASSUME NEW n \in Nat, NEW S \in SUBSET (0..n), S # {}
  PROVE  /\ \E x \in S : \A y \in S : y <= x
         /\ \E x \in S : \A y \in S : x <= y
<1>1. IsFiniteSet(0..n) BY FS_Interval
<1>2. IsWellFoundedOn(StrictSubsetOrdering(0..n), SUBSET (0..n))
  BY <1>1, FS_StrictSubsetOrderingWellFounded, FS_FiniteSubsetsOfFinite
<1>3. \E x \in S : \A y \in S : y <= x
  <2> DEFINE Above(x) == {y \in S : y > x}
             T == {Above(x) : x \in S}
  <2>1. T \subseteq SUBSET (0..n) /\ T # {} OBVIOUS
  <2> HIDE DEF T
  <2>2. PICK A \in T : \A B \in T : <<B, A>> \notin StrictSubsetOrdering(0..n)
    BY <1>2, <2>1, WFMin
  <2>3. PICK x \in S : A = Above(x) BY DEF T
  <2>4. ASSUME NEW y \in S, y > x PROVE FALSE
    <3>1. Above(y) \in T BY DEF T
    <3>2. Above(y) \subseteq Above(x) /\ y \in Above(x) /\ y \notin Above(y)
      <4>1. \A z \in S : z \in Int OBVIOUS
      <4>2. \A z \in S : z > y => z > x BY <2>4, <4>1
      <4>3. ~(y > y) BY <4>1
      <4> QED BY <2>4, <4>2, <4>3
    <3>3. Above(y) # Above(x) BY <3>2
    <3>4. <<Above(y), Above(x)>> \in StrictSubsetOrdering(0..n)
      BY <3>2, <3>3 DEF StrictSubsetOrdering
    <3> QED BY <2>2, <2>3, <3>1, <3>4
  <2> QED BY <2>4
<1>4. \E x \in S : \A y \in S : x <= y
  <2> DEFINE Below(x) == {y \in S : y < x}
             T == {Below(x) : x \in S}
  <2>1. T \subseteq SUBSET (0..n) /\ T # {} OBVIOUS
  <2> HIDE DEF T
  <2>2. PICK A \in T : \A B \in T : <<B, A>> \notin StrictSubsetOrdering(0..n)
    BY <1>2, <2>1, WFMin
  <2>3. PICK x \in S : A = Below(x) BY DEF T
  <2>4. ASSUME NEW y \in S, y < x PROVE FALSE
    <3>1. Below(y) \in T BY DEF T
    <3>2. Below(y) \subseteq Below(x) /\ y \in Below(x) /\ y \notin Below(y)
      <4>1. \A z \in S : z \in Int OBVIOUS
      <4>2. \A z \in S : z < y => z < x BY <2>4, <4>1
      <4>3. ~(y < y) BY <4>1
      <4> QED BY <2>4, <4>2, <4>3
    <3>3. Below(y) # Below(x) BY <3>2
    <3>4. <<Below(y), Below(x)>> \in StrictSubsetOrdering(0..n)
      BY <3>2, <3>3 DEF StrictSubsetOrdering
    <3> QED BY <2>2, <2>3, <3>1, <3>4
  <2> QED BY <2>4
<1> QED BY <1>3, <1>4

(* Largest of a set of frame numbers and 0.                                *)
LEMMA LargestOf ==
  ASSUME NEW S \in SUBSET (0..Frames), S # {}
  PROVE  Largest(S) \in S /\ \A m \in S : m <= Largest(S)
<1>1. Frames \in Nat BY StreamConstants
<1>2. \E x \in S : \A m \in S : m <= x BY <1>1, Extremes
<1> QED BY <1>2 DEF Largest

-----------------------------------------------------------------------------
(* What the steps of a handler make of its session.                        *)

Loop == {"loop", "vad_pair", "asr", "asr_pair", "ack"}
Before == {"off", "reserve", "acquire", "open", "replay"}
Owning == Phases \ {"off", "reserve", "acquire"}

(* A session that is in order: a pair has both halves, and a frame that is *)
(* worked on is one.                                                       *)
Orderly(h) ==
  /\ h \in Handlers
  /\ h.at \in Pairing => h.closed > 0 /\ h.waiting # <<>>
  /\ h.at \in Loop \ {"loop"} => h.cur \in Seqs

(* What stays as it is when a session ends its loop.                       *)
Keeps(h, g) ==
  /\ g.fed = h.fed /\ g.heard = h.heard /\ g.waiting = h.waiting /\ g.closed = h.closed

(* Frames are numbers.                                                     *)
LEMMA FrameNumbers ==
  /\ Frames \in Nat /\ 0 \in 0..Frames
  /\ Seqs \subseteq 0..Frames /\ Seqs \subseteq Nat /\ 0 \notin Seqs
  /\ \A n \in 0..Frames : n \in Seqs <=> n # 0
BY StreamConstants DEF Seqs

(* The last sequence of what was fed.                                      *)
LEMMA LastSeqOf ==
  ASSUME NEW h \in Handlers
  PROVE  /\ LastSeq(h) \in h.fed \cup {0}
         /\ LastSeq(h) \in 0..Frames
         /\ \A g \in h.fed : g <= LastSeq(h)
         /\ h.fed # {} => LastSeq(h) \in h.fed
<1>1. h.fed \in SUBSET Seqs BY DEF Handlers
<1>2. h.fed \cup {0} \in SUBSET (0..Frames) BY <1>1, FrameNumbers
<1>3. /\ LastSeq(h) \in h.fed \cup {0}
      /\ \A g \in h.fed \cup {0} : g <= LastSeq(h)
  BY <1>2, LargestOf DEF LastSeq
<1>4. LastSeq(h) \in 0..Frames BY <1>2, <1>3
<1>5. ASSUME h.fed # {} PROVE LastSeq(h) \in h.fed
  <2>1. PICK g \in h.fed : TRUE BY <1>5
  <2>2. g \in Nat /\ g # 0 /\ g <= LastSeq(h) BY <1>1, <1>3, FrameNumbers
  <2> QED BY <1>3, <1>4, <2>2
<1> QED BY <1>3, <1>4, <1>5

(* begin_drain                                                             *)
LEMMA DrainingIs ==
  ASSUME NEW h \in Handlers
  PROVE  /\ Orderly(Draining(h)) /\ Keeps(h, Draining(h))
         /\ Draining(h).at = "drain" /\ Draining(h).todo = {} /\ Draining(h).cur = 0
         /\ Draining(h).replaying = FALSE
         /\ Draining(h).reason = (IF h.reason = "none" THEN "error" ELSE h.reason)
         /\ Draining(h).finished = h.finished /\ Draining(h).draining = h.draining
BY FrameNumbers DEF Draining, Handlers, Phases, Orderly, Pairing, Loop, Keeps

(* An exception.                                                           *)
LEMMA ThrownIs ==
  ASSUME NEW h \in Handlers
  PROVE  /\ Orderly(Thrown(h)) /\ Keeps(h, Thrown(h))
         /\ Thrown(h).at \in {"raised", "close", "drain"}
         /\ Thrown(h).at = "drain" => Thrown(h).reason # "none"
         /\ Thrown(h).cur \in {h.cur, 0} /\ Thrown(h).todo \subseteq h.todo
         /\ \/ Thrown(h).reason = h.reason
            \/ h.reason = "none" /\ Thrown(h).reason = "error"
<1>1. CASE h.replaying \/ h.draining
  BY <1>1 DEF Thrown, Handlers, Phases, Orderly, Pairing, Loop, Keeps
<1>2. CASE ~(h.replaying \/ h.draining)
  <2>1. Thrown(h) = Draining(h) BY <1>2 DEF Thrown
  <2> QED BY <2>1, DrainingIs
<1> QED BY <1>1, <1>2

(* on_finalize has come to its end.                                        *)
LEMMA FinishedIs ==
  ASSUME NEW h \in Handlers
  PROVE  /\ Orderly(Finished(h)) /\ Keeps(h, Finished(h))
         /\ Finished(h).at \in {"drain", "close"} /\ Finished(h).finished
         /\ Finished(h).reason = (IF h.reason = "none" THEN "normal" ELSE h.reason)
         /\ Finished(h).cur = h.cur /\ Finished(h).todo = h.todo
BY DEF Finished, Handlers, Phases, Orderly, Pairing, Loop, Keeps

(* A pair leaves its queues.                                               *)
LEMMA PairedIs ==
  ASSUME NEW h \in Handlers, h.closed > 0, h.waiting # <<>>
  PROVE  /\ Paired(h) \in Handlers
         /\ Paired(h).fed = h.fed /\ Paired(h).heard = h.heard
         /\ Paired(h).waiting = Tail(h.waiting) /\ Paired(h).closed = h.closed - 1
         /\ Paired(h).cur = h.cur /\ Paired(h).todo = h.todo /\ Paired(h).at = h.at
         /\ Paired(h).reason = h.reason /\ Paired(h).replaying = h.replaying
         /\ Paired(h).draining = h.draining /\ Paired(h).finished = h.finished
<1>1. h.waiting \in Seq(Sentences) /\ h.closed \in Nat BY DEF Handlers
<1>2. Tail(h.waiting) \in Seq(Sentences) /\ h.closed - 1 \in Nat
  BY <1>1, HeadTailProperties
<1> QED BY <1>2 DEF Paired, Handlers

(* A sentence of frames of S holds the first of them, or none.             *)
Words(S) == {{}} \cup Prefixes(S)

LEMMA WordsOf ==
  ASSUME NEW S \in SUBSET Seqs, NEW text \in Words(S)
  PROVE  /\ text \subseteq S /\ text \in SUBSET Seqs
         /\ \A f \in text, g \in S \ text : f < g
         /\ \A f \in text : S # {}
<1>1. CASE text = {} BY <1>1
<1>2. CASE text \in Prefixes(S)
  <2>1. PICK n \in S : text = {g \in S : g <= n} BY <1>2 DEF Prefixes
  <2>2. S \subseteq Nat BY FrameNumbers
  <2>3. ASSUME NEW f \in text, NEW g \in S \ text PROVE f < g BY <2>1, <2>2, <2>3
  <2> QED BY <2>1, <2>3
<1> QED BY <1>1, <1>2 DEF Words

(* on_finalize.                                                            *)
LastWord(h, text) == [text |-> text, seq |-> LastSeq(h)]

LEMMA FinalizingIs ==
  ASSUME NEW h \in Handlers, NEW g \in Finalizing(h) \cup Leftover(h)
  PROVE  /\ Orderly(g) /\ g.fed = h.fed
         /\ \/ g.waiting = h.waiting /\ g.heard = h.heard
            \/ \E text \in Words(h.heard) :
                 /\ text = {} => h.fed # {}
                 /\ g.heard = h.heard \ text
                 /\ g.waiting = Append(h.waiting, LastWord(h, text))
         /\ \/ g.at = "final_pair" /\ g.reason = h.reason
            \/ /\ g.at \in {"drain", "close"} /\ g.finished
               /\ g.reason = (IF h.reason = "none" THEN "normal" ELSE h.reason)
         /\ g.cur = h.cur /\ g.todo = h.todo
<1>0. h.heard \in SUBSET Seqs BY DEF Handlers
<1>1. ASSUME NEW q \in Quiet(h)
      PROVE  /\ q \in Handlers /\ q.fed = h.fed /\ q.heard = h.heard /\ q.waiting = h.waiting
             /\ q.at = "final_pair" /\ q.reason = h.reason /\ q.cur = h.cur /\ q.todo = h.todo
  <2>1. PICK k \in {0, 1} : q = [h EXCEPT !.closed = @ + k, !.at = "final_pair"]
    BY <1>1 DEF Quiet
  <2>2. h.closed + k \in Nat BY DEF Handlers
  <2> QED BY <2>1, <2>2 DEF Handlers, Phases
<1>2. ASSUME NEW q \in Quiet(h), NEW text \in Words(h.heard)
      PROVE  LET x == Confirmed(q, text) IN
             /\ x \in Handlers /\ x.fed = h.fed /\ x.heard = h.heard \ text
             /\ x.waiting = Append(h.waiting, LastWord(h, text))
             /\ x.at = "final_pair" /\ x.reason = h.reason /\ x.cur = h.cur /\ x.todo = h.todo
  <2>1. LastSeq(q) = LastSeq(h) BY <1>1 DEF LastSeq
  <2>2. LastWord(h, text) \in Sentences
    BY <1>0, <1>2, LastSeqOf, WordsOf DEF LastWord, Sentences
  <2>3. h.waiting \in Seq(Sentences) BY DEF Handlers
  <2>4. Append(h.waiting, LastWord(h, text)) \in Seq(Sentences) BY <2>2, <2>3, AppendProperties
  <2>5. Confirmed(q, text) = [q EXCEPT !.heard = h.heard \ text,
                                       !.waiting = Append(h.waiting, LastWord(h, text))]
    BY <1>1, <2>1 DEF Confirmed, LastWord, Handlers
  <2>6. q \in Handlers BY <1>1
  <2>7. h.heard \ text \in SUBSET Seqs BY <1>0
  <2> QED BY <1>1, <2>4, <2>5, <2>6, <2>7 DEF Handlers
<1> DEFINE
  Ends(x) ==
    /\ x \in Handlers /\ x.fed = h.fed /\ x.at = "final_pair" /\ x.reason = h.reason
    /\ x.cur = h.cur /\ x.todo = h.todo
    /\ \/ x.waiting = h.waiting /\ x.heard = h.heard
       \/ \E text \in Words(h.heard) :
            /\ text = {} => h.fed # {}
            /\ x.heard = h.heard \ text
            /\ x.waiting = Append(h.waiting, LastWord(h, text))
<1>3. \E x : g = Over(x) /\ Ends(x)
  <2>1. CASE \E q \in Quiet(h) : g = Over(q) BY <1>1, <2>1
  <2>2. CASE \E q \in Quiet(h), text \in Prefixes(h.heard) : g = Over(Confirmed(q, text))
    <3>1. PICK q \in Quiet(h), text \in Prefixes(h.heard) : g = Over(Confirmed(q, text))
      BY <2>2
    <3>2. text \in Words(h.heard) BY DEF Words
    <3>3. text # {}
      <4>1. PICK n \in h.heard : text = {f \in h.heard : f <= n} BY DEF Prefixes
      <4>2. n \in Nat BY <1>0, <4>1, FrameNumbers
      <4>3. n <= n BY <4>2
      <4> QED BY <4>1, <4>3
    <3> QED BY <1>2, <3>1, <3>2, <3>3
  <2>3. CASE h.fed # {} /\ \E q \in Quiet(h) : g = Over(Confirmed(q, {}))
    <3>1. {} \in Words(h.heard) BY DEF Words
    <3> QED BY <1>2, <2>3, <3>1
  <2> QED BY <2>1, <2>2, <2>3 DEF Finalizing, Leftover
<1>4. PICK x : g = Over(x) /\ Ends(x) BY <1>3
<1>5. CASE x.closed > 0 /\ x.waiting # <<>>
  BY <1>4, <1>5 DEF Over, Orderly, Pairing, Loop
<1>6. CASE ~(x.closed > 0 /\ x.waiting # <<>>)
  <2>1. g = Finished(x) BY <1>4, <1>6 DEF Over
  <2>2. x \in Handlers BY <1>4
  <2> QED BY <1>4, <2>1, <2>2, FinishedIs DEF Keeps
<1> QED BY <1>5, <1>6

(* Voice detection.                                                        *)
LEMMA DetectedIs ==
  ASSUME NEW h \in Handlers, h.cur \in Seqs, NEW g \in Detected(h)
  PROVE  /\ Orderly(g) /\ g.cur = h.cur /\ g.todo = h.todo
         /\ g.heard = h.heard /\ g.waiting = h.waiting /\ g.reason = h.reason
         /\ \/ h.cur \in h.fed /\ g.fed = h.fed /\ g.at = "ack"
            \/ h.cur \notin h.fed /\ g.fed = h.fed \cup {h.cur} /\ g.at \in {"vad_pair", "asr"}
<1>1. CASE h.cur \in h.fed
  BY <1>1 DEF Detected, Orderly, Handlers, Phases, Pairing, Loop
<1>2. CASE h.cur \notin h.fed
  <2>1. PICK k \in {0, 1} :
          g = [h EXCEPT !.fed = @ \cup {h.cur}, !.closed = @ + k,
                  !.at = IF k = 1 /\ h.waiting # <<>> THEN "vad_pair" ELSE "asr"]
    BY <1>2 DEF Detected
  <2>2. h.closed \in Nat /\ h.closed + k \in Nat /\ h.fed \cup {h.cur} \in SUBSET Seqs
    BY DEF Handlers
  <2>3. CASE k = 1 /\ h.waiting # <<>>
    <3>1. g = [h EXCEPT !.fed = h.fed \cup {h.cur}, !.closed = h.closed + 1, !.at = "vad_pair"]
      BY <2>1, <2>3
    <3>2. h.closed + 1 \in Nat /\ h.closed + 1 > 0 BY <2>2
    <3>3. g \in Handlers BY <2>2, <3>1, <3>2 DEF Handlers, Phases
    <3>4. g.closed = h.closed + 1 /\ g.waiting = h.waiting /\ g.at = "vad_pair"
          /\ g.fed = h.fed \cup {h.cur} /\ g.cur = h.cur /\ g.todo = h.todo
          /\ g.heard = h.heard /\ g.reason = h.reason
      BY <3>1 DEF Handlers
    <3> QED BY <1>2, <2>3, <3>2, <3>3, <3>4 DEF Orderly, Pairing, Loop
  <2>4. CASE ~(k = 1 /\ h.waiting # <<>>)
    BY <1>2, <2>1, <2>2, <2>4 DEF Orderly, Handlers, Phases, Pairing, Loop
  <2> QED BY <2>3, <2>4
<1> QED BY <1>1, <1>2

-----------------------------------------------------------------------------
(* Types and permits.                                                      *)

Owners == {c \in Conns : hd[c].at \in Owning}
Weight(h) == IF h.at \in Owning THEN 1 ELSE 0

Pools == [size : PoolSizes, free : Nat, lost : Nat]

(* All the types but those of the sessions and of the pool.                *)
OthersOK ==
  /\ panel \in [state : {"live", "committed", "failed"}, link : Links, line : 0..Lines,
                token : 0..Lines, captured : 0..Frames, acked : 0..Frames, ending : BOOLEAN]
  /\ line \in [Conns -> [state : {"none", "up", "dead"}, token : 0..Lines,
                         next : 1..Frames + 1, sent : 0..Frames, stop : BOOLEAN]]
  /\ row \in [Conns -> [status : RowStates, ack : 0..Frames]]
  /\ latest \in 0..Lines
  /\ frame \in [Seqs -> {"none", "ACCEPTED", "CONSUMED"}]
  /\ segments \subseteq Stored
  /\ run \in RunStates
  /\ missed \subseteq Seqs
  /\ troubles \in 0..MaxTroubles[pool.size]

Sessions == hd \in [Conns -> Handlers] /\ \A c \in Conns : Orderly(hd[c])

(* Every permit is free, lost, or held by a handler.                       *)
Permits ==
  /\ pool \in Pools
  /\ pool.free + pool.lost + Cardinality(Owners) = pool.size

Scheduled == panel.state = "live" /\ panel.link = "scheduled" => panel.line < Lines

(* A connection that has not been opened has no handler.                   *)
Unopened == \A c \in Conns : c > panel.line => hd[c] = Fresh("off")

Typed == OthersOK /\ Sessions /\ Permits /\ Scheduled /\ Unopened

(* What a step of a handler does to its session and to the pool.           *)
Moves(c) ==
  /\ pool' \in Pools /\ pool'.size = pool.size
  /\ \E h \in Handlers :
       /\ Orderly(h) /\ hd' = [hd EXCEPT ![c] = h]
       /\ pool'.free + pool'.lost + Weight(h) = pool.free + pool.lost + Weight(hd[c])

(* The handlers that hold a permit, when one of them has moved on.         *)
LEMMA OwnersChange ==
  ASSUME hd \in [Conns -> Handlers], NEW c \in Conns, NEW h \in Handlers,
         hd' = [hd EXCEPT ![c] = h]
  PROVE  /\ IsFiniteSet(Owners) /\ Cardinality(Owners) \in Nat /\ Cardinality(Owners') \in Nat
         /\ Cardinality(Owners') + Weight(hd[c]) = Cardinality(Owners) + Weight(h)
<1>1. IsFiniteSet(Conns) BY FS_Interval, StreamConstants DEF Conns
<1>2. IsFiniteSet(Owners) /\ IsFiniteSet(Owners') BY <1>1, FS_Subset DEF Owners
<1>3. Cardinality(Owners) \in Nat /\ Cardinality(Owners') \in Nat
  BY <1>2, FS_CardinalityType
<1>4. CASE hd[c].at \in Owning /\ h.at \in Owning
  <2>1. Owners' = Owners BY <1>4 DEF Owners
  <2> QED BY <1>2, <1>3, <1>4, <2>1 DEF Weight
<1>5. CASE hd[c].at \notin Owning /\ h.at \notin Owning
  <2>1. Owners' = Owners BY <1>5 DEF Owners
  <2> QED BY <1>2, <1>3, <1>5, <2>1 DEF Weight
<1>6. CASE hd[c].at \notin Owning /\ h.at \in Owning
  <2>1. Owners' = Owners \cup {c} /\ c \notin Owners BY <1>6 DEF Owners
  <2>2. Cardinality(Owners') = Cardinality(Owners) + 1 BY <1>2, <2>1, FS_AddElement
  <2> QED BY <1>2, <1>3, <1>6, <2>2 DEF Weight
<1>7. CASE hd[c].at \in Owning /\ h.at \notin Owning
  <2>1. Owners' = Owners \ {c} /\ c \in Owners BY <1>7 DEF Owners
  <2>2. Cardinality(Owners') = Cardinality(Owners) - 1 BY <1>2, <2>1, FS_RemoveElement
  <2> QED BY <1>2, <1>3, <1>7, <2>2 DEF Weight
<1> QED BY <1>4, <1>5, <1>6, <1>7

(* Permits are neither made nor forgotten.                                 *)
LEMMA PermitsKept ==
  ASSUME Typed, NEW c \in Conns, Moves(c)
  PROVE  Sessions' /\ Permits'
<1>1. PICK h \in Handlers :
        /\ Orderly(h) /\ hd' = [hd EXCEPT ![c] = h]
        /\ pool'.free + pool'.lost + Weight(h) = pool.free + pool.lost + Weight(hd[c])
  BY DEF Moves
<1>2. Sessions' BY <1>1 DEF Typed, Sessions
<1>3. /\ Cardinality(Owners) \in Nat /\ Cardinality(Owners') \in Nat
      /\ Cardinality(Owners') + Weight(hd[c]) = Cardinality(Owners) + Weight(h)
  BY <1>1, OwnersChange DEF Typed, Sessions
<1>4. /\ pool' \in Pools /\ pool'.size = pool.size
      /\ pool.free + pool.lost + Cardinality(Owners) = pool.size
      /\ pool.free \in Nat /\ pool.lost \in Nat /\ pool.size \in Nat
      /\ pool'.free \in Nat /\ pool'.lost \in Nat
  BY StreamConstants DEF Moves, Typed, Permits, Pools
<1>5. Weight(h) \in {0, 1} /\ Weight(hd[c]) \in {0, 1} BY DEF Weight
<1>6. pool'.free + pool'.lost + Cardinality(Owners') = pool'.size
  BY <1>1, <1>3, <1>4, <1>5
<1> QED BY <1>2, <1>4, <1>6 DEF Permits

(* The next frame is one, and the first of those left to be replayed.      *)
LEMMA InHandIs ==
  ASSUME OthersOK, Sessions, NEW c \in Conns, HasFrame(c)
  PROVE  /\ InHand(c) \in Seqs
         /\ IF hd[c].todo # {}
              THEN InHand(c) \in hd[c].todo /\ \A g \in hd[c].todo : InHand(c) <= g
              ELSE InHand(c) = line[c].next /\ line[c].next <= line[c].sent
<1>1. CASE hd[c].todo # {}
  <2>1. hd[c].todo \in SUBSET Seqs BY DEF Sessions, Handlers
  <2>2. hd[c].todo \in SUBSET (0..Frames) BY <2>1, FrameNumbers
  <2>3. \E x \in hd[c].todo : \A g \in hd[c].todo : x <= g
    BY <1>1, <2>2, FrameNumbers, Extremes
  <2>4. InHand(c) \in hd[c].todo /\ \A g \in hd[c].todo : InHand(c) <= g
    BY <1>1, <2>3 DEF InHand
  <2> QED BY <1>1, <2>1, <2>4
<1>2. CASE hd[c].todo = {}
  <2>1. line[c].next \in 1..Frames + 1 /\ line[c].sent \in 0..Frames BY DEF OthersOK
  <2>2. InHand(c) = line[c].next /\ line[c].next <= line[c].sent
    BY <1>2 DEF InHand, HasFrame
  <2> QED BY <1>2, <2>1, <2>2, FrameNumbers DEF Seqs
<1> QED BY <1>1, <1>2

(* A session that has ended, or begins.                                    *)
LEMMA FreshIs ==
  ASSUME NEW phase \in {"off", "reserve"}
  PROVE  Fresh(phase) \in Handlers /\ Orderly(Fresh(phase)) /\ Weight(Fresh(phase)) = 0
<1>1. <<>> \in Seq(Sentences) /\ 0 \in Nat OBVIOUS
<1> QED BY <1>1, FrameNumbers DEF Fresh, Handlers, Phases, Orderly, Pairing, Loop, Weight, Owning

(* A session that goes on keeps its permit, and takes none.                *)
LEMMA Onward ==
  ASSUME Typed, NEW c \in Conns, NEW h \in Handlers, Orderly(h), Becomes(c, h), UNCHANGED pool,
         h.at \in Owning <=> hd[c].at \in Owning
  PROVE  Moves(c)
<1>1. pool.free \in Nat /\ pool.lost \in Nat /\ pool \in Pools BY DEF Typed, Permits, Pools
<1>2. Weight(h) = Weight(hd[c]) /\ Weight(h) \in {0, 1} BY DEF Weight
<1> QED BY <1>1, <1>2 DEF Moves, Becomes

(* A session that ends by giving its permit back.                          *)
LEMMA EndedMoves ==
  ASSUME Typed, NEW c \in Conns, hd[c].at \in Owning, Ended(c)
  PROVE  Moves(c) /\ line' = [line EXCEPT ![c] = [NoLine EXCEPT !.state = "dead"]]
<1>1. pool.free \in Nat /\ pool.lost \in Nat /\ pool \in Pools BY DEF Typed, Permits, Pools
<1>2. pool' = [pool EXCEPT !.free = @ + 1] /\ hd' = [hd EXCEPT ![c] = Fresh("off")]
  BY DEF Ended, Released, Gone, Becomes
<1>3. /\ pool' \in Pools /\ pool'.size = pool.size
      /\ pool'.free = pool.free + 1 /\ pool'.lost = pool.lost
  BY <1>1, <1>2 DEF Pools
<1>4. Weight(hd[c]) = 1 BY DEF Weight
<1>5. Fresh("off") \in Handlers /\ Orderly(Fresh("off")) /\ Weight(Fresh("off")) = 0 BY FreshIs
<1>6. pool'.free + pool'.lost + Weight(Fresh("off")) = pool.free + pool.lost + Weight(hd[c])
  BY <1>1, <1>3, <1>4, <1>5
<1> QED BY <1>2, <1>3, <1>5, <1>6 DEF Moves, Ended, Hangup

(* A connection that has gone, and a row that has another status.          *)
LEMMA HungUp ==
  ASSUME OthersOK, NEW c \in Conns, line' = [line EXCEPT ![c] = [NoLine EXCEPT !.state = "dead"]]
  PROVE  line' \in [Conns -> [state : {"none", "up", "dead"}, token : 0..Lines,
                              next : 1..Frames + 1, sent : 0..Frames, stop : BOOLEAN]]
<1>1. 0 \in 0..Lines /\ 1 \in 1..Frames + 1 /\ 0 \in 0..Frames BY StreamConstants
<1>2. [NoLine EXCEPT !.state = "dead"] \in [state : {"none", "up", "dead"}, token : 0..Lines,
                              next : 1..Frames + 1, sent : 0..Frames, stop : BOOLEAN]
  BY <1>1 DEF NoLine
<1> QED BY <1>2 DEF OthersOK

(* A row keeps its type when its status changes.                           *)
LEMMA Restated ==
  ASSUME OthersOK, NEW c \in Conns, NEW s \in RowStates, row' = [row EXCEPT ![c].status = s]
  PROVE  row' \in [Conns -> [status : RowStates, ack : 0..Frames]]
BY DEF OthersOK

(* Troubles are counted up to their bound.                                 *)
LEMMA Troubled ==
  ASSUME Typed, UNCHANGED pool, Trouble \/ UNCHANGED troubles
  PROVE  troubles' \in 0..MaxTroubles[pool'.size]
<1>1. pool.size \in PoolSizes BY DEF Typed, Permits, Pools
<1>2. MaxTroubles[pool.size] \in Nat BY <1>1, StreamConstants
<1>3. troubles \in 0..MaxTroubles[pool.size] BY DEF Typed, OthersOK
<1>4. troubles' \in 0..MaxTroubles[pool.size] BY <1>2, <1>3 DEF Trouble
<1> QED BY <1>4

(* The reservation of a row, the permit, and what may go wrong until then. *)
LEMMA OpeningTypes ==
  ASSUME Typed, NEW c \in Conns,
         Reserve(c) \/ TurnAway(c) \/ Activate(c) \/ ActivateFails(c)
  PROVE  OthersOK' /\ Moves(c)
<1> USE DEF Typed
<1>0. /\ hd[c] \in Handlers /\ Orderly(hd[c]) /\ row[c] \in [status : RowStates, ack : 0..Frames]
      /\ pool.free \in Nat /\ pool.lost \in Nat /\ pool.size \in PoolSizes /\ pool \in Pools
      /\ Lines \in Nat /\ c \in 0..Lines
  <2>1. hd[c] \in Handlers /\ Orderly(hd[c]) BY DEF Sessions
  <2>2. row[c] \in [status : RowStates, ack : 0..Frames] BY DEF OthersOK
  <2>3. /\ pool.free \in Nat /\ pool.lost \in Nat /\ pool.size \in PoolSizes /\ pool \in Pools
    BY DEF Permits, Pools
  <2>4. Lines \in Nat /\ c \in 0..Lines BY StreamConstants DEF Conns
  <2> QED BY <2>1, <2>2, <2>3, <2>4
<1>1. CASE Reserve(c)
  <2>1. [hd[c] EXCEPT !.at = "acquire"] \in Handlers
    BY <1>0 DEF Handlers, Phases
  <2>2. Moves(c)
    BY <1>0, <1>1, <2>1, Onward DEF Reserve, Goto, At, Orderly, Pairing, Loop, Owning, Handlers
  <2>3. Staged \cup {0} \in SUBSET (0..Frames) /\ Staged \cup {0} # {}
    BY FrameNumbers DEF Staged
  <2>4. Largest(Staged \cup {0}) \in 0..Frames BY <2>3, LargestOf
  <2>5. row' \in [Conns -> [status : RowStates, ack : 0..Frames]]
    BY <1>1, <2>4 DEF Reserve, OthersOK, RowStates, Live
  <2>6. latest' \in 0..Lines /\ run' \in RunStates
    BY <1>0, <1>1 DEF Reserve, OthersOK, RunStates
  <2> QED BY <1>1, <2>2, <2>5, <2>6 DEF Reserve, OthersOK
<1>2. CASE TurnAway(c)
  <2>1. Moves(c) BY <1>0, <1>2, FreshIs, Onward DEF TurnAway, Gone, At, Owning, Fresh
  <2>2. line' = [line EXCEPT ![c] = [NoLine EXCEPT !.state = "dead"]]
    BY <1>2 DEF TurnAway, Hangup
  <2> QED BY <1>2, <2>1, <2>2, HungUp DEF TurnAway, OthersOK
<1>3. CASE Activate(c)
  <2> DEFINE h == [hd[c] EXCEPT !.at = "open"]
  <2>1. /\ h \in Handlers /\ Orderly(h) /\ Weight(h) = 1 /\ Weight(hd[c]) = 0
    BY <1>0, <1>3 DEF Activate, At, Handlers, Phases, Orderly, Pairing, Loop, Weight, Owning
  <2>2. pool' = [pool EXCEPT !.free = @ - 1] /\ pool.free > 0 /\ hd' = [hd EXCEPT ![c] = h]
    BY <1>3 DEF Activate, Goto, Becomes
  <2>3. /\ pool' \in Pools /\ pool'.size = pool.size
        /\ pool'.free = pool.free - 1 /\ pool'.lost = pool.lost
    BY <1>0, <2>2 DEF Pools
  <2>4. pool'.free + pool'.lost + Weight(h) = pool.free + pool.lost + Weight(hd[c])
    BY <1>0, <2>1, <2>3
  <2>5. Moves(c) BY <2>1, <2>2, <2>3, <2>4 DEF Moves
  <2>6. row' \in [Conns -> [status : RowStates, ack : 0..Frames]]
    BY <1>3, Restated DEF Activate, RowStates, Live
  <2> QED BY <1>3, <2>3, <2>5, <2>6 DEF Activate, OthersOK
<1>4. CASE ActivateFails(c)
  <2>1. /\ Fresh("off") \in Handlers /\ Orderly(Fresh("off")) /\ Weight(Fresh("off")) = 0
        /\ Weight(hd[c]) = 0 /\ hd' = [hd EXCEPT ![c] = Fresh("off")]
    BY <1>4, FreshIs DEF ActivateFails, At, Gone, Becomes, Weight, Owning
  <2>2. /\ pool' \in Pools /\ pool'.size = pool.size
        /\ pool'.free + pool'.lost = pool.free + pool.lost
    <3>0. \/ UNCHANGED pool
          \/ pool.free > 0 /\ pool' = [pool EXCEPT !.free = @ - 1, !.lost = @ + 1]
      BY <1>0, <1>4 DEF ActivateFails
    <3>1. CASE UNCHANGED pool BY <1>0, <3>1
    <3>2. CASE pool.free > 0 /\ pool' = [pool EXCEPT !.free = @ - 1, !.lost = @ + 1]
      <4>1. /\ pool' \in Pools /\ pool'.size = pool.size
            /\ pool'.free = pool.free - 1 /\ pool'.lost = pool.lost + 1
        <5>1. pool.free - 1 \in Nat /\ pool.lost + 1 \in Nat BY <1>0, <3>2
        <5> QED BY <1>0, <3>2, <5>1 DEF Pools
      <4> QED BY <1>0, <4>1
    <3> QED BY <3>0, <3>1, <3>2
  <2>3. Moves(c) BY <1>0, <2>1, <2>2 DEF Moves
  <2>4. row' \in [Conns -> [status : RowStates, ack : 0..Frames]]
    <3>1. row' = row \/ row' = [row EXCEPT ![c].status = "FAILED"] BY <1>4 DEF ActivateFails
    <3>2. "FAILED" \in RowStates BY DEF RowStates
    <3> QED BY <3>1, <3>2, Restated DEF OthersOK
  <2>5. line' = [line EXCEPT ![c] = [NoLine EXCEPT !.state = "dead"]]
    BY <1>4 DEF ActivateFails, Hangup
  <2>6. run' \in RunStates
    <3>1. run' \in {run, Retryable} BY <1>4 DEF ActivateFails
    <3> QED BY <3>1 DEF Retryable, RunStates, OthersOK
  <2>7. troubles' \in 0..MaxTroubles[pool'.size]
    <3>1. MaxTroubles[pool.size] \in Nat BY <1>0, StreamConstants
    <3>2. Calm \/ Trouble BY <1>4 DEF ActivateFails
    <3> QED BY <2>2, <3>1, <3>2 DEF Calm, Trouble, OthersOK
  <2> QED BY <1>4, <2>3, <2>4, <2>5, <2>6, <2>7, HungUp DEF ActivateFails, OthersOK
<1> QED BY <1>1, <1>2, <1>3, <1>4

(* The types of what a handler works with.                                 *)
LEMMA TypesAt ==
  ASSUME Typed, NEW c \in Conns
  PROVE  /\ hd[c] \in Handlers /\ Orderly(hd[c])
         /\ row[c] \in [status : RowStates, ack : 0..Frames]
         /\ line[c] \in [state : {"none", "up", "dead"}, token : 0..Lines,
                         next : 1..Frames + 1, sent : 0..Frames, stop : BOOLEAN]
         /\ pool.free \in Nat /\ pool.lost \in Nat /\ pool.size \in PoolSizes /\ pool \in Pools
         /\ Lines \in Nat /\ c \in 0..Lines /\ Frames \in Nat
<1> USE DEF Typed
<1>1. hd[c] \in Handlers /\ Orderly(hd[c]) BY DEF Sessions
<1>2. row[c] \in [status : RowStates, ack : 0..Frames] BY DEF OthersOK
<1>3. line[c] \in [state : {"none", "up", "dead"}, token : 0..Lines,
                   next : 1..Frames + 1, sent : 0..Frames, stop : BOOLEAN]
  BY DEF OthersOK
<1>4. pool.free \in Nat /\ pool.lost \in Nat /\ pool.size \in PoolSizes /\ pool \in Pools
  BY DEF Permits, Pools
<1>5. Lines \in Nat /\ c \in 0..Lines /\ Frames \in Nat BY StreamConstants DEF Conns
<1> QED BY <1>1, <1>2, <1>3, <1>4, <1>5

(* The recogniser answers, or not.                                         *)
Heard(c) == hd[c].heard \cup {hd[c].cur}

LEMMA HearIs ==
  ASSUME Typed, NEW c \in Conns, Hear(c)
  PROVE  /\ hd[c].at = "asr" /\ hd[c].cur \in Seqs /\ Heard(c) \in SUBSET Seqs
         /\ \E next \in Handlers :
              /\ Becomes(c, next) /\ Orderly(next) /\ next.at \in {"ack", "asr_pair"}
              /\ next.fed = hd[c].fed /\ next.cur = hd[c].cur /\ next.todo = hd[c].todo
              /\ next.reason = hd[c].reason
              /\ \/ next.waiting = hd[c].waiting /\ next.heard = Heard(c) /\ next.at = "ack"
                 \/ \E text \in Words(Heard(c)) :
                      /\ next.heard = Heard(c) \ text
                      /\ next.waiting = Append(hd[c].waiting, [text |-> text, seq |-> hd[c].cur])
<1>0. hd[c] \in Handlers /\ Orderly(hd[c]) BY TypesAt
<1>1. hd[c].at = "asr" /\ hd[c].cur \in Seqs BY <1>0 DEF Hear, At, Orderly, Loop
<1>2. Heard(c) \in SUBSET Seqs /\ hd[c].cur \in 0..Frames BY <1>0, <1>1 DEF Heard, Handlers
<1>3. CASE Becomes(c, [hd[c] EXCEPT !.heard = Heard(c), !.at = "ack"])
  <2> DEFINE next == [hd[c] EXCEPT !.heard = Heard(c), !.at = "ack"]
  <2>1. /\ next \in Handlers /\ Orderly(next) /\ next.at = "ack" /\ next.heard = Heard(c)
        /\ next.fed = hd[c].fed /\ next.cur = hd[c].cur /\ next.todo = hd[c].todo
        /\ next.reason = hd[c].reason /\ next.waiting = hd[c].waiting
    BY <1>0, <1>1, <1>2 DEF Handlers, Phases, Orderly, Pairing, Loop
  <2>2. Becomes(c, next) BY <1>3
  <2> HIDE DEF next
  <2> QED BY <1>1, <1>2, <2>1, <2>2
<1>4. ASSUME NEW text \in Words(Heard(c)),
             Becomes(c, [hd[c] EXCEPT !.heard = Heard(c) \ text,
                                      !.waiting = Append(@, [text |-> text, seq |-> hd[c].cur]),
                                      !.at = IF hd[c].closed > 0 THEN "asr_pair" ELSE "ack"])
      PROVE  \E next \in Handlers :
              /\ Becomes(c, next) /\ Orderly(next) /\ next.at \in {"ack", "asr_pair"}
              /\ next.fed = hd[c].fed /\ next.cur = hd[c].cur /\ next.todo = hd[c].todo
              /\ next.reason = hd[c].reason
              /\ next.heard = Heard(c) \ text
              /\ next.waiting = Append(hd[c].waiting, [text |-> text, seq |-> hd[c].cur])
  <2> DEFINE said == [text |-> text, seq |-> hd[c].cur]
  <2>1. said \in Sentences BY <1>2, <1>4, WordsOf DEF Sentences
  <2>2. /\ Append(hd[c].waiting, said) \in Seq(Sentences)
        /\ Append(hd[c].waiting, said) # <<>>
    <3>1. hd[c].waiting \in Seq(Sentences) BY <1>0 DEF Handlers
    <3> QED BY <2>1, <3>1, AppendProperties
  <2> HIDE DEF said
  <2> DEFINE next == [hd[c] EXCEPT !.heard = Heard(c) \ text,
                                   !.waiting = Append(hd[c].waiting, said),
                                   !.at = IF hd[c].closed > 0 THEN "asr_pair" ELSE "ack"]
  <2>3. Heard(c) \ text \in SUBSET Seqs BY <1>2
  <2>4. /\ next \in Handlers
        /\ next.waiting = Append(hd[c].waiting, said) /\ next.closed = hd[c].closed
        /\ next.cur = hd[c].cur /\ next.fed = hd[c].fed /\ next.todo = hd[c].todo
        /\ next.reason = hd[c].reason /\ next.heard = Heard(c) \ text
        /\ next.at = IF hd[c].closed > 0 THEN "asr_pair" ELSE "ack"
    BY <1>0, <2>2, <2>3 DEF Handlers, Phases
  <2>5. Becomes(c, next) BY <1>0, <1>4 DEF said, Handlers
  <2> HIDE DEF next
  <2>6. Orderly(next) BY <1>1, <2>2, <2>4 DEF Orderly, Pairing, Loop
  <2>7. next.at \in {"ack", "asr_pair"} BY <2>4
  <2> QED BY <2>4, <2>5, <2>6, <2>7 DEF said
<1>5. \/ Becomes(c, [hd[c] EXCEPT !.heard = Heard(c), !.at = "ack"])
      \/ \E text \in Words(Heard(c)) :
           Becomes(c, [hd[c] EXCEPT !.heard = Heard(c) \ text,
                                    !.waiting = Append(@, [text |-> text, seq |-> hd[c].cur]),
                                    !.at = IF hd[c].closed > 0 THEN "asr_pair" ELSE "ack"])
  BY DEF Hear, Heard, Words
<1>6. ASSUME NEW text \in Words(Heard(c)),
             Becomes(c, [hd[c] EXCEPT !.heard = Heard(c) \ text,
                                      !.waiting = Append(@, [text |-> text, seq |-> hd[c].cur]),
                                      !.at = IF hd[c].closed > 0 THEN "asr_pair" ELSE "ack"])
      PROVE  \E next \in Handlers :
              /\ Becomes(c, next) /\ Orderly(next) /\ next.at \in {"ack", "asr_pair"}
              /\ next.fed = hd[c].fed /\ next.cur = hd[c].cur /\ next.todo = hd[c].todo
              /\ next.reason = hd[c].reason
              /\ \E said \in Words(Heard(c)) :
                   /\ next.heard = Heard(c) \ said
                   /\ next.waiting = Append(hd[c].waiting, [text |-> said, seq |-> hd[c].cur])
  <2>1. PICK next \in Handlers :
              /\ Becomes(c, next) /\ Orderly(next) /\ next.at \in {"ack", "asr_pair"}
              /\ next.fed = hd[c].fed /\ next.cur = hd[c].cur /\ next.todo = hd[c].todo
              /\ next.reason = hd[c].reason
              /\ next.heard = Heard(c) \ text
              /\ next.waiting = Append(hd[c].waiting, [text |-> text, seq |-> hd[c].cur])
    BY <1>4, <1>6
  <2> QED BY <1>6, <2>1
<1>7. CASE \E text \in Words(Heard(c)) :
           Becomes(c, [hd[c] EXCEPT !.heard = Heard(c) \ text,
                                    !.waiting = Append(@, [text |-> text, seq |-> hd[c].cur]),
                                    !.at = IF hd[c].closed > 0 THEN "asr_pair" ELSE "ack"])
  <2>1. PICK text \in Words(Heard(c)) :
           Becomes(c, [hd[c] EXCEPT !.heard = Heard(c) \ text,
                                    !.waiting = Append(@, [text |-> text, seq |-> hd[c].cur]),
                                    !.at = IF hd[c].closed > 0 THEN "asr_pair" ELSE "ack"])
    BY <1>7
  <2>2. PICK next \in Handlers :
              /\ Becomes(c, next) /\ Orderly(next) /\ next.at \in {"ack", "asr_pair"}
              /\ next.fed = hd[c].fed /\ next.cur = hd[c].cur /\ next.todo = hd[c].todo
              /\ next.reason = hd[c].reason
              /\ \E said \in Words(Heard(c)) :
                   /\ next.heard = Heard(c) \ said
                   /\ next.waiting = Append(hd[c].waiting, [text |-> said, seq |-> hd[c].cur])
    BY <1>6, <2>1
  <2> QED BY <1>1, <1>2, <2>2
<1> QED BY <1>3, <1>5, <1>7

LEMMA HearFailsIs ==
  ASSUME Typed, NEW c \in Conns, HearFails(c)
  PROVE  /\ hd[c].at = "asr" /\ hd[c].cur \in Seqs /\ missed \subseteq missed'
         /\ missed' \subseteq missed \cup Heard(c) /\ Heard(c) \in SUBSET Seqs /\ missed' \subseteq Seqs
         /\ \E next \in Handlers :
              /\ Becomes(c, next) /\ Orderly(next) /\ next.at = "ack"
              /\ next.fed = hd[c].fed /\ next.cur = hd[c].cur /\ next.todo = hd[c].todo
              /\ next.reason = hd[c].reason /\ next.waiting = hd[c].waiting
              /\ next.heard \subseteq Heard(c)
              /\ Heard(c) \subseteq next.heard \cup missed'
<1>0. hd[c] \in Handlers /\ Orderly(hd[c]) /\ missed \subseteq Seqs BY TypesAt DEF Typed, OthersOK
<1>1. hd[c].at = "asr" /\ hd[c].cur \in Seqs BY <1>0 DEF HearFails, At, Orderly, Loop
<1>2. Heard(c) \in SUBSET Seqs BY <1>0, <1>1 DEF Heard, Handlers
<1>3. \E S \in SUBSET Heard(c) :
        /\ Becomes(c, [hd[c] EXCEPT !.heard = S, !.at = "ack"])
        /\ missed \subseteq missed' /\ missed' \subseteq missed \cup Heard(c)
        /\ Heard(c) \subseteq S \cup missed'
  <2>1. CASE missed' = missed \cup {hd[c].cur} /\ Goto(c, "ack")
    <3>1. [hd[c] EXCEPT !.at = "ack"] = [hd[c] EXCEPT !.heard = hd[c].heard, !.at = "ack"]
      BY <1>0 DEF Handlers
    <3> QED BY <2>1, <3>1 DEF Goto, Heard
  <2>2. CASE \E lost \in Words(Heard(c)) :
               /\ missed' = missed \cup lost
               /\ Becomes(c, [hd[c] EXCEPT !.heard = Heard(c) \ lost, !.at = "ack"])
    <3>1. PICK lost \in Words(Heard(c)) :
               /\ missed' = missed \cup lost
               /\ Becomes(c, [hd[c] EXCEPT !.heard = Heard(c) \ lost, !.at = "ack"])
      BY <2>2
    <3>2. lost \subseteq Heard(c) BY <1>2, <3>1, WordsOf
    <3> QED BY <3>1, <3>2
  <2> QED BY <2>1, <2>2 DEF HearFails, Heard, Words
<1>4. PICK S \in SUBSET Heard(c) :
        /\ Becomes(c, [hd[c] EXCEPT !.heard = S, !.at = "ack"])
        /\ missed \subseteq missed' /\ missed' \subseteq missed \cup Heard(c)
        /\ Heard(c) \subseteq S \cup missed'
  BY <1>3
<1> DEFINE next == [hd[c] EXCEPT !.heard = S, !.at = "ack"]
<1>5. /\ next \in Handlers /\ Orderly(next) /\ next.at = "ack" /\ next.heard = S
      /\ next.fed = hd[c].fed /\ next.cur = hd[c].cur /\ next.todo = hd[c].todo
      /\ next.reason = hd[c].reason /\ next.waiting = hd[c].waiting
  BY <1>0, <1>1, <1>2 DEF Handlers, Phases, Orderly, Pairing, Loop
<1>6. Becomes(c, next) BY <1>4
<1> HIDE DEF next
<1> QED BY <1>0, <1>1, <1>2, <1>4, <1>5, <1>6

(* The replay and the receive loop.                                        *)
LEMMA LoopTypes ==
  ASSUME Typed, NEW c \in Conns,
         \/ Open(c) \/ Replay(c) \/ ReplayFails(c) \/ Strand(c)
         \/ Stage(c) \/ StageFails(c) \/ Hear(c) \/ HearFails(c) \/ Ack(c)
  PROVE  OthersOK' /\ Moves(c)
<1> USE DEF Typed
<1>0. /\ hd[c] \in Handlers /\ Orderly(hd[c])
      /\ row[c] \in [status : RowStates, ack : 0..Frames]
      /\ line[c] \in [state : {"none", "up", "dead"}, token : 0..Lines,
                      next : 1..Frames + 1, sent : 0..Frames, stop : BOOLEAN]
      /\ pool.free \in Nat /\ pool.lost \in Nat /\ pool.size \in PoolSizes /\ pool \in Pools
      /\ Lines \in Nat /\ c \in 0..Lines /\ Frames \in Nat
  BY TypesAt
<1>1. CASE Open(c)
  <2> DEFINE h == [hd[c] EXCEPT !.at = "replay", !.replaying = TRUE]
  <2>1. h \in Handlers /\ Orderly(h) /\ h.at \in Owning
    BY <1>0 DEF Handlers, Phases, Orderly, Pairing, Loop, Owning
  <2>2. PICK next \in {h, Thrown(h)} : Becomes(c, next) BY <1>1 DEF Open, Sent
  <2>3. next \in Handlers /\ Orderly(next) /\ next.at \in Owning
    BY <2>1, ThrownIs DEF Orderly, Owning, Phases
  <2>4. hd[c].at \in Owning BY <1>1 DEF Open, At, Owning, Phases
  <2>5. Moves(c) BY <1>1, <2>2, <2>3, <2>4, Onward DEF Open
  <2>6. panel' \in [state : {"live", "committed", "failed"}, link : Links, line : 0..Lines,
                token : 0..Lines, captured : 0..Frames, acked : 0..Frames, ending : BOOLEAN]
    BY <1>0, <1>1 DEF Open, OthersOK, Links
  <2>7. line' \in [Conns -> [state : {"none", "up", "dead"}, token : 0..Lines,
                         next : 1..Frames + 1, sent : 0..Frames, stop : BOOLEAN]]
    BY <1>0, <1>1 DEF Open, OthersOK
  <2> QED BY <1>1, <2>5, <2>6, <2>7 DEF Open, OthersOK
<1>2. CASE Replay(c)
  <2>1. Pending \in SUBSET Seqs BY DEF Pending
  <2> DEFINE h == [hd[c] EXCEPT !.at = "loop", !.todo = Pending]
  <2>2. h \in Handlers /\ Orderly(h) /\ h.at \in Owning
    BY <1>0, <2>1 DEF Handlers, Phases, Orderly, Pairing, Loop, Owning
  <2>3. hd[c].at \in Owning BY <1>2 DEF Replay, At, Owning, Phases
  <2>4. Moves(c) BY <1>2, <2>2, <2>3, Onward DEF Replay
  <2> QED BY <1>2, <2>4 DEF Replay, OthersOK
<1>3. CASE ReplayFails(c)
  <2>1. Thrown(hd[c]) \in Handlers /\ Orderly(Thrown(hd[c])) /\ Thrown(hd[c]).at \in Owning
    BY <1>0, ThrownIs DEF Orderly, Owning, Phases
  <2>2. hd[c].at \in Owning BY <1>3 DEF ReplayFails, At, Owning, Phases
  <2>3. Moves(c) BY <1>3, <2>1, <2>2, Onward DEF ReplayFails
  <2>4. troubles' \in 0..MaxTroubles[pool'.size]
    BY <1>3, Troubled DEF ReplayFails, Denied, Calm
  <2> QED BY <1>3, <2>3, <2>4 DEF ReplayFails, OthersOK
<1>4. CASE Strand(c)
  <2>1. /\ Fresh("off") \in Handlers /\ Orderly(Fresh("off")) /\ Weight(Fresh("off")) = 0
        /\ Weight(hd[c]) = 1 /\ hd' = [hd EXCEPT ![c] = Fresh("off")]
    BY <1>4, FreshIs DEF Strand, At, Gone, Becomes, Weight, Owning, Phases
  <2>2. pool' = [pool EXCEPT !.lost = @ + 1] BY <1>4 DEF Strand
  <2>3. /\ pool' \in Pools /\ pool'.size = pool.size
        /\ pool'.free = pool.free /\ pool'.lost = pool.lost + 1
    BY <1>0, <2>2 DEF Pools
  <2>4. pool'.free + pool'.lost + Weight(Fresh("off")) = pool.free + pool.lost + Weight(hd[c])
    BY <1>0, <2>1, <2>3
  <2>5. Moves(c) BY <2>1, <2>3, <2>4 DEF Moves
  <2>6. line' = [line EXCEPT ![c] = [NoLine EXCEPT !.state = "dead"]]
    BY <1>4 DEF Strand, Hangup
  <2> QED BY <1>4, <2>3, <2>5, <2>6, HungUp DEF Strand, OthersOK
<1>5. ASSUME HasFrame(c)
      PROVE  /\ InHand(c) \in Seqs /\ hd[c].at = "loop" /\ hd[c].at \in Owning
             /\ Taken(c) \in [state : {"none", "up", "dead"}, token : 0..Lines,
                         next : 1..Frames + 1, sent : 0..Frames, stop : BOOLEAN]
             /\ [Taken(c) EXCEPT !.state = "dead"] \in
                      [state : {"none", "up", "dead"}, token : 0..Lines,
                         next : 1..Frames + 1, sent : 0..Frames, stop : BOOLEAN]
  <2>1. InHand(c) \in Seqs BY <1>5, InHandIs
  <2>2. hd[c].at = "loop" /\ hd[c].at \in Owning
    BY <1>5 DEF HasFrame, At, Owning, Phases
  <2>3. CASE hd[c].todo # {} BY <1>0, <2>1, <2>2, <2>3 DEF Taken
  <2>4. CASE hd[c].todo = {}
    <3>1. line[c].next <= line[c].sent BY <1>5, <2>4, InHandIs
    <3>2. line[c].next + 1 \in 1..Frames + 1 BY <1>0, <3>1
    <3>3. Taken(c) = [line[c] EXCEPT !.next = line[c].next + 1] BY <2>4 DEF Taken
    <3> QED BY <1>0, <2>1, <2>2, <3>2, <3>3
  <2> QED BY <2>3, <2>4
<1>6. CASE Stage(c)
  <2>0. HasFrame(c) BY <1>6 DEF Stage
  <2> DEFINE f == InHand(c)
             h == [hd[c] EXCEPT !.replaying = hd[c].todo # {}, !.cur = f, !.todo = @ \ {f}]
  <2>1. f \in Seqs /\ f \in 0..Frames BY <1>5, <2>0, FrameNumbers
  <2> HIDE DEF f
  <2>2. h \in Handlers /\ h.cur = f /\ h.at = "loop"
    BY <1>0, <1>5, <2>0, <2>1 DEF Handlers
  <2>3. PICK next : /\ \/ next = [h EXCEPT !.at = "ack"]
                       \/ next = [h EXCEPT !.cur = 0]
                       \/ next \in Detected(h)
                    /\ Becomes(c, next)
    BY <1>6 DEF Stage, f
  <2> HIDE DEF h
  <2>4. next \in Handlers /\ Orderly(next) /\ next.at \in Owning
    <3>1. CASE next = [h EXCEPT !.at = "ack"]
      BY <2>1, <2>2, <3>1 DEF Handlers, Phases, Orderly, Pairing, Loop, Owning
    <3>2. CASE next = [h EXCEPT !.cur = 0]
      BY <2>1, <2>2, <3>2, FrameNumbers DEF Handlers, Phases, Orderly, Pairing, Loop, Owning
    <3>3. CASE next \in Detected(h)
      <4>1. Orderly(next) /\ next.at \in {"ack", "vad_pair", "asr"}
        BY <2>1, <2>2, <3>3, DetectedIs
      <4> QED BY <4>1 DEF Orderly, Owning, Phases
    <3> QED BY <2>3, <3>1, <3>2, <3>3
  <2>5. Moves(c) BY <1>5, <1>6, <2>0, <2>3, <2>4, Onward DEF Stage
  <2>6. row' \in [Conns -> [status : RowStates, ack : 0..Frames]]
    BY <1>0, <1>6, <2>1 DEF Stage, Acked, OthersOK, f
  <2>7. frame' \in [Seqs -> {"none", "ACCEPTED", "CONSUMED"}]
    BY <1>6, <2>1 DEF Stage, OthersOK, f
  <2>8. panel' \in [state : {"live", "committed", "failed"}, link : Links, line : 0..Lines,
                token : 0..Lines, captured : 0..Frames, acked : 0..Frames, ending : BOOLEAN]
    BY <1>0, <1>6 DEF Stage, OthersOK
  <2>9. line' = [line EXCEPT ![c] = Taken(c)]
        \/ line' = [line EXCEPT ![c] = [Taken(c) EXCEPT !.state = "dead"]]
    BY <1>6 DEF Stage
  <2>10. line' \in [Conns -> [state : {"none", "up", "dead"}, token : 0..Lines,
                         next : 1..Frames + 1, sent : 0..Frames, stop : BOOLEAN]]
    BY <1>5, <2>0, <2>9 DEF OthersOK
  <2> QED BY <1>6, <2>5, <2>6, <2>7, <2>8, <2>10 DEF Stage, OthersOK
<1>7. CASE StageFails(c)
  <2>0. HasFrame(c) BY <1>7 DEF StageFails
  <2>1. /\ Draining(hd[c]) \in Handlers /\ Orderly(Draining(hd[c]))
        /\ Draining(hd[c]).at \in Owning
    BY <1>0, DrainingIs DEF Orderly, Owning, Phases
  <2>2. Moves(c) BY <1>5, <1>7, <2>0, <2>1, Onward DEF StageFails
  <2>3. line' \in [Conns -> [state : {"none", "up", "dead"}, token : 0..Lines,
                         next : 1..Frames + 1, sent : 0..Frames, stop : BOOLEAN]]
    BY <1>5, <1>7, <2>0 DEF StageFails, OthersOK
  <2>4. troubles' \in 0..MaxTroubles[pool'.size]
    BY <1>7, Troubled DEF StageFails, Denied, Calm
  <2> QED BY <1>7, <2>2, <2>3, <2>4 DEF StageFails, OthersOK
<1>8. CASE Hear(c)
  <2>1. hd[c].at \in Owning BY <1>8 DEF Hear, At, Owning, Phases
  <2>2. PICK next \in Handlers : Becomes(c, next) /\ Orderly(next) /\ next.at \in {"ack", "asr_pair"}
    BY <1>8, HearIs
  <2>3. Moves(c) BY <1>8, <2>1, <2>2, Onward DEF Hear, Owning, Phases
  <2>4. Calm \/ Trouble BY <1>8 DEF Hear, Answered
  <2>5. troubles' \in 0..MaxTroubles[pool'.size] BY <1>8, <2>4, Troubled DEF Hear, Calm
  <2> QED BY <1>8, <2>3, <2>5 DEF Hear, OthersOK
<1>9. CASE HearFails(c)
  <2>1. hd[c].at \in Owning BY <1>9 DEF HearFails, At, Owning, Phases
  <2>2. PICK next \in Handlers : Becomes(c, next) /\ Orderly(next) /\ next.at = "ack"
    BY <1>9, HearFailsIs
  <2>3. Moves(c) BY <1>9, <2>1, <2>2, Onward DEF HearFails, Owning, Phases
  <2>4. troubles' \in 0..MaxTroubles[pool'.size] BY <1>9, Troubled DEF HearFails
  <2>5. missed' \subseteq Seqs BY <1>9, HearFailsIs DEF OthersOK
  <2> QED BY <1>9, <2>3, <2>4, <2>5 DEF HearFails, OthersOK
<1>10. CASE Ack(c)
  <2> DEFINE h == [hd[c] EXCEPT !.at = "loop", !.cur = 0]
  <2>1. h \in Handlers /\ Orderly(h) /\ h.at \in Owning
    BY <1>0, FrameNumbers DEF Handlers, Phases, Orderly, Pairing, Loop, Owning
  <2>2. PICK next \in {h, Thrown(h)} : Becomes(c, next) BY <1>10 DEF Ack, Sent
  <2>3. next \in Handlers /\ Orderly(next) /\ next.at \in Owning
    BY <2>1, ThrownIs DEF Orderly, Owning, Phases
  <2>4. hd[c].at \in Owning BY <1>10 DEF Ack, At, Owning, Phases
  <2>5. Moves(c) BY <1>10, <2>2, <2>3, <2>4, Onward DEF Ack
  <2>6. hd[c].cur \in 0..Frames BY <1>0 DEF Handlers
  <2>7. panel' \in [state : {"live", "committed", "failed"}, link : Links, line : 0..Lines,
                token : 0..Lines, captured : 0..Frames, acked : 0..Frames, ending : BOOLEAN]
    BY <1>0, <1>10, <2>6 DEF Ack, OthersOK
  <2> QED BY <1>10, <2>5, <2>7 DEF Ack, OthersOK
<1> QED BY <1>1, <1>2, <1>3, <1>4, <1>6, <1>7, <1>8, <1>9, <1>10

(* What is paired with a closed segment is a sentence.                     *)
LEMMA SaidIs ==
  ASSUME Typed, NEW c \in Conns, hd[c].at \in Pairing
  PROVE  /\ Said(c) \in Sentences /\ Said(c) = hd[c].waiting[1]
         /\ hd[c].closed > 0 /\ hd[c].waiting # <<>> /\ hd[c].waiting \in Seq(Sentences)
         /\ hd[c].at \in Owning
<1>1. hd[c] \in Handlers /\ Orderly(hd[c]) BY TypesAt
<1>2. hd[c].closed > 0 /\ hd[c].waiting # <<>> BY <1>1 DEF Orderly
<1>3. hd[c].waiting \in Seq(Sentences) BY <1>1 DEF Handlers
<1>4. Said(c) = hd[c].waiting[1] /\ Said(c) \in Sentences
  BY <1>2, <1>3, HeadTailProperties DEF Said
<1> QED BY <1>2, <1>3, <1>4 DEF Pairing, Owning, Phases

(* Frames that are answered for later.                                     *)
LEMMA LateIs ==
  ASSUME NEW c \in Conns, Said(c) \in Sentences
  PROVE  Late(c) \subseteq Seqs
<1>1. Said(c).seq \in 0..Frames BY DEF Sentences
<1> QED BY <1>1, FrameNumbers DEF Late, Seqs

(* The storing of a sentence, and the end of a session.                    *)
LEMMA EndingTypes ==
  ASSUME Typed, NEW c \in Conns,
         \/ Persist(c) \/ PersistFails(c) \/ ReceiveFinalize(c) \/ Disconnect(c)
         \/ Drain(c) \/ Close(c) \/ CloseFails(c)
  PROVE  OthersOK' /\ Moves(c)
<1> USE DEF Typed
<1>0. /\ hd[c] \in Handlers /\ Orderly(hd[c])
      /\ row[c] \in [status : RowStates, ack : 0..Frames]
      /\ line[c] \in [state : {"none", "up", "dead"}, token : 0..Lines,
                      next : 1..Frames + 1, sent : 0..Frames, stop : BOOLEAN]
      /\ pool.free \in Nat /\ pool.lost \in Nat /\ pool.size \in PoolSizes /\ pool \in Pools
      /\ Lines \in Nat /\ c \in 0..Lines /\ Frames \in Nat
  BY TypesAt
<1>1. CASE Persist(c)
  <2>0. hd[c].at \in Pairing BY <1>1 DEF Persist
  <2>1. /\ Said(c) \in Sentences /\ hd[c].closed > 0 /\ hd[c].waiting # <<>>
        /\ hd[c].at \in Owning
    BY <2>0, SaidIs
  <2> DEFINE stored == [Paired(hd[c]) EXCEPT !.wrote = TRUE]
             h == CASE At(c, "vad_pair") -> [stored EXCEPT !.at = "asr"]
                    [] At(c, "asr_pair") -> [stored EXCEPT !.at = "ack"]
                    [] OTHER -> Finished(stored)
  <2>2. /\ Paired(hd[c]) \in Handlers
        /\ Paired(hd[c]).cur = hd[c].cur /\ Paired(hd[c]).at = hd[c].at
    BY <1>0, <2>1, PairedIs
  <2>3. stored \in Handlers /\ stored.cur = hd[c].cur BY <2>2 DEF Handlers
  <2> HIDE DEF stored
  <2>4. h \in Handlers /\ Orderly(h) /\ h.at \in Owning
    <3>1. CASE At(c, "vad_pair")
      <4>1. h = [stored EXCEPT !.at = "asr"] /\ hd[c].cur \in Seqs
        BY <1>0, <3>1 DEF At, Orderly, Loop
      <4> QED BY <2>3, <4>1 DEF Handlers, Phases, Orderly, Pairing, Loop, Owning
    <3>2. CASE At(c, "asr_pair")
      <4>1. h = [stored EXCEPT !.at = "ack"] /\ hd[c].cur \in Seqs
        BY <1>0, <3>2 DEF At, Orderly, Loop
      <4> QED BY <2>3, <4>1 DEF Handlers, Phases, Orderly, Pairing, Loop, Owning
    <3>3. CASE ~At(c, "vad_pair") /\ ~At(c, "asr_pair")
      <4>1. h = Finished(stored) BY <3>3
      <4> QED BY <2>3, <4>1, FinishedIs DEF Orderly, Owning, Phases
    <3> QED BY <3>1, <3>2, <3>3
  <2>5. Thrown(stored) \in Handlers /\ Orderly(Thrown(stored)) /\ Thrown(stored).at \in Owning
    BY <2>3, ThrownIs DEF Orderly, Owning, Phases
  <2>6. PICK next \in Sent(c, h, Thrown(stored)) :
          /\ Becomes(c, next)
          /\ missed' = missed \cup Late(c)
                        \cup IF At(c, "vad_pair") /\ next = Thrown(stored) THEN {hd[c].cur} ELSE {}
    BY <1>1 DEF Persist, stored
  <2>7. next \in Handlers /\ Orderly(next) /\ next.at \in Owning
    BY <2>4, <2>5, <2>6 DEF Sent
  <2>8. Moves(c) BY <1>1, <2>1, <2>6, <2>7, Onward DEF Persist
  <2>9. missed' \subseteq Seqs BY <1>0, <2>1, <2>6, LateIs DEF OthersOK, At, Orderly, Loop
  <2>10. segments' \subseteq Stored
    <3>1. Entry(Said(c)) \in Stored BY <2>1 DEF Entry, Stored, Sentences, Filed
    <3> QED BY <1>1, <3>1 DEF Persist, OthersOK
  <2>11. frame' \in [Seqs -> {"none", "ACCEPTED", "CONSUMED"}]
    <3>1. frame' = [f \in Seqs |-> IF f <= Said(c).seq /\ frame[f] = "ACCEPTED" THEN "CONSUMED"
                                   ELSE frame[f]]
      BY <1>1 DEF Persist, Consumed
    <3> QED BY <3>1 DEF OthersOK
  <2>12. run' \in RunStates BY <1>1 DEF Persist, OthersOK, RunStates
  <2>13. row' \in [Conns -> [status : RowStates, ack : 0..Frames]]
    <3>1. Said(c).seq \in 0..Frames BY <2>1 DEF Sentences
    <3> QED BY <1>0, <1>1, <3>1 DEF Persist, Acked, OthersOK
  <2> QED BY <1>1, <2>8, <2>9, <2>10, <2>11, <2>12, <2>13 DEF Persist, OthersOK
<1>2. CASE PersistFails(c)
  <2>0. hd[c].at \in Pairing BY <1>2 DEF PersistFails
  <2>1. /\ Said(c) \in Sentences /\ hd[c].closed > 0 /\ hd[c].waiting # <<>>
        /\ hd[c].at \in Owning
    BY <2>0, SaidIs
  <2> DEFINE h == Draining(Paired(hd[c]))
  <2>2. Paired(hd[c]) \in Handlers BY <1>0, <2>1, PairedIs
  <2>3. h \in Handlers /\ Orderly(h) /\ h.at \in Owning
    BY <2>2, DrainingIs DEF Orderly, Owning, Phases
  <2> HIDE DEF h
  <2>4. Finished(h) \in Handlers /\ Orderly(Finished(h)) /\ Finished(h).at \in Owning
    BY <2>3, FinishedIs DEF Orderly, Owning, Phases
  <2>5. PICK next \in {h, Finished(h)} : Becomes(c, next) BY <1>2 DEF PersistFails, h
  <2>6. Moves(c) BY <1>2, <2>1, <2>3, <2>4, <2>5, Onward DEF PersistFails
  <2>7. troubles' \in 0..MaxTroubles[pool'.size]
    BY <1>2, Troubled DEF PersistFails, Denied, Calm
  <2>8. missed' \subseteq Seqs
    BY <1>0, <1>2, <2>1 DEF PersistFails, OthersOK, Sentences, At, Orderly, Loop
  <2> QED BY <1>2, <2>6, <2>7, <2>8 DEF PersistFails, OthersOK
<1>3. CASE ReceiveFinalize(c)
  <2> DEFINE h == [hd[c] EXCEPT !.replaying = FALSE]
  <2>1. h \in Handlers BY <1>0 DEF Handlers
  <2>2. PICK next \in Finalizing(h) \cup Leftover(h) : Becomes(c, next) BY <1>3 DEF ReceiveFinalize
  <2> HIDE DEF h
  <2>3. Orderly(next) /\ next.at \in {"final_pair", "drain", "close"} BY <2>1, <2>2, FinalizingIs
  <2>4. next \in Handlers /\ next.at \in Owning BY <2>3 DEF Orderly, Owning, Phases
  <2>5. hd[c].at \in Owning BY <1>3 DEF ReceiveFinalize, At, Owning, Phases
  <2>6. Moves(c) BY <1>3, <2>2, <2>3, <2>4, <2>5, Onward DEF ReceiveFinalize
  <2>7. Calm \/ Trouble BY <1>3 DEF ReceiveFinalize
  <2>8. troubles' \in 0..MaxTroubles[pool'.size] BY <1>3, <2>7, Troubled DEF ReceiveFinalize, Calm
  <2> QED BY <1>3, <2>6, <2>8 DEF ReceiveFinalize, OthersOK
<1>4. CASE Disconnect(c)
  <2>1. PICK why \in {"error", "none"} : Becomes(c, [Draining(hd[c]) EXCEPT !.reason = why])
    BY <1>4 DEF Disconnect
  <2> DEFINE h == Draining(hd[c])
             next == [h EXCEPT !.reason = why]
  <2>2. h \in Handlers /\ Orderly(h) /\ h.at = "drain" BY <1>0, DrainingIs DEF Orderly
  <2>3. Becomes(c, next) BY <2>1
  <2> HIDE DEF h
  <2>4. next \in Handlers /\ Orderly(next) /\ next.at \in Owning
    BY <2>2 DEF Handlers, Phases, Orderly, Pairing, Loop, Owning
  <2>5. hd[c].at \in Owning BY <1>4 DEF Disconnect, At, Owning, Phases
  <2>6. Moves(c) BY <1>4, <2>3, <2>4, <2>5, Onward DEF Disconnect
  <2> QED BY <1>4, <2>6 DEF Disconnect, OthersOK
<1>5. CASE Drain(c)
  <2> DEFINE h == [hd[c] EXCEPT !.draining = TRUE]
  <2>1. h \in Handlers BY <1>0 DEF Handlers
  <2>2. PICK next : /\ next = Finished(h) \/ next \in Finalizing(h) \cup Leftover(h)
                    /\ Becomes(c, next)
    BY <1>5 DEF Drain
  <2> HIDE DEF h
  <2>3. Orderly(next) /\ next.at \in {"final_pair", "drain", "close"}
    BY <2>1, <2>2, FinalizingIs, FinishedIs
  <2>4. next \in Handlers /\ next.at \in Owning BY <2>3 DEF Orderly, Owning, Phases
  <2>5. hd[c].at \in Owning BY <1>5 DEF Drain, At, Owning, Phases
  <2>6. Moves(c) BY <1>5, <2>2, <2>3, <2>4, <2>5, Onward DEF Drain
  <2>7. troubles' \in 0..MaxTroubles[pool'.size] BY <1>5, Troubled DEF Drain, Calm
  <2>8. row' \in [Conns -> [status : RowStates, ack : 0..Frames]]
    <3>1. row' = row \/ row' = [row EXCEPT ![c].status = "DRAINING"] BY <1>5 DEF Drain
    <3>2. "DRAINING" \in RowStates BY DEF RowStates, Live
    <3> QED BY <3>1, <3>2, Restated DEF OthersOK
  <2> QED BY <1>5, <2>6, <2>7, <2>8 DEF Drain, OthersOK
<1>6. CASE Close(c)
  <2>1. hd[c].at \in Owning BY <1>6 DEF Close, At, Owning, Phases
  <2>2. /\ Moves(c) /\ pool'.size = pool.size
        /\ line' = [line EXCEPT ![c] = [NoLine EXCEPT !.state = "dead"]]
    BY <1>6, <2>1, EndedMoves DEF Close, Moves
  <2>3. LastSeq(hd[c]) \in 0..Frames BY <1>0, LastSeqOf
  <2>4. row' \in [Conns -> [status : RowStates, ack : 0..Frames]]
    BY <1>6, <2>3 DEF Close, OthersOK, RowStates, Live
  <2>5. panel' \in [state : {"live", "committed", "failed"}, link : Links, line : 0..Lines,
                token : 0..Lines, captured : 0..Frames, acked : 0..Frames, ending : BOOLEAN]
    BY <1>6 DEF Close, OthersOK
  <2>6. run' \in RunStates
    <3>1. run' \in {Retryable, "projections", "partial"} BY <1>6 DEF Close
    <3> QED BY <3>1 DEF Retryable, RunStates
  <2> QED BY <1>6, <2>2, <2>4, <2>5, <2>6, HungUp DEF Close, OthersOK
<1>7. CASE CloseFails(c)
  <2>1. hd[c].at \in Owning BY <1>7 DEF CloseFails, At, Owning, Phases
  <2>2. /\ Moves(c) /\ pool'.size = pool.size
        /\ line' = [line EXCEPT ![c] = [NoLine EXCEPT !.state = "dead"]]
    BY <1>7, <2>1, EndedMoves DEF CloseFails, Moves
  <2>3. row' \in [Conns -> [status : RowStates, ack : 0..Frames]]
    <3>1. row' = row \/ row' = [row EXCEPT ![c].status = "COMMITTING"] BY <1>7 DEF CloseFails
    <3>2. "COMMITTING" \in RowStates BY DEF RowStates, Live
    <3> QED BY <3>1, <3>2, Restated DEF OthersOK
  <2>4. troubles' \in 0..MaxTroubles[pool'.size]
    <3>1. MaxTroubles[pool.size] \in Nat BY <1>0, StreamConstants
    <3> QED BY <1>7, <2>2, <3>1 DEF CloseFails, Denied, Calm, Trouble, OthersOK
  <2> QED BY <1>7, <2>2, <2>3, <2>4, HungUp DEF CloseFails, OthersOK
<1> QED BY <1>1, <1>2, <1>3, <1>4, <1>5, <1>6, <1>7

(* What a handler tells the panel.                                         *)
LEMMA PanelHears ==
  ASSUME NEW c \in Conns, HandlerStep(c)
  PROVE  /\ hd[c].at # "off"
         /\ \/ panel' = panel
            \/ panel' = [panel EXCEPT !.token = c, !.link = IF @ = "scheduled" THEN @ ELSE "ready"]
            \/ panel' = [panel EXCEPT !.state = "failed"]
            \/ panel' = [panel EXCEPT !.state = "committed"]
            \/ panel' = [panel EXCEPT !.acked = hd[c].cur]
<1>1. CASE Reserve(c) \/ TurnAway(c) BY <1>1 DEF Reserve, TurnAway, At
<1>2. CASE Activate(c) \/ ActivateFails(c) BY <1>2 DEF Activate, ActivateFails, At
<1>3. CASE Open(c) BY <1>3 DEF Open, At
<1>4. CASE Replay(c) \/ ReplayFails(c) \/ Strand(c)
  BY <1>4 DEF Replay, ReplayFails, Strand, At
<1>5. CASE Stage(c) BY <1>5 DEF Stage, HasFrame, At
<1>6. CASE StageFails(c) \/ Hear(c) \/ HearFails(c)
  BY <1>6 DEF StageFails, Hear, HearFails, HasFrame, At
<1>7. CASE Ack(c) BY <1>7 DEF Ack, At
<1>8. CASE Persist(c) \/ PersistFails(c) BY <1>8 DEF Persist, PersistFails, Pairing
<1>9. CASE ReceiveFinalize(c) \/ Disconnect(c) \/ Drain(c) \/ CloseFails(c)
  BY <1>9 DEF ReceiveFinalize, Disconnect, Drain, CloseFails, At
<1>10. CASE Close(c) BY <1>10 DEF Close, At
<1> QED BY <1>1, <1>2, <1>3, <1>4, <1>5, <1>6, <1>7, <1>8, <1>9, <1>10 DEF HandlerStep

(* A handler's step keeps the types.                                       *)
LEMMA HandlerTyped ==
  ASSUME Typed, NEW c \in Conns, HandlerStep(c)
  PROVE  Typed' /\ Moves(c)
<1>1. OthersOK' /\ Moves(c)
  BY OpeningTypes, LoopTypes, EndingTypes DEF HandlerStep
<1>2. Sessions' /\ Permits' BY <1>1, PermitsKept
<1>3. /\ panel'.line = panel.line
      /\ panel'.state = "live" /\ panel'.link = "scheduled" =>
           panel.state = "live" /\ panel.link = "scheduled"
  BY PanelHears DEF Typed, OthersOK
<1>4. Scheduled' BY <1>3 DEF Typed, Scheduled
<1>5. ASSUME NEW d \in Conns, d > panel'.line PROVE hd'[d] = Fresh("off")
  <2>1. hd[d] = Fresh("off") BY <1>3, <1>5 DEF Typed, Unopened
  <2>2. hd[d].at = "off" BY <2>1 DEF Fresh
  <2>3. d # c BY <2>2, PanelHears
  <2> QED BY <1>1, <2>1, <2>3 DEF Moves, Typed, Sessions
<1> QED BY <1>1, <1>2, <1>4, <1>5 DEF Typed, Unopened

(* A panel that gives up, or is about to connect again.                    *)
LEMMA ReconnectingIs ==
  ASSUME NEW p \in [state : {"live", "committed", "failed"}, link : Links, line : 0..Lines,
                token : 0..Lines, captured : 0..Frames, acked : 0..Frames, ending : BOOLEAN]
  PROVE  /\ Reconnecting(p) \in
              [state : {"live", "committed", "failed"}, link : Links, line : 0..Lines,
               token : 0..Lines, captured : 0..Frames, acked : 0..Frames, ending : BOOLEAN]
         /\ Reconnecting(p).line = p.line /\ Reconnecting(p).token = p.token
         /\ Reconnecting(p).captured = p.captured /\ Reconnecting(p).acked = p.acked
         /\ Reconnecting(p).ending = p.ending
         /\ \/ Reconnecting(p).state = "failed" /\ Reconnecting(p).link = p.link
            \/ /\ Reconnecting(p).state = p.state /\ Reconnecting(p).link = "scheduled"
               /\ p.line < Lines
BY DEF Reconnecting, Failed, Links

(* A step of the panel keeps the types.                                    *)
LEMMA ClientTyped ==
  ASSUME Typed, Client
  PROVE  Typed'
<1> DEFINE Panels == [state : {"live", "committed", "failed"}, link : Links, line : 0..Lines,
                token : 0..Lines, captured : 0..Frames, acked : 0..Frames, ending : BOOLEAN]
           Ends == [state : {"none", "up", "dead"}, token : 0..Lines,
                         next : 1..Frames + 1, sent : 0..Frames, stop : BOOLEAN]
<1>0. /\ panel \in Panels /\ line \in [Conns -> Ends] /\ Lines \in Nat /\ Frames \in Nat
      /\ Length[pool.size] \in 0..Frames
  BY StreamConstants DEF Typed, OthersOK, Permits, Pools
<1>1. CASE Dial
  <2> DEFINE c == panel.line + 1
  <2>1. c \in Conns /\ c > panel.line /\ c \in 0..Lines
    BY <1>0, <1>1 DEF Dial, Going, Typed, Scheduled, Conns
  <2>2. panel' = [panel EXCEPT !.link = "opening", !.line = c] BY <1>1 DEF Dial, Current
  <2>3. panel' \in Panels /\ panel'.line = c /\ panel'.link = "opening"
    BY <1>0, <2>1, <2>2 DEF Links
  <2>4. panel.acked + 1 \in 1..Frames + 1 BY <1>0
  <2>5. [NoLine EXCEPT !.state = "up", !.token = panel.token,
                       !.next = panel.acked + 1, !.sent = panel.acked] \in Ends
    BY <1>0, <2>4 DEF NoLine
  <2>6. line' = [line EXCEPT ![c] = [NoLine EXCEPT !.state = "up", !.token = panel.token,
                                 !.next = panel.acked + 1, !.sent = panel.acked]]
    BY <1>1 DEF Dial, Current
  <2>7. line' \in [Conns -> Ends] BY <1>0, <2>5, <2>6
  <2>8. OthersOK' BY <1>1, <2>3, <2>7 DEF Dial, Served, Typed, OthersOK
  <2>9. hd[c] = Fresh("off") BY <2>1 DEF Typed, Unopened
  <2> DEFINE h == [hd[c] EXCEPT !.at = "reserve"]
  <2>10. hd[c] \in Handlers BY <2>9, FreshIs
  <2>11. h \in Handlers /\ Orderly(h) /\ h.at = "reserve"
    BY <2>10 DEF Handlers, Phases, Orderly, Pairing, Loop
  <2>12. Becomes(c, h) BY <1>1 DEF Dial, Goto, Current
  <2> HIDE DEF h
  <2>13. h.at \in Owning <=> hd[c].at \in Owning BY <2>9, <2>11 DEF Owning, Fresh
  <2>14. Moves(c) BY <1>1, <2>1, <2>11, <2>12, <2>13, Onward DEF Dial, Served
  <2>15. Sessions' /\ Permits' BY <2>1, <2>14, PermitsKept
  <2>16. Scheduled' BY <2>3 DEF Scheduled
  <2>17. ASSUME NEW d \in Conns, d > panel'.line PROVE hd'[d] = Fresh("off")
    <3>0. d \in Nat /\ panel.line \in Nat /\ d > panel.line + 1
      BY <1>0, <2>3, <2>17 DEF Conns
    <3>1. d > panel.line /\ d # c BY <3>0
    <3>2. hd[d] = Fresh("off") BY <3>1 DEF Typed, Unopened
    <3> QED BY <2>12, <3>1, <3>2 DEF Becomes, Typed, Sessions
  <2> QED BY <2>8, <2>15, <2>16, <2>17 DEF Typed, Unopened
<1>2. ASSUME panel' \in Panels, line' \in [Conns -> Ends], panel'.line = panel.line,
             panel'.state = "live" /\ panel'.link = "scheduled" => panel.line < Lines,
             UNCHANGED hd, UNCHANGED Served
      PROVE  Typed'
  <2>1. OthersOK' BY <1>2 DEF Typed, OthersOK, Served
  <2>2. Sessions' /\ Permits' /\ Unopened'
    BY <1>2 DEF Typed, Sessions, Permits, Owners, Unopened, Served
  <2>3. Scheduled' BY <1>2 DEF Scheduled
  <2> QED BY <2>1, <2>2, <2>3 DEF Typed
<1>3. CASE NoToken
  BY <1>0, <1>2, <1>3 DEF NoToken, Failed
<1>4. panel.state = "live" /\ panel.link = "scheduled" => panel.line < Lines
  BY DEF Typed, Scheduled
<1>5. CASE Capture
  <2>1. panel.captured + 1 \in 0..Frames BY <1>0, <1>5 DEF Capture
  <2>2. panel' \in Panels /\ panel'.line = panel.line /\ panel'.state = panel.state
        /\ panel'.link = panel.link
    BY <1>0, <1>5, <2>1 DEF Capture
  <2>3. line' \in [Conns -> Ends] BY <1>0, <1>5, <2>1 DEF Capture
  <2> QED BY <1>2, <1>4, <1>5, <2>2, <2>3 DEF Capture
<1>6. CASE Overflow
  <2>1. panel' \in Panels /\ panel'.line = panel.line /\ panel'.state = "failed"
    BY <1>0, <1>6 DEF Overflow, Failed
  <2>2. line' \in [Conns -> Ends] BY <1>0, <1>6 DEF Overflow
  <2> QED BY <1>2, <1>6, <2>1, <2>2 DEF Overflow
<1>7. CASE Stop
  <2> DEFINE p == [panel EXCEPT !.ending = TRUE]
  <2>1. /\ p \in Panels /\ p.line = panel.line /\ p.state = panel.state /\ p.link = panel.link
    BY <1>0
  <2>2. panel' = IF panel.link = "opening" THEN Reconnecting(p) ELSE p BY <1>7 DEF Stop
  <2> HIDE DEF p
  <2>3. panel' \in Panels /\ panel'.line = panel.line
        /\ (panel'.state = "live" /\ panel'.link = "scheduled" => panel.line < Lines)
    BY <1>4, <2>1, <2>2, ReconnectingIs
  <2>4. line' \in [Conns -> Ends] BY <1>0, <1>7 DEF Stop
  <2> QED BY <1>2, <1>7, <2>3, <2>4 DEF Stop
<1>8. CASE Notice
  <2>1. panel' \in Panels /\ panel'.line = panel.line
        /\ (panel'.state = "live" /\ panel'.link = "scheduled" => panel.line < Lines)
    BY <1>0, <1>4, <1>8, ReconnectingIs DEF Notice, Going
  <2> QED BY <1>0, <1>2, <1>8, <2>1 DEF Notice
<1> QED BY <1>1, <1>3, <1>5, <1>6, <1>7, <1>8 DEF Client

(* A restart, and a connection that breaks.                                *)
LEMMA TroubleTyped ==
  ASSUME Typed, Crash \/ \E c \in Conns : Break(c)
  PROVE  Typed'
<1> DEFINE Ends == [state : {"none", "up", "dead"}, token : 0..Lines,
                         next : 1..Frames + 1, sent : 0..Frames, stop : BOOLEAN]
<1>0. /\ line \in [Conns -> Ends] /\ Lines \in Nat /\ Frames \in Nat
      /\ pool \in Pools /\ pool.size \in PoolSizes /\ pool.size \in Nat
      /\ MaxTroubles[pool.size] \in Nat
  BY StreamConstants DEF Typed, OthersOK, Permits, Pools
<1>1. CASE Crash
  <2>1. hd' = [c \in Conns |-> Fresh("off")] BY <1>1 DEF Crash
  <2>2. Fresh("off") \in Handlers /\ Orderly(Fresh("off")) BY FreshIs
  <2>3. Sessions' BY <2>1, <2>2 DEF Sessions
  <2>4. /\ pool' \in Pools /\ pool'.size = pool.size
        /\ pool'.free = pool.size /\ pool'.lost = 0
    BY <1>0, <1>1 DEF Crash, Pools
  <2>5. Owners' = {} BY <2>1 DEF Owners, Fresh, Owning
  <2>6. Cardinality(Owners') = 0 BY <2>5, FS_EmptySet
  <2>7. Permits' BY <1>0, <2>4, <2>6 DEF Permits
  <2>8. 1 \in 1..Frames + 1 /\ 0 \in 0..Frames /\ 0 \in 0..Lines BY <1>0
  <2>9. NoLine \in Ends /\ [NoLine EXCEPT !.state = "dead"] \in Ends BY <2>8 DEF NoLine
  <2>10. line' = [c \in Conns |-> IF line[c].state = "none" THEN NoLine
                                  ELSE [NoLine EXCEPT !.state = "dead"]]
    BY <1>1 DEF Crash
  <2>11. line' \in [Conns -> Ends] BY <2>9, <2>10
  <2>12. troubles' \in 0..MaxTroubles[pool'.size]
    BY <1>0, <1>1, <2>4 DEF Crash, Trouble, Typed, OthersOK
  <2>13. OthersOK' BY <1>1, <2>11, <2>12 DEF Crash, Typed, OthersOK
  <2>14. Scheduled' BY <1>1 DEF Crash, Typed, Scheduled
  <2>15. Unopened' BY <1>1, <2>1 DEF Crash, Unopened
  <2> QED BY <2>3, <2>7, <2>13, <2>14, <2>15 DEF Typed
<1>2. ASSUME NEW c \in Conns, Break(c) PROVE Typed'
  <2>1. line' \in [Conns -> Ends] BY <1>0, <1>2 DEF Break
  <2>2. OthersOK' BY <1>2, <2>1 DEF Break, Served, Typed, OthersOK
  <2>3. Sessions' /\ Permits' /\ Unopened' /\ Scheduled'
    BY <1>2 DEF Break, Served, Typed, Sessions, Permits, Owners, Unopened, Scheduled
  <2> QED BY <2>2, <2>3 DEF Typed
<1> QED BY <1>1, <1>2

(* The batch scheduler has a go at the run.                                *)
LEMMA BatchTyped ==
  ASSUME Typed, Batch
  PROVE  Typed'
<1>1. run' \in RunStates BY DEF Batch, RunStates
<1>2. troubles' \in 0..MaxTroubles[pool'.size] BY Troubled DEF Batch
<1>3. OthersOK' BY <1>1, <1>2 DEF Batch, Typed, OthersOK
<1>4. Sessions' /\ Permits' /\ Unopened' /\ Scheduled'
  BY DEF Batch, Typed, Sessions, Permits, Owners, Unopened, Scheduled
<1> QED BY <1>3, <1>4 DEF Typed

(* The first state.                                                        *)
LEMMA InitTyped == Init => Typed
<1> SUFFICES ASSUME Init PROVE Typed OBVIOUS
<1>1. /\ Frames \in Nat /\ 1 \in 1..Frames + 1 /\ 0 \in 0..Frames /\ 0 \in 0..Lines /\ Lines \in Nat
      /\ 0 < Lines
  BY StreamConstants
<1>2. PICK n \in PoolSizes : pool = [size |-> n, free |-> n, lost |-> 0] BY DEF Init
<1>3. n \in Nat /\ MaxTroubles[n] \in Nat BY StreamConstants
<1>4. OthersOK BY <1>1, <1>2, <1>3 DEF Init, OthersOK, NoLine, Links, RowStates, RunStates
<1>5. Fresh("off") \in Handlers /\ Orderly(Fresh("off")) BY FreshIs
<1>6. Sessions /\ Unopened BY <1>5 DEF Init, Sessions, Unopened
<1>7. Owners = {} BY DEF Init, Owners, Fresh, Owning
<1>8. Cardinality(Owners) = 0 BY <1>7, FS_EmptySet
<1>9. Permits BY <1>2, <1>3, <1>8 DEF Permits, Pools
<1>10. Scheduled BY <1>1 DEF Init, Scheduled
<1> QED BY <1>4, <1>6, <1>9, <1>10 DEF Typed

(* Every state has the right types.                                        *)
LEMMA NextTyped == Typed /\ [Next]_vars => Typed'
<1> SUFFICES ASSUME Typed, [Next]_vars PROVE Typed' OBVIOUS
<1>1. CASE UNCHANGED vars
  BY <1>1 DEF vars, Typed, OthersOK, Sessions, Permits, Owners, Scheduled, Unopened
<1>2. CASE Next BY <1>2, HandlerTyped, ClientTyped, TroubleTyped, BatchTyped DEF Next
<1> QED BY <1>1, <1>2

(* The types hold always.                                                  *)
LEMMA AlwaysTyped == Spec => []Typed
BY InitTyped, NextTyped, PTL DEF Spec

(* The types, which say too that no permit is made up and that a sequence  *)
(* number or an attempt beyond the bounds is never in use.                 *)
THEOREM StreamCaptureTypes == Spec => []TypeOK
<1>1. Typed => TypeOK
  <2> SUFFICES ASSUME Typed PROVE TypeOK OBVIOUS
  <2>1. pool.free + pool.lost <= pool.size
    <3>1. IsFiniteSet(Conns) BY FS_Interval, StreamConstants DEF Conns
    <3>2. IsFiniteSet(Owners) BY <3>1, FS_Subset DEF Owners
    <3>3. Cardinality(Owners) \in Nat BY <3>2, FS_CardinalityType
    <3>4. /\ pool.free \in Nat /\ pool.lost \in Nat /\ pool.size \in Nat
          /\ pool.free + pool.lost + Cardinality(Owners) = pool.size
      BY StreamConstants DEF Typed, Permits, Pools
    <3> QED BY <3>3, <3>4
  <2> QED BY <2>1 DEF Typed, OthersOK, Sessions, Permits, Pools, TypeOK
<1> QED BY <1>1, AlwaysTyped, PTL

(* PermitsReturn: however the handlers of a capture have ended, in         *)
(* whatever order, the permits that are neither free nor lost are none.    *)
THEOREM PermitsAlwaysReturn == Spec => []PermitsReturn
<1>1. Typed => PermitsReturn
  <2> SUFFICES ASSUME Typed, \A c \in Conns : At(c, "off")
               PROVE  pool.free + pool.lost = pool.size
    BY DEF PermitsReturn
  <2>1. Owners = {} BY DEF At, Owners, Owning
  <2>2. Cardinality(Owners) = 0 BY <2>1, FS_EmptySet
  <2>3. pool.free \in Nat /\ pool.lost \in Nat BY DEF Typed, Permits, Pools
  <2> QED BY <2>2, <2>3 DEF Typed, Permits
<1> QED BY <1>1, AlwaysTyped, PTL

-----------------------------------------------------------------------------
(* What each step makes of the session of its handler.                     *)

(* What stays as it is on the way: also the frames to come and the reason. *)
Same(h, g) == Keeps(h, g) /\ g.cur = h.cur /\ g.todo = h.todo /\ g.reason = h.reason

(* The other sessions go on as they were.                                  *)
LEMMA OnlyOne ==
  ASSUME Typed, NEW c \in Conns, HandlerStep(c)
  PROVE  /\ \A d \in Conns : d # c => hd'[d] = hd[d]
         /\ hd'[c] \in Handlers /\ Orderly(hd'[c])
BY HandlerTyped, TypesAt DEF Moves, Typed, Sessions

(* What a session becomes.                                                 *)
LEMMA BecomesIs ==
  ASSUME Typed, NEW c \in Conns, NEW h, Becomes(c, h)
  PROVE  hd'[c] = h
BY DEF Becomes, Typed, Sessions

(* A session that is over.                                                 *)
LEMMA OverIs ==
  ASSUME Typed, NEW c \in Conns,
         TurnAway(c) \/ ActivateFails(c) \/ Strand(c) \/ Close(c) \/ CloseFails(c)
  PROVE  hd'[c] = Fresh("off") /\ hd'[c].at = "off" /\ hd'[c].fed = {} /\ hd'[c].heard = {}
         /\ hd'[c].waiting = <<>> /\ hd'[c].cur = 0 /\ hd'[c].todo = {} /\ hd'[c].reason = "none"
<1>1. Becomes(c, Fresh("off"))
  BY DEF TurnAway, ActivateFails, Strand, Close, CloseFails, Ended, Gone
<1>2. hd'[c] = Fresh("off") BY <1>1, BecomesIs
<1> QED BY <1>2 DEF Fresh

(* A session that begins.                                                  *)
LEMMA OpeningIs ==
  ASSUME Typed, NEW c \in Conns
  PROVE  /\ Reserve(c) => Same(hd[c], hd'[c]) /\ hd[c].at = "reserve" /\ hd'[c].at = "acquire"
         /\ Activate(c) => Same(hd[c], hd'[c]) /\ hd[c].at = "acquire" /\ hd'[c].at = "open"
         /\ Open(c) => /\ Same(hd[c], hd'[c]) /\ hd[c].at = "open"
                       /\ hd'[c].at \in {"replay", "raised"}
         /\ Replay(c) => /\ Keeps(hd[c], hd'[c]) /\ hd'[c].cur = hd[c].cur
                         /\ hd'[c].reason = hd[c].reason /\ hd'[c].todo = Pending
                         /\ hd[c].at = "replay" /\ hd'[c].at = "loop"
<1>0. hd[c] \in Handlers BY TypesAt
<1>1. ASSUME Reserve(c)
      PROVE  Same(hd[c], hd'[c]) /\ hd[c].at = "reserve" /\ hd'[c].at = "acquire"
  BY <1>0, <1>1, BecomesIs DEF Reserve, Goto, At, Same, Keeps, Handlers
<1>2. ASSUME Activate(c)
      PROVE  Same(hd[c], hd'[c]) /\ hd[c].at = "acquire" /\ hd'[c].at = "open"
  BY <1>0, <1>2, BecomesIs DEF Activate, Goto, At, Same, Keeps, Handlers
<1>3. ASSUME Open(c)
      PROVE  Same(hd[c], hd'[c]) /\ hd[c].at = "open" /\ hd'[c].at \in {"replay", "raised"}
  <2> DEFINE h == [hd[c] EXCEPT !.at = "replay", !.replaying = TRUE]
  <2>1. PICK next \in {h, Thrown(h)} : Becomes(c, next) BY <1>3 DEF Open, Sent
  <2>2. hd'[c] = next BY <2>1, BecomesIs
  <2>3. h.replaying BY <1>0 DEF Handlers
  <2>4. Thrown(h) = [h EXCEPT !.at = "raised"] BY <2>3 DEF Thrown
  <2>5. hd'[c] \in {h, [h EXCEPT !.at = "raised"]} BY <2>1, <2>2, <2>4
  <2>6. CASE hd'[c] = h BY <1>0, <1>3, <2>6 DEF Open, At, Same, Keeps, Handlers
  <2>7. CASE hd'[c] = [h EXCEPT !.at = "raised"]
    BY <1>0, <1>3, <2>7 DEF Open, At, Same, Keeps, Handlers
  <2> QED BY <2>5, <2>6, <2>7
<1>4. ASSUME Replay(c)
      PROVE  /\ Keeps(hd[c], hd'[c]) /\ hd'[c].cur = hd[c].cur
             /\ hd'[c].reason = hd[c].reason /\ hd'[c].todo = Pending
             /\ hd[c].at = "replay" /\ hd'[c].at = "loop"
  BY <1>0, <1>4, BecomesIs DEF Replay, At, Keeps, Handlers
<1> QED BY <1>1, <1>2, <1>3, <1>4

(* Whatever is thrown: nothing is forgotten that was heard.                *)
ThrownFrom(h, g) ==
  /\ Keeps(h, g) /\ g.at \in {"raised", "close", "drain"}
  /\ g.at = "drain" => g.reason # "none"
  /\ g.cur \in {h.cur, 0} /\ g.todo \subseteq h.todo
  /\ g.reason = h.reason \/ (h.reason = "none" /\ g.reason = "error")

(* The steps that throw, or may.                                           *)
LEMMA ThrowingIs ==
  ASSUME Typed, NEW c \in Conns
  PROVE  /\ ReplayFails(c) => ThrownFrom(hd[c], hd'[c]) /\ hd[c].at = "replay"
         /\ Ack(c) => /\ hd[c].at = "ack"
                      /\ \/ /\ Keeps(hd[c], hd'[c]) /\ hd'[c].at = "loop" /\ hd'[c].cur = 0
                            /\ hd'[c].todo = hd[c].todo /\ hd'[c].reason = hd[c].reason
                         \/ ThrownFrom(hd[c], hd'[c])
         /\ StageFails(c) => ThrownFrom(hd[c], hd'[c]) /\ hd[c].at = "loop"
         /\ Disconnect(c) => /\ hd[c].at = "loop"
                             /\ Keeps(hd[c], hd'[c]) /\ hd'[c].at = "drain"
                             /\ hd'[c].cur = 0 /\ hd'[c].todo = {} /\ ~Up(c)
<1>0. hd[c] \in Handlers BY TypesAt
<1>1. ASSUME ReplayFails(c) PROVE ThrownFrom(hd[c], hd'[c]) /\ hd[c].at = "replay"
  BY <1>0, <1>1, ThrownIs, BecomesIs DEF ReplayFails, ThrownFrom, At
<1>2. ASSUME Ack(c)
      PROVE  /\ hd[c].at = "ack"
             /\ \/ /\ Keeps(hd[c], hd'[c]) /\ hd'[c].at = "loop" /\ hd'[c].cur = 0
                   /\ hd'[c].todo = hd[c].todo /\ hd'[c].reason = hd[c].reason
                \/ ThrownFrom(hd[c], hd'[c])
  <2> DEFINE h == [hd[c] EXCEPT !.at = "loop", !.cur = 0]
  <2>1. PICK next \in {h, Thrown(h)} : Becomes(c, next) BY <1>2 DEF Ack, Sent
  <2>2. hd'[c] = next BY <2>1, BecomesIs
  <2>3. /\ h \in Handlers /\ Keeps(hd[c], h) /\ h.at = "loop" /\ h.cur = 0
        /\ h.todo = hd[c].todo /\ h.reason = hd[c].reason
    BY <1>0, FrameNumbers DEF Handlers, Phases, Keeps
  <2> HIDE DEF h
  <2>4. CASE next = h BY <1>2, <2>2, <2>3, <2>4 DEF Ack, At
  <2>5. CASE next = Thrown(h)
    <3>1. ThrownFrom(hd[c], hd'[c]) BY <2>2, <2>3, <2>5, ThrownIs DEF ThrownFrom, Keeps
    <3> QED BY <1>2, <3>1 DEF Ack, At
  <2> QED BY <2>1, <2>4, <2>5
<1>3. ASSUME StageFails(c) PROVE ThrownFrom(hd[c], hd'[c]) /\ hd[c].at = "loop"
  <2>1. hd'[c] = Draining(hd[c]) /\ hd[c].at = "loop"
    BY <1>3, BecomesIs DEF StageFails, HasFrame, At
  <2> QED BY <1>0, <2>1, DrainingIs DEF ThrownFrom
<1>4. ASSUME Disconnect(c)
      PROVE  /\ hd[c].at = "loop" /\ Keeps(hd[c], hd'[c]) /\ hd'[c].at = "drain"
             /\ hd'[c].cur = 0 /\ hd'[c].todo = {} /\ ~Up(c)
  <2>1. PICK why \in {"error", "none"} : Becomes(c, [Draining(hd[c]) EXCEPT !.reason = why])
    BY <1>4 DEF Disconnect
  <2> DEFINE h == Draining(hd[c])
  <2>2. /\ h \in Handlers /\ h.at = "drain" /\ Keeps(hd[c], h) /\ h.cur = 0 /\ h.todo = {}
    BY <1>0, DrainingIs DEF Orderly
  <2>3. hd'[c] = [h EXCEPT !.reason = why] BY <2>1, BecomesIs
  <2> HIDE DEF h
  <2> QED BY <1>4, <2>2, <2>3 DEF Disconnect, At, Keeps, Handlers
<1> QED BY <1>1, <1>2, <1>3, <1>4

(* A frame is staged.                                                      *)
LEMMA StageIs ==
  ASSUME Typed, NEW c \in Conns, Stage(c)
  PROVE  /\ hd[c].at = "loop" /\ InHand(c) \in Seqs
         /\ hd'[c].todo = hd[c].todo \ {InHand(c)}
         /\ hd'[c].heard = hd[c].heard /\ hd'[c].waiting = hd[c].waiting
         /\ hd'[c].reason = hd[c].reason
         /\ \/ /\ frame[InHand(c)] = "CONSUMED" \/ InHand(c) \in hd[c].fed
               /\ hd'[c].fed = hd[c].fed /\ hd'[c].at = "ack" /\ hd'[c].cur = InHand(c)
            \/ /\ frame[InHand(c)] # "CONSUMED" /\ InHand(c) \notin hd[c].fed
               /\ InHand(c) < LastSeq(hd[c])
               /\ hd'[c].fed = hd[c].fed /\ hd'[c].at = "loop" /\ hd'[c].cur = 0
            \/ /\ frame[InHand(c)] # "CONSUMED" /\ InHand(c) \notin hd[c].fed
               /\ ~(InHand(c) < LastSeq(hd[c]))
               /\ hd'[c].fed = hd[c].fed \cup {InHand(c)} /\ hd'[c].cur = InHand(c)
               /\ hd'[c].at \in {"vad_pair", "asr"}
<1>0. hd[c] \in Handlers BY TypesAt
<1>1. HasFrame(c) /\ hd[c].at = "loop" BY DEF Stage, HasFrame, At
<1>2. InHand(c) \in Seqs BY <1>1, InHandIs DEF Typed
<1>3. InHand(c) \in Seqs /\ InHand(c) \in 0..Frames BY <1>2, FrameNumbers
<1> DEFINE f == InHand(c)
           h == [hd[c] EXCEPT !.replaying = hd[c].todo # {}, !.cur = f, !.todo = @ \ {f}]
           rejected == frame[f] # "CONSUMED" /\ OutOfOrder(h)
<1> HIDE DEF f
<1>4. f \in Seqs /\ f \in 0..Frames BY <1>3 DEF f
<1>5. /\ h \in Handlers /\ h.cur = f /\ h.at = "loop" /\ h.todo = hd[c].todo \ {f}
      /\ h.heard = hd[c].heard /\ h.waiting = hd[c].waiting /\ h.reason = hd[c].reason
      /\ h.fed = hd[c].fed
  BY <1>0, <1>1, <1>4 DEF Handlers
<1>6. PICK next \in IF frame[f] = "CONSUMED" THEN {[h EXCEPT !.at = "ack"]}
                    ELSE IF rejected THEN {[h EXCEPT !.cur = 0]} ELSE Detected(h) :
          Becomes(c, next)
  BY DEF Stage, f
<1>7. hd'[c] = next BY <1>6, BecomesIs
<1>8. OutOfOrder(h) <=> f \notin hd[c].fed /\ f < LastSeq(hd[c])
  BY <1>5 DEF OutOfOrder, LastSeq
<1> HIDE DEF h
<1>9. CASE frame[f] = "CONSUMED"
  BY <1>1, <1>4, <1>5, <1>6, <1>7, <1>9 DEF Handlers, f
<1>10. CASE rejected
  BY <1>1, <1>4, <1>5, <1>6, <1>7, <1>8, <1>10 DEF Handlers, f
<1>11. CASE frame[f] # "CONSUMED" /\ ~rejected
  <2>1. next \in Detected(h) BY <1>6, <1>11
  <2>2. /\ Orderly(next) /\ next.cur = h.cur /\ next.todo = h.todo
        /\ next.heard = h.heard /\ next.waiting = h.waiting /\ next.reason = h.reason
        /\ \/ h.cur \in h.fed /\ next.fed = h.fed /\ next.at = "ack"
           \/ h.cur \notin h.fed /\ next.fed = h.fed \cup {h.cur} /\ next.at \in {"vad_pair", "asr"}
    BY <1>4, <1>5, <2>1, DetectedIs
  <2> QED BY <1>1, <1>4, <1>5, <1>7, <1>8, <1>11, <2>2 DEF f
<1> QED BY <1>9, <1>10, <1>11

(* A frame is heard, or not: what the handler has then.                    *)
LEMMA HeardIs ==
  ASSUME Typed, NEW c \in Conns, Hear(c) \/ HearFails(c)
  PROVE  /\ hd[c].at = "asr" /\ hd[c].cur \in Seqs /\ Heard(c) \in SUBSET Seqs
         /\ hd'[c].fed = hd[c].fed /\ hd'[c].todo = hd[c].todo /\ hd'[c].cur = hd[c].cur
         /\ hd'[c].reason = hd[c].reason /\ hd'[c].at \in {"asr_pair", "ack"}
         /\ missed \subseteq missed' /\ missed' \subseteq missed \cup Heard(c)
         /\ \/ /\ hd'[c].at = "ack" /\ hd'[c].waiting = hd[c].waiting
               /\ hd'[c].heard \subseteq Heard(c) /\ Heard(c) \subseteq hd'[c].heard \cup missed'
            \/ \E text \in Words(Heard(c)) :
                 /\ missed' = missed /\ hd'[c].heard = Heard(c) \ text
                 /\ hd'[c].waiting = Append(hd[c].waiting, [text |-> text, seq |-> hd[c].cur])
<1>1. CASE HearFails(c)
  <2>1. PICK next \in Handlers :
              /\ Becomes(c, next) /\ next.at = "ack"
              /\ next.fed = hd[c].fed /\ next.cur = hd[c].cur /\ next.todo = hd[c].todo
              /\ next.reason = hd[c].reason /\ next.waiting = hd[c].waiting
              /\ next.heard \subseteq Heard(c)
              /\ Heard(c) \subseteq next.heard \cup missed'
    BY <1>1, HearFailsIs
  <2>2. hd'[c] = next BY <2>1, BecomesIs
  <2>3. /\ hd[c].at = "asr" /\ hd[c].cur \in Seqs /\ missed \subseteq missed'
        /\ missed' \subseteq missed \cup Heard(c) /\ Heard(c) \in SUBSET Seqs
    BY <1>1, HearFailsIs
  <2> QED BY <2>1, <2>2, <2>3
<1>2. CASE Hear(c)
  <2>1. PICK next \in Handlers :
              /\ Becomes(c, next) /\ next.at \in {"ack", "asr_pair"}
              /\ next.fed = hd[c].fed /\ next.cur = hd[c].cur /\ next.todo = hd[c].todo
              /\ next.reason = hd[c].reason
              /\ \/ next.waiting = hd[c].waiting /\ next.heard = Heard(c) /\ next.at = "ack"
                 \/ \E text \in Words(Heard(c)) :
                      /\ next.heard = Heard(c) \ text
                      /\ next.waiting = Append(hd[c].waiting, [text |-> text, seq |-> hd[c].cur])
    BY <1>2, HearIs
  <2>2. hd'[c] = next BY <2>1, BecomesIs
  <2>3. hd[c].at = "asr" /\ hd[c].cur \in Seqs /\ Heard(c) \in SUBSET Seqs BY <1>2, HearIs
  <2>4. missed' = missed BY <1>2 DEF Hear
  <2> QED BY <2>1, <2>2, <2>3, <2>4
<1> QED BY <1>1, <1>2

(* A sentence is stored.                                                   *)
LEMMA PersistIs ==
  ASSUME Typed, NEW c \in Conns, Persist(c)
  PROVE  /\ hd[c].at \in Pairing
         /\ hd'[c].fed = hd[c].fed /\ hd'[c].heard = hd[c].heard
         /\ hd'[c].waiting = Tail(hd[c].waiting)
         /\ \/ /\ hd'[c].cur = hd[c].cur /\ hd'[c].todo = hd[c].todo
               /\ missed' = missed \cup Late(c)
               /\ \/ /\ hd[c].at = "vad_pair" /\ hd'[c].at = "asr" /\ hd'[c].reason = hd[c].reason
                  \/ /\ hd[c].at = "asr_pair" /\ hd'[c].at = "ack" /\ hd'[c].reason = hd[c].reason
                  \/ /\ hd[c].at = "final_pair" /\ hd'[c].at \in {"drain", "close"}
                     /\ hd'[c].reason = (IF hd[c].reason = "none" THEN "normal" ELSE hd[c].reason)
            \/ /\ hd'[c].at \in {"raised", "close", "drain"}
               /\ hd'[c].at = "drain" => hd'[c].reason # "none"
               /\ hd'[c].cur \in {hd[c].cur, 0} /\ hd'[c].todo \subseteq hd[c].todo
               /\ \/ hd'[c].reason = hd[c].reason
                  \/ hd[c].reason = "none" /\ hd'[c].reason = "error"
               /\ missed' = missed \cup Late(c)
                              \cup IF hd[c].at = "vad_pair" THEN {hd[c].cur} ELSE {}
<1>0. hd[c] \in Handlers /\ hd[c].at \in Pairing BY TypesAt DEF Persist
<1>1. hd[c].closed > 0 /\ hd[c].waiting # <<>> BY <1>0, SaidIs
<1> DEFINE stored == [Paired(hd[c]) EXCEPT !.wrote = TRUE]
           h == CASE At(c, "vad_pair") -> [stored EXCEPT !.at = "asr"]
                  [] At(c, "asr_pair") -> [stored EXCEPT !.at = "ack"]
                  [] OTHER -> Finished(stored)
<1>2. /\ Paired(hd[c]) \in Handlers
      /\ Paired(hd[c]).fed = hd[c].fed /\ Paired(hd[c]).heard = hd[c].heard
      /\ Paired(hd[c]).waiting = Tail(hd[c].waiting)
      /\ Paired(hd[c]).cur = hd[c].cur /\ Paired(hd[c]).todo = hd[c].todo
      /\ Paired(hd[c]).reason = hd[c].reason
  BY <1>0, <1>1, PairedIs
<1>3. /\ stored \in Handlers /\ stored.fed = hd[c].fed /\ stored.heard = hd[c].heard
      /\ stored.waiting = Tail(hd[c].waiting) /\ stored.cur = hd[c].cur
      /\ stored.todo = hd[c].todo /\ stored.reason = hd[c].reason
  BY <1>2 DEF Handlers
<1> HIDE DEF stored
<1>4. PICK next \in Sent(c, h, Thrown(stored)) :
        /\ Becomes(c, next)
        /\ missed' = missed \cup Late(c)
                       \cup IF At(c, "vad_pair") /\ next = Thrown(stored) THEN {hd[c].cur} ELSE {}
  BY DEF Persist, stored
<1>5. hd'[c] = next BY <1>4, BecomesIs
<1>6. CASE next = Thrown(stored)
  <2>1. /\ Keeps(stored, next) /\ next.at \in {"raised", "close", "drain"}
        /\ next.at = "drain" => next.reason # "none"
        /\ next.cur \in {stored.cur, 0} /\ next.todo \subseteq stored.todo
        /\ next.reason = stored.reason \/ (stored.reason = "none" /\ next.reason = "error")
    BY <1>3, <1>6, ThrownIs
  <2>2. missed' = missed \cup Late(c) \cup IF hd[c].at = "vad_pair" THEN {hd[c].cur} ELSE {}
    BY <1>4, <1>6 DEF At
  <2> QED BY <1>0, <1>3, <1>5, <2>1, <2>2 DEF Keeps
<1>7. CASE next # Thrown(stored)
  <2>1. next = h /\ missed' = missed \cup Late(c) BY <1>4, <1>7 DEF Sent
  <2>2. CASE hd[c].at = "vad_pair"
    <3>1. next = [stored EXCEPT !.at = "asr"] BY <2>1, <2>2 DEF At
    <3>2. /\ next.fed = stored.fed /\ next.heard = stored.heard /\ next.at = "asr"
          /\ next.waiting = stored.waiting /\ next.cur = stored.cur
          /\ next.todo = stored.todo /\ next.reason = stored.reason
      BY <1>3, <3>1 DEF Handlers
    <3> QED BY <1>0, <1>3, <1>5, <2>1, <2>2, <3>2
  <2>3. CASE hd[c].at = "asr_pair"
    <3>1. next = [stored EXCEPT !.at = "ack"] BY <2>1, <2>3 DEF At
    <3>2. /\ next.fed = stored.fed /\ next.heard = stored.heard /\ next.at = "ack"
          /\ next.waiting = stored.waiting /\ next.cur = stored.cur
          /\ next.todo = stored.todo /\ next.reason = stored.reason
      BY <1>3, <3>1 DEF Handlers
    <3> QED BY <1>0, <1>3, <1>5, <2>1, <2>3, <3>2
  <2>4. CASE hd[c].at = "final_pair"
    <3>1. next = Finished(stored) BY <2>1, <2>4 DEF At
    <3>2. /\ next.fed = stored.fed /\ next.heard = stored.heard /\ next.at \in {"drain", "close"}
          /\ next.waiting = stored.waiting /\ next.cur = stored.cur /\ next.todo = stored.todo
          /\ next.reason = (IF stored.reason = "none" THEN "normal" ELSE stored.reason)
      BY <1>3, <3>1, FinishedIs DEF Keeps
    <3> QED BY <1>0, <1>3, <1>5, <2>1, <2>4, <3>2
  <2> QED BY <1>0, <2>2, <2>3, <2>4 DEF Pairing
<1> QED BY <1>6, <1>7

(* A sentence cannot be stored.                                            *)
LEMMA PersistFailsIs ==
  ASSUME Typed, NEW c \in Conns, PersistFails(c)
  PROVE  /\ hd[c].at \in Pairing
         /\ hd'[c].fed = hd[c].fed /\ hd'[c].heard = hd[c].heard
         /\ hd'[c].waiting = Tail(hd[c].waiting)
         /\ hd'[c].at \in {"drain", "close"} /\ hd'[c].cur = 0 /\ hd'[c].todo = {}
         /\ hd'[c].reason = (IF hd[c].reason = "none" THEN "error" ELSE hd[c].reason)
<1>0. hd[c] \in Handlers /\ hd[c].at \in Pairing BY TypesAt DEF PersistFails
<1>1. hd[c].closed > 0 /\ hd[c].waiting # <<>> BY <1>0, SaidIs
<1> DEFINE h == Draining(Paired(hd[c]))
<1>2. /\ Paired(hd[c]) \in Handlers
      /\ Paired(hd[c]).fed = hd[c].fed /\ Paired(hd[c]).heard = hd[c].heard
      /\ Paired(hd[c]).waiting = Tail(hd[c].waiting)
      /\ Paired(hd[c]).reason = hd[c].reason
  BY <1>0, <1>1, PairedIs
<1>3. /\ h \in Handlers /\ h.fed = hd[c].fed /\ h.heard = hd[c].heard /\ h.at = "drain"
      /\ h.waiting = Tail(hd[c].waiting) /\ h.cur = 0 /\ h.todo = {}
      /\ h.reason = (IF hd[c].reason = "none" THEN "error" ELSE hd[c].reason)
  BY <1>2, DrainingIs DEF Keeps, Orderly
<1> HIDE DEF h
<1>4. h.reason # "none" BY <1>0, <1>3 DEF Handlers
<1>5. hd'[c] = h \/ hd'[c] = Finished(h)
  BY BecomesIs DEF PersistFails, h
<1>6. CASE hd'[c] = h BY <1>0, <1>3, <1>6
<1>7. CASE hd'[c] = Finished(h)
  BY <1>0, <1>3, <1>4, <1>7, FinishedIs DEF Keeps
<1> QED BY <1>5, <1>6, <1>7

(* The end of what was heard.                                              *)
LEMMA FinalizeIs ==
  ASSUME Typed, NEW c \in Conns, ReceiveFinalize(c) \/ Drain(c)
  PROVE  /\ ReceiveFinalize(c) => hd[c].at = "loop"
         /\ Drain(c) => hd[c].at = "drain"
         /\ hd'[c].at \in {"final_pair", "drain", "close"}
         /\ hd'[c].fed = hd[c].fed /\ hd'[c].cur = hd[c].cur
         /\ hd'[c].todo = hd[c].todo
         /\ \/ hd'[c].waiting = hd[c].waiting /\ hd'[c].heard = hd[c].heard
            \/ \E text \in Words(hd[c].heard) :
                 /\ text = {} => hd[c].fed # {}
                 /\ hd'[c].heard = hd[c].heard \ text
                 /\ hd'[c].waiting = Append(hd[c].waiting, LastWord(hd[c], text))
         /\ \/ hd'[c].at = "final_pair" /\ hd'[c].reason = hd[c].reason
            \/ /\ hd'[c].at \in {"drain", "close"}
               /\ hd'[c].reason = (IF hd[c].reason = "none" THEN "normal" ELSE hd[c].reason)
<1>0. hd[c] \in Handlers BY TypesAt
<1>1. PICK h \in {[hd[c] EXCEPT !.replaying = FALSE], [hd[c] EXCEPT !.draining = TRUE]} :
        \E next : /\ next = Finished(h) \/ next \in Finalizing(h) \cup Leftover(h)
                  /\ Becomes(c, next)
                  /\ hd[c].at \in {"loop", "drain"}
                  /\ ReceiveFinalize(c) => hd[c].at = "loop"
                  /\ Drain(c) => hd[c].at = "drain"
  BY DEF ReceiveFinalize, Drain, At
<1>2. PICK next : /\ next = Finished(h) \/ next \in Finalizing(h) \cup Leftover(h)
                  /\ Becomes(c, next)
                  /\ hd[c].at \in {"loop", "drain"}
                  /\ ReceiveFinalize(c) => hd[c].at = "loop"
                  /\ Drain(c) => hd[c].at = "drain"
  BY <1>1
<1>3. /\ h \in Handlers /\ Keeps(hd[c], h) /\ h.cur = hd[c].cur /\ h.reason = hd[c].reason
      /\ h.todo = hd[c].todo
  BY <1>0 DEF Handlers, Keeps
<1>4. \A text : LastWord(h, text) = LastWord(hd[c], text) BY <1>3 DEF LastWord, LastSeq, Keeps
<1>5. hd'[c] = next BY <1>2, BecomesIs
<1>6. CASE next = Finished(h)
  BY <1>2, <1>3, <1>5, <1>6, FinishedIs DEF Keeps
<1>7. CASE next \in Finalizing(h) \cup Leftover(h)
  <2>1. /\ next.fed = h.fed /\ next.cur = h.cur /\ next.todo = h.todo
        /\ \/ next.waiting = h.waiting /\ next.heard = h.heard
           \/ \E text \in Words(h.heard) :
                /\ text = {} => h.fed # {}
                /\ next.heard = h.heard \ text
                /\ next.waiting = Append(h.waiting, LastWord(h, text))
        /\ \/ next.at = "final_pair" /\ next.reason = h.reason
           \/ /\ next.at \in {"drain", "close"}
              /\ next.reason = (IF h.reason = "none" THEN "normal" ELSE h.reason)
    BY <1>3, <1>7, FinalizingIs
  <2> QED BY <1>2, <1>3, <1>4, <1>5, <2>1 DEF Keeps
<1> QED BY <1>2, <1>6, <1>7

-----------------------------------------------------------------------------
(* The lease.                                                              *)

(* Only the newest epoch can hold the lease or have been closed; a row is  *)
(* what the handler that is about to reserve or activate it believes it to *)
(* be; and nobody knows a token that has not been handed out.              *)
Lease ==
  /\ \A c \in Conns : row[c].status \in Live \cup {"CLOSED"} => c = latest
  /\ \A c \in Conns : At(c, "reserve") => row[c].status = "none"
  /\ \A c \in Conns : At(c, "acquire") => row[c].status = "RESERVING"
  /\ \A c \in Conns : c > panel.line => row[c].status = "none"
  /\ latest <= panel.line /\ panel.token <= panel.line
  /\ \A d \in Conns : line[d].token <= panel.line
  /\ latest # 0 => row[latest].status # "none"

Secret ==
  \A c \in Conns :
    hd[c].at \in {"reserve", "acquire", "open"} =>
      panel.token # c /\ \A d \in Conns : line[d].token # c

Leases == Typed /\ Lease /\ Secret

(* What a handler does to the rows, unless it reserves its own.            *)
LEMMA RowMoves ==
  ASSUME Typed, NEW c \in Conns, HandlerStep(c), ~Reserve(c)
  PROVE  /\ latest' = latest
         /\ \A d \in Conns : d # c => row'[d] = row[d]
         /\ \/ row'[c].status = row[c].status
            \/ hd[c].at = "acquire" /\ row'[c].status \in RowStates \ {"none", "CLOSED"}
               /\ (row'[c].status \in Live => row[c].status = "RESERVING")
            \/ row[c].status \in {"ACTIVE", "DRAINING"} /\ row'[c].status \in RowStates \ {"none"}
<1>0. row \in [Conns -> [status : RowStates, ack : 0..Frames]] BY DEF Typed, OthersOK
<1>1. CASE UNCHANGED <<row, latest>> BY <1>0, <1>1
<1>2. CASE Activate(c) BY <1>0, <1>2 DEF Activate, At, RowStates, Live
<1>3. CASE ActivateFails(c) BY <1>0, <1>3 DEF ActivateFails, At, RowStates, Live
<1>4. CASE Stage(c) \/ Persist(c)
  <2>1. PICK n : Acked(c, n) BY <1>4 DEF Stage, Persist
  <2>2. latest' = latest BY <1>4 DEF Stage, Persist
  <2> QED BY <1>0, <2>1, <2>2 DEF Acked
<1>5. CASE Drain(c) BY <1>0, <1>5 DEF Drain, RowStates, Live
<1>6. CASE Close(c) BY <1>0, <1>6 DEF Close, RowStates, Live
<1>7. CASE CloseFails(c)
  <2>1. latest' = latest BY <1>7 DEF CloseFails
  <2>2. row' = row \/ (row' = [row EXCEPT ![c].status = "COMMITTING"] /\ row[c].status = "DRAINING")
    BY <1>7 DEF CloseFails
  <2> QED BY <1>0, <2>1, <2>2 DEF RowStates, Live
<1>8. UNCHANGED <<row, latest>> \/ Activate(c) \/ ActivateFails(c) \/ Stage(c) \/ Persist(c)
      \/ Drain(c) \/ Close(c) \/ CloseFails(c)
  BY DEF HandlerStep, TurnAway, Open, Replay, ReplayFails, Strand, StageFails, Hear, HearFails,
         Ack, PersistFails, ReceiveFinalize, Disconnect
<1> QED BY <1>1, <1>2, <1>3, <1>4, <1>5, <1>6, <1>7, <1>8

(* A connection keeps its token, or is gone.                               *)
LEMMA LineMoves ==
  ASSUME Typed, NEW c \in Conns, HandlerStep(c)
  PROVE  /\ \A d \in Conns : d # c => line'[d] = line[d]
         /\ line'[c].token \in {line[c].token, 0}
<1>0. line \in [Conns -> [state : {"none", "up", "dead"}, token : 0..Lines,
                          next : 1..Frames + 1, sent : 0..Frames, stop : BOOLEAN]]
  BY DEF Typed, OthersOK
<1>1. CASE UNCHANGED line BY <1>1
<1>2. CASE Hangup(c) BY <1>0, <1>2 DEF Hangup, NoLine
<1>3. CASE Open(c) BY <1>0, <1>3 DEF Open
<1>4. CASE Stage(c) \/ StageFails(c)
  <2>1. line' = [line EXCEPT ![c] = Taken(c)]
        \/ line' = [line EXCEPT ![c] = [Taken(c) EXCEPT !.state = "dead"]]
    BY <1>4 DEF Stage, StageFails
  <2>2. Taken(c).token = line[c].token /\ [Taken(c) EXCEPT !.state = "dead"].token = line[c].token
    BY <1>0 DEF Taken
  <2> QED BY <1>0, <2>1, <2>2
<1>5. UNCHANGED line \/ Hangup(c) \/ Open(c) \/ Stage(c) \/ StageFails(c)
  BY DEF HandlerStep, Reserve, TurnAway, Activate, ActivateFails, Replay, ReplayFails, Strand,
         Hear, HearFails, Ack, Persist, PersistFails, ReceiveFinalize, Disconnect, Drain,
         Close, CloseFails, Ended
<1> QED BY <1>1, <1>2, <1>3, <1>4, <1>5

(* A session gets on by its own steps only.                                *)
LEMMA AtMoves ==
  ASSUME Typed, NEW c \in Conns, HandlerStep(c)
  PROVE  /\ hd'[c].at # "reserve"
         /\ hd'[c].at = "acquire" => Reserve(c)
         /\ hd'[c].at = "open" => Activate(c)
         /\ hd'[c].at = "replay" => Open(c)
         /\ hd[c].at \in {"reserve", "acquire", "open"} =>
              Reserve(c) \/ TurnAway(c) \/ Activate(c) \/ ActivateFails(c) \/ Open(c)
<1>1. CASE Reserve(c) \/ Activate(c) \/ Open(c) \/ Replay(c) BY <1>1, OpeningIs
<1>2. CASE TurnAway(c) \/ ActivateFails(c) \/ Strand(c) \/ Close(c) \/ CloseFails(c)
  BY <1>2, OverIs DEF TurnAway, ActivateFails, Strand, Close, CloseFails, At
<1>3. CASE ReplayFails(c) \/ Ack(c) \/ StageFails(c) \/ Disconnect(c)
  BY <1>3, ThrowingIs DEF ThrownFrom
<1>4. CASE Stage(c) BY <1>4, StageIs
<1>5. CASE Hear(c) \/ HearFails(c) BY <1>5, HeardIs
<1>6. CASE Persist(c) BY <1>6, PersistIs DEF Pairing
<1>7. CASE PersistFails(c) BY <1>7, PersistFailsIs DEF Pairing
<1>8. CASE ReceiveFinalize(c) \/ Drain(c) BY <1>8, FinalizeIs
<1> QED BY <1>1, <1>2, <1>3, <1>4, <1>5, <1>6, <1>7, <1>8 DEF HandlerStep

(* A handler at work belongs to a connection that has been opened.         *)
LEMMA AtWork ==
  ASSUME Typed, NEW c \in Conns, hd[c].at # "off"
  PROVE  c <= panel.line /\ c \in Nat \ {0} /\ panel.line \in Nat
<1>1. c \in Nat \ {0} /\ panel.line \in Nat BY StreamConstants DEF Typed, OthersOK, Conns
<1>2. ~(c > panel.line)
  <2> SUFFICES ASSUME c > panel.line PROVE FALSE OBVIOUS
  <2>1. hd[c] = Fresh("off") BY DEF Typed, Unopened
  <2> QED BY <2>1 DEF Fresh
<1> QED BY <1>1, <1>2

(* The reservation takes the lease away from whoever had it.               *)
LEMMA ReserveLease ==
  ASSUME Leases, NEW c \in Conns, Reserve(c)
  PROVE  /\ latest' = c /\ c # latest /\ row'[c].status = "RESERVING"
         /\ latest \in Conns => row[latest].status # "CLOSED"
         /\ \A d \in Conns : d # c =>
              /\ row'[d].status \notin Live \cup {"CLOSED"}
              /\ row'[d].ack = row[d].ack
              /\ row'[d].status = "none" <=> row[d].status = "none"
              /\ hd[d].at # "acquire"
<1>0. /\ row \in [Conns -> [status : RowStates, ack : 0..Frames]]
      /\ latest \in 0..Lines /\ Conns = 1..Lines /\ Lines \in Nat
  BY StreamConstants DEF Leases, Typed, OthersOK, Conns
<1>1. row[c].status = "none" /\ hd[c].at = "reserve" BY DEF Reserve, At, Leases, Lease
<1>2. latest # 0 => latest \in Conns /\ row[latest].status # "none" /\ row[latest].status # "CLOSED"
                    /\ (Preempts => line[c].token = latest)
  BY <1>0 DEF Reserve, MayReserve, Leases, Lease
<1>3. /\ latest' = c
      /\ row' = [n \in Conns |->
                   IF n = c THEN [status |-> "RESERVING", ack |-> Largest(Staged \cup {0})]
                   ELSE IF n = latest /\ Preempts THEN [row[n] EXCEPT !.status = "INCOMPLETE"]
                   ELSE row[n]]
  BY DEF Reserve
<1>4. latest \in Conns => latest # 0 BY <1>0
<1>5. ASSUME NEW d \in Conns, d # c
      PROVE  /\ row'[d].status \notin Live \cup {"CLOSED"}
             /\ row'[d].ack = row[d].ack
             /\ row'[d].status = "none" <=> row[d].status = "none"
             /\ hd[d].at # "acquire"
  <2>1. CASE d = latest /\ Preempts
    <3>1. row'[d] = [row[d] EXCEPT !.status = "INCOMPLETE"] BY <1>3, <1>5, <2>1
    <3>2. row'[d].status = "INCOMPLETE" /\ row'[d].ack = row[d].ack BY <1>0, <3>1
    <3>3. row[d].status # "none" BY <1>2, <1>4, <2>1
    <3>4. line[c].token = d BY <1>2, <1>4, <2>1
    <3>5. hd[d].at # "acquire" BY <3>4 DEF Leases, Secret
    <3> QED BY <3>2, <3>3, <3>5 DEF Live
  <2>2. CASE d = latest /\ ~Preempts
    <3>1. row'[d] = row[d] BY <1>3, <1>5, <2>2
    <3>2. row[d].status \notin Live /\ row[d].status # "CLOSED"
      BY <1>2, <1>4, <2>2 DEF Preempts, Leased
    <3>3. hd[d].at # "acquire" BY <3>2 DEF Live, Leases, Lease, At
    <3> QED BY <3>1, <3>2, <3>3
  <2>3. CASE d # latest
    <3>1. row'[d] = row[d] BY <1>3, <1>5, <2>3
    <3>2. row[d].status \notin Live \cup {"CLOSED"} BY <2>3 DEF Leases, Lease
    <3>3. hd[d].at # "acquire" BY <3>2 DEF Live, Leases, Lease, At
    <3> QED BY <3>1, <3>2, <3>3
  <2> QED BY <2>1, <2>2, <2>3
<1> QED BY <1>1, <1>2, <1>3, <1>4, <1>5

(* The rows, after a step of a handler.                                    *)
LEMMA HandlerLease ==
  ASSUME Leases, NEW c \in Conns, HandlerStep(c)
  PROVE  Lease'
<1>0. /\ Typed /\ Lease /\ Typed' /\ panel'.line = panel.line
      /\ \A d \in Conns : d # c => hd'[d] = hd[d]
      /\ Lines \in Nat /\ Conns = 1..Lines /\ latest \in 0..Lines /\ panel.line \in 0..Lines
      /\ c <= panel.line
  <2>1. Typed /\ Lease /\ Typed' BY HandlerTyped DEF Leases
  <2>2. panel'.line = panel.line BY <2>1, PanelHears DEF Typed, OthersOK
  <2>3. \A d \in Conns : d # c => hd'[d] = hd[d] BY <2>1, OnlyOne
  <2>4. c <= panel.line BY <2>1, PanelHears, AtWork
  <2>5. Lines \in Nat /\ Conns = 1..Lines /\ latest \in 0..Lines /\ panel.line \in 0..Lines
    BY <2>1, StreamConstants DEF Typed, OthersOK, Conns
  <2> QED BY <2>1, <2>2, <2>3, <2>4, <2>5
<1>1. panel'.token <= panel'.line
  <2>1. CASE Open(c)
    <3>1. panel'.token \in {panel.token, c} BY <1>0, <2>1 DEF Open, Typed, OthersOK
    <3> QED BY <1>0, <3>1 DEF Lease
  <2>2. CASE ~Open(c)
    <3>1. panel'.token = panel.token
      <4>1. CASE Stage(c) \/ Ack(c) \/ Close(c)
        BY <1>0, <4>1 DEF Stage, Ack, Close, Typed, OthersOK
      <4>2. CASE UNCHANGED panel BY <4>2
      <4>3. Stage(c) \/ Ack(c) \/ Close(c) \/ UNCHANGED panel
        BY <2>2 DEF HandlerStep, Reserve, TurnAway, Activate, ActivateFails, Replay, ReplayFails,
           Strand, StageFails, Hear, HearFails, Persist, PersistFails, ReceiveFinalize,
           Disconnect, Drain, CloseFails
      <4> QED BY <4>1, <4>2, <4>3
    <3> QED BY <1>0, <3>1 DEF Lease
  <2> QED BY <2>1, <2>2
<1>2. ASSUME NEW d \in Conns PROVE line'[d].token <= panel'.line
  <2>1. line'[d].token \in {line[d].token, 0} BY <1>0, LineMoves
  <2>2. line[d].token <= panel.line BY <1>0 DEF Lease
  <2> QED BY <1>0, <2>1, <2>2
<1>3. CASE Reserve(c)
  <2>1. /\ latest' = c /\ row'[c].status = "RESERVING"
        /\ \A d \in Conns : d # c =>
             /\ row'[d].status \notin Live \cup {"CLOSED"}
             /\ row'[d].status = "none" <=> row[d].status = "none"
             /\ hd[d].at # "acquire"
    BY <1>3, ReserveLease
  <2>2. hd'[c].at = "acquire" BY <1>0, <1>3, OpeningIs
  <2>3. ~(c > panel'.line) BY <1>0
  <2>4. ASSUME NEW d \in Conns
        PROVE  /\ row'[d].status \in Live \cup {"CLOSED"} => d = latest'
               /\ At(d, "reserve")' => row'[d].status = "none"
               /\ At(d, "acquire")' => row'[d].status = "RESERVING"
               /\ d > panel'.line => row'[d].status = "none"
    <3>1. CASE d = c BY <2>1, <2>2, <2>3, <3>1 DEF At
    <3>2. CASE d # c BY <1>0, <2>1, <3>2 DEF Lease, At
    <3> QED BY <3>1, <3>2
  <2> QED BY <1>0, <1>1, <1>2, <2>1, <2>4 DEF Lease
<1>4. CASE ~Reserve(c)
  <2>1. /\ latest' = latest
        /\ \A d \in Conns : d # c => row'[d] = row[d]
        /\ \/ row'[c].status = row[c].status
           \/ hd[c].at = "acquire" /\ row'[c].status \in RowStates \ {"none", "CLOSED"}
              /\ (row'[c].status \in Live => row[c].status = "RESERVING")
           \/ row[c].status \in {"ACTIVE", "DRAINING"} /\ row'[c].status \in RowStates \ {"none"}
    BY <1>0, <1>4, RowMoves
  <2>2. hd'[c].at \notin {"reserve", "acquire"} BY <1>0, <1>4, AtMoves
  <2>3. ~(c > panel'.line) BY <1>0
  <2>4. row[c].status \in Live => c = latest BY <1>0 DEF Lease
  <2>5. row'[c].status \in Live \cup {"CLOSED"} => c = latest
    BY <1>0, <2>1, <2>4 DEF Lease, Live
  <2>6. ASSUME NEW d \in Conns
        PROVE  /\ row'[d].status \in Live \cup {"CLOSED"} => d = latest'
               /\ At(d, "reserve")' => row'[d].status = "none"
               /\ At(d, "acquire")' => row'[d].status = "RESERVING"
               /\ d > panel'.line => row'[d].status = "none"
    <3>1. CASE d = c BY <2>1, <2>2, <2>3, <2>5, <3>1 DEF At
    <3>2. CASE d # c BY <1>0, <2>1, <3>2 DEF Lease, At
    <3> QED BY <3>1, <3>2
  <2>7. latest' # 0 => row'[latest'].status # "none"
    <3> SUFFICES ASSUME latest # 0 PROVE row'[latest].status # "none" BY <2>1
    <3>1. latest \in Conns /\ row[latest].status # "none" BY <1>0 DEF Lease
    <3> QED BY <2>1, <3>1
  <2> QED BY <1>0, <1>1, <1>2, <2>1, <2>6, <2>7 DEF Lease
<1> QED BY <1>3, <1>4

(* The tokens, after a step of a handler.                                  *)
LEMMA HandlerSecret ==
  ASSUME Leases, NEW c \in Conns, HandlerStep(c)
  PROVE  Secret'
<1>0. /\ Typed /\ \A d \in Conns : d # c => hd'[d] = hd[d]
      /\ 0 \notin Conns
  <2>1. Typed BY DEF Leases
  <2> QED BY <2>1, OnlyOne, StreamConstants DEF Conns
<1> SUFFICES ASSUME NEW e \in Conns, hd'[e].at \in {"reserve", "acquire", "open"}
             PROVE  panel'.token # e /\ \A d \in Conns : line'[d].token # e
  BY DEF Secret
<1>1. hd[e].at \in {"reserve", "acquire", "open"}
  <2>1. CASE e = c BY <1>0, <2>1, AtMoves, OpeningIs
  <2>2. CASE e # c BY <1>0, <2>2
  <2> QED BY <2>1, <2>2
<1>2. panel.token # e /\ \A d \in Conns : line[d].token # e BY <1>1 DEF Leases, Secret
<1>3. ASSUME NEW d \in Conns PROVE line'[d].token # e
  <2>1. line'[d].token \in {line[d].token, 0} BY <1>0, LineMoves
  <2> QED BY <1>0, <1>2, <2>1
<1>4. panel'.token # e
  <2>1. CASE Open(c)
    <3>1. hd'[c].at \notin {"reserve", "acquire", "open"} BY <1>0, <2>1, OpeningIs
    <3>2. e # c BY <3>1
    <3>3. panel'.token \in {panel.token, c} BY <1>0, <2>1 DEF Open, Typed, OthersOK
    <3> QED BY <1>2, <3>2, <3>3
  <2>2. CASE Stage(c) \/ Ack(c) \/ Close(c)
    <3>1. panel'.token = panel.token
      BY <1>0, <2>2 DEF Stage, Ack, Close, Typed, OthersOK
    <3> QED BY <1>2, <3>1
  <2>3. CASE UNCHANGED panel BY <1>2, <2>3
  <2>4. Open(c) \/ Stage(c) \/ Ack(c) \/ Close(c) \/ UNCHANGED panel
    BY DEF HandlerStep, Reserve, TurnAway, Activate, ActivateFails, Replay, ReplayFails,
       Strand, StageFails, Hear, HearFails, Persist, PersistFails, ReceiveFinalize,
       Disconnect, Drain, CloseFails
  <2> QED BY <2>1, <2>2, <2>3, <2>4
<1> QED BY <1>3, <1>4

(* The panel opens a connection.                                           *)
LEMMA DialIs ==
  ASSUME Typed, Dial
  PROVE  LET c == panel.line + 1 IN
         /\ c \in Conns /\ ~(c <= panel.line) /\ panel.line \in Nat
         /\ panel' = [panel EXCEPT !.link = "opening", !.line = c]
         /\ panel'.line = c /\ panel'.link = "opening" /\ panel'.token = panel.token
         /\ panel'.acked = panel.acked /\ panel'.captured = panel.captured
         /\ panel'.ending = panel.ending /\ panel'.state = "live"
         /\ line'[c] = [NoLine EXCEPT !.state = "up", !.token = panel.token,
                                 !.next = panel.acked + 1, !.sent = panel.acked]
         /\ hd[c] = Fresh("off") /\ Same(hd[c], hd'[c]) /\ hd'[c].at = "reserve"
         /\ \A d \in Conns : d # c => line'[d] = line[d] /\ hd'[d] = hd[d]
<1> DEFINE c == panel.line + 1
<1>1. c \in Conns /\ ~(c <= panel.line) /\ c > panel.line /\ panel.line \in Nat
  BY StreamConstants DEF Dial, Going, Typed, OthersOK, Scheduled, Conns
<1>2. /\ panel' = [panel EXCEPT !.link = "opening", !.line = c] /\ panel.state = "live"
      /\ line' = [line EXCEPT ![c] = [NoLine EXCEPT !.state = "up", !.token = panel.token,
                                 !.next = panel.acked + 1, !.sent = panel.acked]]
      /\ hd' = [hd EXCEPT ![c] = [hd[c] EXCEPT !.at = "reserve"]]
  BY DEF Dial, Current, Goto, Becomes, Going
<1>3. hd[c] = Fresh("off") /\ hd[c] \in Handlers BY <1>1, TypesAt DEF Typed, Unopened
<1> HIDE DEF c
<1>4. /\ panel'.line = c /\ panel'.link = "opening" /\ panel'.token = panel.token
      /\ panel'.acked = panel.acked /\ panel'.captured = panel.captured
      /\ panel'.ending = panel.ending /\ panel'.state = "live"
  BY <1>2 DEF Typed, OthersOK
<1>5. /\ line'[c] = [NoLine EXCEPT !.state = "up", !.token = panel.token,
                              !.next = panel.acked + 1, !.sent = panel.acked]
      /\ \A d \in Conns : d # c => line'[d] = line[d]
  BY <1>1, <1>2 DEF Typed, OthersOK
<1>6. hd'[c] = [hd[c] EXCEPT !.at = "reserve"] /\ \A d \in Conns : d # c => hd'[d] = hd[d]
  BY <1>1, <1>2 DEF Typed, Sessions
<1>7. Same(hd[c], hd'[c]) /\ hd'[c].at = "reserve"
  BY <1>3, <1>6 DEF Same, Keeps, Handlers
<1> QED BY <1>1, <1>2, <1>3, <1>4, <1>5, <1>6, <1>7 DEF c

(* Nothing else the panel does touches rows, sessions or tokens.           *)
LEMMA ClientIs ==
  ASSUME Typed, Client, ~Dial
  PROVE  /\ UNCHANGED <<hd, row, latest, frame, segments, run, pool, missed, troubles>>
         /\ panel'.line = panel.line /\ panel'.token = panel.token /\ panel'.acked = panel.acked
         /\ \A d \in Conns : /\ line'[d].token = line[d].token /\ line'[d].next = line[d].next
                             /\ line'[d].state \in {line[d].state, "dead"}
                             /\ d # panel.line => line'[d] = line[d]
<1>0. line \in [Conns -> [state : {"none", "up", "dead"}, token : 0..Lines,
                          next : 1..Frames + 1, sent : 0..Frames, stop : BOOLEAN]]
  BY DEF Typed, OthersOK
<1>1. CASE NoToken BY <1>1 DEF NoToken, Failed, Served, Typed, OthersOK
<1>2. CASE Capture
  <2>1. /\ panel'.line = panel.line /\ panel'.token = panel.token /\ panel'.acked = panel.acked
    BY <1>2 DEF Capture, Typed, OthersOK
  <2>2. line' = line \/ line' = [line EXCEPT ![panel.line].sent = panel.captured + 1]
    BY <1>2 DEF Capture, Current
  <2> QED BY <1>0, <1>2, <2>1, <2>2 DEF Capture, Served
<1>3. CASE Overflow
  <2>1. /\ panel'.line = panel.line /\ panel'.token = panel.token /\ panel'.acked = panel.acked
    BY <1>3 DEF Overflow, Failed, Typed, OthersOK
  <2>2. line' = line \/ line' = [line EXCEPT ![panel.line].state = "dead"]
    BY <1>3 DEF Overflow, Current
  <2> QED BY <1>0, <1>3, <2>1, <2>2 DEF Overflow, Served
<1>4. CASE Stop
  <2> DEFINE p == [panel EXCEPT !.ending = TRUE]
  <2>1. /\ p \in [state : {"live", "committed", "failed"}, link : Links, line : 0..Lines,
                  token : 0..Lines, captured : 0..Frames, acked : 0..Frames, ending : BOOLEAN]
        /\ p.line = panel.line /\ p.token = panel.token /\ p.acked = panel.acked
    BY DEF Typed, OthersOK
  <2>2. panel' = p \/ panel' = Reconnecting(p) BY <1>4 DEF Stop
  <2> HIDE DEF p
  <2>3. /\ panel'.line = panel.line /\ panel'.token = panel.token /\ panel'.acked = panel.acked
    BY <2>1, <2>2, ReconnectingIs
  <2>4. line' = line \/ line' = [line EXCEPT ![panel.line].state = "dead"]
        \/ line' = [line EXCEPT ![panel.line].stop = TRUE]
    BY <1>4 DEF Stop, Current
  <2>5. \A d \in Conns : line'[d].token = line[d].token /\ line'[d].next = line[d].next
                         /\ (d # panel.line => line'[d] = line[d])
    BY <1>0, <2>4
  <2>6. UNCHANGED <<hd, row, latest, frame, segments, run, pool, missed, troubles>>
    BY <1>4 DEF Stop, Served
  <2> QED BY <1>0, <2>3, <2>4, <2>5, <2>6
<1>5. CASE Notice
  <2>1. /\ panel'.line = panel.line /\ panel'.token = panel.token /\ panel'.acked = panel.acked
    BY <1>5, ReconnectingIs DEF Notice, Typed, OthersOK
  <2> QED BY <1>5, <2>1 DEF Notice, Served
<1> QED BY <1>1, <1>2, <1>3, <1>4, <1>5 DEF Client

(* The lease and the tokens are kept by every step.                        *)
LEMMA NextLease == Leases /\ [Next]_vars => Leases'
<1> SUFFICES ASSUME Leases, [Next]_vars PROVE Leases' OBVIOUS
<1>0. Typed' /\ Typed /\ Lease /\ Secret BY NextTyped DEF Leases
<1>1. CASE UNCHANGED vars
  BY <1>0, <1>1 DEF vars, Leases, Lease, Secret, At
<1>2. ASSUME NEW c \in Conns, HandlerStep(c) PROVE Leases'
  BY <1>0, <1>2, HandlerLease, HandlerSecret DEF Leases
<1>3. CASE Dial
  <2> DEFINE c == panel.line + 1
  <2>1. /\ c \in Conns /\ c > panel.line /\ panel.line \in Nat /\ panel'.line = c
        /\ panel'.token = panel.token
        /\ line'[c] = [NoLine EXCEPT !.state = "up", !.token = panel.token,
                                 !.next = panel.acked + 1, !.sent = panel.acked]
        /\ hd[c] = Fresh("off") /\ hd'[c].at = "reserve"
        /\ \A d \in Conns : d # c => line'[d] = line[d] /\ hd'[d] = hd[d]
    BY <1>0, <1>3, DialIs
  <2>2. UNCHANGED <<row, latest>> BY <1>3 DEF Dial, Served
  <2> HIDE DEF c
  <2>3. line'[c].token = panel.token BY <2>1 DEF NoLine
  <2>4. /\ latest \in Int /\ panel.token \in Int /\ c \in Int
        /\ \A d \in Conns : d \in Int /\ line[d].token \in Int
    BY <1>0, <2>1, StreamConstants DEF Typed, OthersOK, Conns
  <2>5. Lease'
    <3>1. ASSUME NEW d \in Conns
          PROVE  /\ row'[d].status \in Live \cup {"CLOSED"} => d = latest'
                 /\ At(d, "reserve")' => row'[d].status = "none"
                 /\ At(d, "acquire")' => row'[d].status = "RESERVING"
                 /\ d > panel'.line => row'[d].status = "none"
                 /\ line'[d].token <= panel'.line
      <4>1. CASE d = c
        <5>1. row'[c].status = "none" BY <1>0, <2>1, <2>2 DEF Lease
        <5>2. panel.token <= c BY <1>0, <2>1, <2>4 DEF Lease
        <5>3. hd'[c].at = "reserve" /\ panel'.line = c /\ line'[c].token = panel.token
          BY <2>1, <2>3
        <5> QED BY <4>1, <5>1, <5>2, <5>3 DEF Live, At
      <4>2. CASE d # c
        <5>1. d > c => d > panel.line BY <2>1, <2>4
        <5>2. line[d].token <= panel.line BY <1>0 DEF Lease
        <5>3. line[d].token <= c BY <2>1, <2>4, <5>2
        <5> QED BY <1>0, <2>1, <2>2, <4>2, <5>1, <5>3 DEF Lease, At
      <4> QED BY <4>1, <4>2
    <3>2. latest' <= panel'.line /\ panel'.token <= panel'.line
      BY <1>0, <2>1, <2>2, <2>4 DEF Lease
    <3>3. latest' # 0 => row'[latest'].status # "none" BY <1>0, <2>2 DEF Lease
    <3> QED BY <3>1, <3>2, <3>3 DEF Lease
  <2>6. Secret'
    <3> SUFFICES ASSUME NEW e \in Conns, hd'[e].at \in {"reserve", "acquire", "open"}
                 PROVE  panel'.token # e /\ \A d \in Conns : line'[d].token # e
      BY DEF Secret
    <3>1. panel.token # e /\ \A d \in Conns : line[d].token # e
      <4>1. CASE e = c
        <5>1. panel.token # c BY <1>0, <2>1, <2>4 DEF Lease
        <5>2. ASSUME NEW d \in Conns PROVE line[d].token # c
          BY <1>0, <2>1, <2>4 DEF Lease
        <5> QED BY <4>1, <5>1, <5>2
      <4>2. CASE e # c BY <1>0, <2>1, <4>2 DEF Secret
      <4> QED BY <4>1, <4>2
    <3> QED BY <2>1, <2>3, <3>1
  <2> QED BY <1>0, <2>5, <2>6 DEF Leases
<1>4. CASE Client /\ ~Dial
  <2>1. /\ UNCHANGED <<hd, row, latest>>
        /\ panel'.line = panel.line /\ panel'.token = panel.token
        /\ \A d \in Conns : line'[d].token = line[d].token
    BY <1>0, <1>4, ClientIs
  <2>2. Lease' /\ Secret' BY <1>0, <2>1 DEF Lease, Secret, At
  <2> QED BY <1>0, <2>2 DEF Leases
<1>5. CASE Crash
  <2>1. /\ UNCHANGED <<row, latest, panel>> /\ hd' = [c \in Conns |-> Fresh("off")]
        /\ line' = [c \in Conns |-> IF line[c].state = "none" THEN NoLine
                                    ELSE [NoLine EXCEPT !.state = "dead"]]
    BY <1>5 DEF Crash
  <2>2. \A d \in Conns : hd'[d].at = "off" /\ line'[d].token = 0
    BY <2>1 DEF Fresh, NoLine
  <2>3. 0 <= panel.line /\ 0 \notin Conns BY <1>0, StreamConstants DEF Typed, OthersOK, Conns
  <2>4. Lease' BY <1>0, <2>1, <2>2, <2>3 DEF Lease, At
  <2>5. Secret' BY <2>2 DEF Secret
  <2> QED BY <1>0, <2>4, <2>5 DEF Leases
<1>6. ASSUME NEW c \in Conns, Break(c) PROVE Leases'
  <2>1. /\ UNCHANGED <<row, latest, panel, hd>>
        /\ \A d \in Conns : line'[d].token = line[d].token
    BY <1>0, <1>6 DEF Break, Served, Typed, OthersOK
  <2>2. Lease' /\ Secret' BY <1>0, <2>1 DEF Lease, Secret, At
  <2> QED BY <1>0, <2>2 DEF Leases
<1>7. CASE Batch
  <2>1. UNCHANGED <<row, latest, panel, hd, line>> BY <1>7 DEF Batch
  <2>2. Lease' /\ Secret' BY <1>0, <2>1 DEF Lease, Secret, At
  <2> QED BY <1>0, <2>2 DEF Leases
<1> QED BY <1>1, <1>2, <1>3, <1>4, <1>5, <1>6, <1>7 DEF Next

(* The lease holds always.                                                 *)
LEMMA AlwaysLeased == Spec => []Leases
<1>1. Init => Leases
  <2> SUFFICES ASSUME Init PROVE Leases OBVIOUS
  <2>1. Typed BY InitTyped
  <2>2. Lease /\ Secret BY StreamConstants DEF Init, Lease, Secret, Fresh, NoLine, At, Conns, Live
  <2> QED BY <2>1, <2>2 DEF Leases
<1> QED BY <1>1, NextLease, PTL DEF Spec

(* A capture that has been closed has been handed on, or its run was ended *)
(* before.                                                                 *)
HandedOver == Closed => run \in {"projections", "partial", "over"}

(* Once the capture has been closed, no step moves a frame, a sentence or  *)
(* the run: the closed row is the newest, and a step that moves one needs  *)
(* the lease of the newest, or a run that has not been handed on.          *)
LEMMA ClosedStays ==
  ASSUME Leases, HandedOver, Next, Closed
  PROVE  UNCHANGED <<frame, segments, run>>
<1>1. PICK e \in Conns : row[e].status = "CLOSED" BY DEF Closed
<1>2. latest = e /\ e # 0 BY <1>1, StreamConstants DEF Leases, Lease, Conns
<1>3. ASSUME NEW c \in Conns, row[c].status \in Live PROVE FALSE
  <2>1. c = latest BY <1>3 DEF Leases, Lease
  <2> QED BY <1>1, <1>2, <1>3, <2>1 DEF Live
<1>4. ASSUME NEW c \in Conns, HandlerStep(c) PROVE UNCHANGED <<frame, segments, run>>
  <2>1. ~Reserve(c) BY <1>1, <1>2 DEF Reserve, MayReserve
  <2>2. ~Stage(c) BY <1>3 DEF Stage, Live
  <2>3. ~Persist(c) BY <1>3 DEF Persist, MayPersist, Live
  <2>4. ~Close(c) BY <1>3 DEF Close, Live
  <2>5. ~ActivateFails(c)
    <3>1. ASSUME ActivateFails(c) PROVE FALSE
      <4>1. row[c].status = "RESERVING" BY <3>1 DEF ActivateFails, Leases, Lease
      <4> QED BY <1>3, <4>1 DEF Live
    <3> QED BY <3>1
  <2> QED BY <1>4, <2>1, <2>2, <2>3, <2>4, <2>5
          DEF HandlerStep, TurnAway, Activate, Open, Replay, ReplayFails, Strand, StageFails,
              Hear, HearFails, Ack, PersistFails, ReceiveFinalize, Disconnect, Drain, CloseFails
<1>5. CASE Client
  BY <1>5 DEF Client, Dial, NoToken, Capture, Overflow, Stop, Notice, Served
<1>6. CASE Crash BY <1>6 DEF Crash
<1>7. ASSUME NEW c \in Conns, Break(c) PROVE UNCHANGED <<frame, segments, run>>
  BY <1>7 DEF Break, Served
<1>8. ~Batch BY DEF Batch, HandedOver
<1> QED BY <1>4, <1>5, <1>6, <1>7, <1>8 DEF Next

(* Only Close closes.                                                      *)
LEMMA OnlyCloseCloses ==
  ASSUME Typed, NEW c \in Conns, HandlerStep(c), NEW d \in Conns,
         row'[d].status = "CLOSED", row[d].status # "CLOSED"
  PROVE  Close(c) /\ hd[c].reason = "normal"
<1>0. row \in [Conns -> [status : RowStates, ack : 0..Frames]] BY DEF Typed, OthersOK
<1>1. CASE UNCHANGED row BY <1>1
<1>2. CASE Reserve(c)
  <2>1. row'[d] = IF d = c THEN [status |-> "RESERVING", ack |-> Largest(Staged \cup {0})]
                  ELSE IF d = latest /\ Preempts THEN [row[d] EXCEPT !.status = "INCOMPLETE"]
                  ELSE row[d]
    BY <1>2 DEF Reserve
  <2> QED BY <1>0, <2>1
<1>3. CASE \E status \in {"ACTIVE", "FAILED", "DRAINING", "COMMITTING"} :
             row' = [row EXCEPT ![c].status = status]
  BY <1>0, <1>3
<1>4. CASE \E n : Acked(c, n) BY <1>0, <1>4 DEF Acked
<1>5. CASE Close(c)
  <2>1. row' = [row EXCEPT ![c] =
       [status |-> CASE hd[c].reason = "normal" -> "CLOSED" [] hd[c].reason = "error" -> "FAILED"
                     [] OTHER -> "INCOMPLETE",
        ack |-> LastSeq(hd[c])]]
    BY <1>5 DEF Close
  <2> QED BY <1>0, <1>5, <2>1
<1>6. \/ UNCHANGED row \/ Reserve(c) \/ Close(c) \/ \E n : Acked(c, n)
      \/ \E status \in {"ACTIVE", "FAILED", "DRAINING", "COMMITTING"} :
            row' = [row EXCEPT ![c].status = status]
  <2>1. CASE Activate(c) BY <2>1 DEF Activate
  <2>2. CASE ActivateFails(c) BY <2>2 DEF ActivateFails
  <2>3. CASE Stage(c) \/ Persist(c) BY <2>3 DEF Stage, Persist
  <2>4. CASE Drain(c) BY <2>4 DEF Drain
  <2>5. CASE CloseFails(c) BY <2>5 DEF CloseFails
  <2> QED BY <2>1, <2>2, <2>3, <2>4, <2>5
          DEF HandlerStep, TurnAway, Open, Replay, ReplayFails, Strand, StageFails, Hear, HearFails,
              Ack, PersistFails, ReceiveFinalize, Disconnect
<1> QED BY <1>1, <1>2, <1>3, <1>4, <1>5, <1>6

LEMMA NextHandedOver == Leases /\ HandedOver /\ [Next]_vars => HandedOver'
<1> SUFFICES ASSUME Leases, HandedOver, [Next]_vars PROVE HandedOver' OBVIOUS
<1>0. Typed BY DEF Leases
<1>1. CASE UNCHANGED vars BY <1>1 DEF vars, HandedOver, Closed
<1>2. CASE Next /\ Closed
  <2>1. run' = run BY <1>2, ClosedStays
  <2> QED BY <1>2, <2>1 DEF HandedOver
<1>3. CASE Next /\ ~Closed
  <2> SUFFICES ASSUME Closed' PROVE run' \in {"projections", "partial", "over"} BY DEF HandedOver
  <2>1. PICK d \in Conns : row'[d].status = "CLOSED" BY DEF Closed
  <2>2. row[d].status # "CLOSED" BY <1>3 DEF Closed
  <2>3. row' # row BY <2>1, <2>2
  <2>4. PICK c \in Conns : HandlerStep(c)
    BY <1>3, <2>3 DEF Next, Client, Dial, NoToken, Capture, Overflow, Stop, Notice, Served, Crash,
                      Batch, Break
  <2>5. Close(c) /\ hd[c].reason = "normal" BY <1>0, <2>1, <2>2, <2>4, OnlyCloseCloses
  <2> QED BY <2>5 DEF Close, Retryable
<1> QED BY <1>1, <1>2, <1>3

(* ClosedIsFinal: an abandoned handler cannot move a frame, a sentence or  *)
(* the run of a capture that has been closed.                              *)
THEOREM ClosedStaysFinal == Spec => ClosedIsFinal
<1>1. Leases /\ HandedOver /\ [Next]_vars => [Closed => UNCHANGED <<frame, segments, run>>]_vars
  BY ClosedStays DEF vars
<1>2. Init => HandedOver BY DEF Init, HandedOver, Closed
<1> QED BY <1>1, <1>2, NextHandedOver, AlwaysLeased, PTL DEF Spec, ClosedIsFinal

-----------------------------------------------------------------------------
(* What is staged.                                                         *)

Filled(frames, n) == \A g \in Seqs : g <= n => frames[g] # "none"

(* Frames are staged without a gap, since a connection goes on after what  *)
(* the panel has had acknowledged, and takes one frame after the other.    *)
Gapless ==
  /\ \A f \in Seqs : frame[f] # "none" => Filled(frame, f)
  /\ Filled(frame, panel.acked)
  /\ \A c \in Conns :
       /\ Filled(frame, hd[c].cur) /\ hd[c].fed \subseteq Staged /\ hd[c].todo \subseteq Staged
       /\ hd[c].at \in Loop \cup {"reserve", "acquire", "open", "replay"} =>
            Filled(frame, line[c].next - 1)

(* A handler that is to end, or has ended, with the reason "normal".       *)
Settled(c) ==
  \/ hd[c].reason = "normal"
  \/ hd[c].reason = "none" /\ hd[c].at \in {"final_pair", "drain"}

(* The panel sends all it has captured, and finalize only after that.      *)
Told ==
  /\ panel.link \in {"opening", "ready"} => panel.line # 0
  /\ panel.link = "ready" /\ Up(panel.line) => line[panel.line].sent = panel.captured
  /\ panel.line # 0 /\ line[panel.line].stop =>
       panel.ending /\ line[panel.line].sent = panel.captured

(* A connection whose handler ends normally has nothing more to say.       *)
Finalized ==
  /\ panel.line # 0 /\ Up(panel.line) /\ Settled(panel.line) =>
       panel.ending /\ Filled(frame, panel.captured)
  /\ panel.state = "committed" =>
       /\ panel.line # 0 /\ At(panel.line, "off")
       /\ row[panel.line].status = "CLOSED" => Filled(frame, panel.captured)

Stages == Leases /\ Gapless /\ Told /\ Finalized

(* What is staged stays.                                                   *)
LEMMA StagedGrows ==
  ASSUME Typed, NEW c \in Conns, HandlerStep(c)
  PROVE  /\ \A f \in Seqs : frame[f] # "none" => frame'[f] # "none"
         /\ Staged \subseteq Staged'
         /\ \A n : Filled(frame, n) => Filled(frame', n)
<1>1. \A f \in Seqs : frame[f] # "none" => frame'[f] # "none"
  <2>1. CASE Stage(c) BY <2>1 DEF Stage, Typed, OthersOK
  <2>2. CASE Persist(c) BY <2>2 DEF Persist, Consumed, Typed, OthersOK
  <2>3. CASE UNCHANGED frame BY <2>3
  <2>4. Stage(c) \/ Persist(c) \/ UNCHANGED frame
    BY DEF HandlerStep, Reserve, TurnAway, Activate, ActivateFails, Open, Replay, ReplayFails,
       Strand, StageFails, Hear, HearFails, Ack, PersistFails, ReceiveFinalize, Disconnect, Drain,
       Close, CloseFails
  <2> QED BY <2>1, <2>2, <2>3, <2>4
<1> QED BY <1>1 DEF Staged, Filled

(* What becomes of the connection.                                         *)
LEMMA LineIs ==
  ASSUME Typed, NEW c \in Conns, HandlerStep(c)
  PROVE  \/ line'[c] = line[c] /\ ~Stage(c) /\ ~StageFails(c) /\ ~(Open(c) /\ Hears(c))
         \/ hd'[c].at = "off" /\ ~Up(c)' /\ line'[c].stop = FALSE
         \/ /\ Open(c) /\ Hears(c) /\ line'[c].sent = panel.captured /\ line'[c].stop = panel.ending
            /\ line'[c].next = line[c].next /\ line'[c].state = line[c].state
            /\ panel' = [panel EXCEPT !.token = c, !.link = IF @ = "scheduled" THEN @ ELSE "ready"]
         \/ /\ Stage(c) \/ StageFails(c)
            /\ line'[c].next = Taken(c).next /\ line'[c].sent = line[c].sent
            /\ line'[c].stop = line[c].stop /\ line'[c].state \in {line[c].state, "dead"}
<1>0. line \in [Conns -> [state : {"none", "up", "dead"}, token : 0..Lines,
                          next : 1..Frames + 1, sent : 0..Frames, stop : BOOLEAN]]
  BY DEF Typed, OthersOK
<1>1. CASE TurnAway(c) \/ ActivateFails(c) \/ Strand(c) \/ Close(c) \/ CloseFails(c)
  <2>1. Hangup(c) BY <1>1 DEF TurnAway, ActivateFails, Strand, Close, CloseFails, Ended
  <2>2. line'[c] = [NoLine EXCEPT !.state = "dead"] BY <1>0, <2>1 DEF Hangup
  <2>3. line'[c].state = "dead" /\ line'[c].stop = FALSE BY <2>2 DEF NoLine
  <2>4. hd'[c].at = "off" BY <1>1, OverIs
  <2> QED BY <2>3, <2>4 DEF Up
<1>2. CASE Open(c)
  <2>1. CASE Hears(c)
    <3>1. /\ line' = [line EXCEPT ![c].sent = panel.captured, ![c].stop = panel.ending]
          /\ panel' = [panel EXCEPT !.token = c, !.link = IF @ = "scheduled" THEN @ ELSE "ready"]
      BY <1>2, <2>1 DEF Open
    <3>2. line'[c].sent = panel.captured /\ line'[c].stop = panel.ending
      <4>1. line'[c] = [line[c] EXCEPT !.sent = panel.captured, !.stop = panel.ending]
        BY <1>0, <3>1
      <4>2. line[c] \in [state : {"none", "up", "dead"}, token : 0..Lines,
                          next : 1..Frames + 1, sent : 0..Frames, stop : BOOLEAN]
        BY <1>0
      <4> QED BY <4>1, <4>2
    <3>3. line'[c].next = line[c].next /\ line'[c].state = line[c].state
      BY <1>0, <3>1
    <3> QED BY <1>2, <2>1, <3>1, <3>2, <3>3
  <2>2. CASE ~Hears(c)
    <3>1. UNCHANGED line BY <1>2, <2>2 DEF Open
    <3>2. ~Stage(c) /\ ~StageFails(c) BY <1>2 DEF Open, Stage, StageFails, HasFrame, At
    <3> QED BY <2>2, <3>1, <3>2
  <2> QED BY <2>1, <2>2
<1>3. CASE Stage(c) \/ StageFails(c)
  <2>1. line' = [line EXCEPT ![c] = Taken(c)]
        \/ line' = [line EXCEPT ![c] = [Taken(c) EXCEPT !.state = "dead"]]
    BY <1>3 DEF Stage, StageFails
  <2>2. line'[c] = Taken(c) \/ line'[c] = [Taken(c) EXCEPT !.state = "dead"]
    BY <1>0, <2>1
  <2>3. Taken(c) = line[c] \/ Taken(c) = [line[c] EXCEPT !.next = @ + 1] BY DEF Taken
  <2>4. line[c] \in [state : {"none", "up", "dead"}, token : 0..Lines,
                          next : 1..Frames + 1, sent : 0..Frames, stop : BOOLEAN]
    BY <1>0
  <2>5. /\ Taken(c).sent = line[c].sent /\ Taken(c).stop = line[c].stop
        /\ Taken(c).state = line[c].state
        /\ Taken(c) \in [state : {"none", "up", "dead"}, token : 0..Lines, next : Int,
                          sent : 0..Frames, stop : BOOLEAN]
    <3>1. CASE Taken(c) = line[c] BY <2>4, <3>1, StreamConstants
    <3>2. CASE Taken(c) = [line[c] EXCEPT !.next = @ + 1]
      <4>1. line[c].next + 1 \in Int BY <2>4, StreamConstants
      <4> QED BY <2>4, <3>2, <4>1
    <3> QED BY <2>3, <3>1, <3>2
  <2>6. /\ line'[c].next = Taken(c).next /\ line'[c].sent = Taken(c).sent
        /\ line'[c].stop = Taken(c).stop /\ line'[c].state \in {Taken(c).state, "dead"}
    BY <2>2, <2>5
  <2> QED BY <1>3, <2>5, <2>6
<1>4. CASE UNCHANGED line /\ ~Stage(c) /\ ~StageFails(c) /\ ~Open(c) BY <1>4
<1>5. \/ TurnAway(c) \/ ActivateFails(c) \/ Strand(c) \/ Close(c) \/ CloseFails(c) \/ Open(c)
      \/ Stage(c) \/ StageFails(c) \/ UNCHANGED line
  BY DEF HandlerStep, Reserve, Activate, Replay, ReplayFails,
         Hear, HearFails, Ack, Persist, PersistFails, ReceiveFinalize, Disconnect, Drain
<1> QED BY <1>1, <1>2, <1>3, <1>4, <1>5

(* A handler comes to a normal end by finalize, or by an end it had come   *)
(* to before.                                                              *)
LEMMA SettledMoves ==
  ASSUME Typed, NEW c \in Conns, HandlerStep(c), Settled(c)'
  PROVE  Settled(c) \/ ReceiveFinalize(c) \/ ~Up(c)
<1>1. CASE Reserve(c) \/ Activate(c) \/ Open(c) \/ Replay(c)
  BY <1>1, OpeningIs DEF Same, Settled
<1>2. CASE TurnAway(c) \/ ActivateFails(c) \/ Strand(c) \/ Close(c) \/ CloseFails(c)
  BY <1>2, OverIs DEF Settled
<1>3. CASE ReplayFails(c) BY <1>3, ThrowingIs DEF ThrownFrom, Settled
<1>4. CASE Ack(c) BY <1>4, ThrowingIs DEF ThrownFrom, Settled
<1>5. CASE StageFails(c) BY <1>5, ThrowingIs DEF ThrownFrom, Settled
<1>6. CASE Disconnect(c) BY <1>6, ThrowingIs
<1>7. CASE Stage(c) BY <1>7, StageIs DEF Settled
<1>8. CASE Hear(c) \/ HearFails(c) BY <1>8, HeardIs DEF Settled
<1>9. CASE Persist(c) BY <1>9, PersistIs DEF Settled
<1>10. CASE PersistFails(c) BY <1>10, PersistFailsIs DEF Settled
<1>11. CASE Drain(c) BY <1>11, FinalizeIs DEF Settled
<1> QED BY <1>1, <1>2, <1>3, <1>4, <1>5, <1>6, <1>7, <1>8, <1>9, <1>10, <1>11 DEF HandlerStep

(* Staging the next frame leaves no gap.                                   *)
LEMMA StageGapless ==
  ASSUME Stages, NEW c \in Conns, Stage(c)
  PROVE  /\ \A f \in Seqs : frame'[f] # "none" => Filled(frame', f)
         /\ Filled(frame', InHand(c)) /\ InHand(c) \in Staged'
         /\ Filled(frame', Taken(c).next - 1)
<1>0. Typed /\ Gapless /\ HandlerStep(c) BY DEF Stages, Leases, HandlerStep
<1>1. HasFrame(c) /\ hd[c].at = "loop" BY DEF Stage, HasFrame, At
<1>2. /\ InHand(c) \in Seqs
      /\ IF hd[c].todo # {}
           THEN InHand(c) \in hd[c].todo /\ \A g \in hd[c].todo : InHand(c) <= g
           ELSE InHand(c) = line[c].next /\ line[c].next <= line[c].sent
  BY <1>0, <1>1, InHandIs DEF Typed
<1>3. Filled(frame, line[c].next - 1) /\ hd[c].todo \subseteq Staged BY <1>0, <1>1 DEF Gapless, Loop
<1>4. /\ \A n : Filled(frame, n) => Filled(frame', n)
      /\ \A f \in Seqs : frame[f] # "none" => frame'[f] # "none"
  BY <1>0, StagedGrows
<1> DEFINE f == InHand(c)
<1> HIDE DEF f
<1>5. frame' = [frame EXCEPT ![f] = IF @ = "none" THEN "ACCEPTED" ELSE @] /\ f \in Seqs
  BY <1>2 DEF Stage, f
<1>6. frame \in [Seqs -> {"none", "ACCEPTED", "CONSUMED"}] BY <1>0 DEF Typed, OthersOK
<1>7. frame'[f] # "none" /\ \A g \in Seqs : g # f => frame'[g] = frame[g] BY <1>5, <1>6
<1>8. line[c].next \in Int /\ \A g \in Seqs : g \in Int
  BY <1>0, TypesAt, FrameNumbers
<1>9. Filled(frame', f) /\ Filled(frame', Taken(c).next - 1)
  <2>1. CASE hd[c].todo # {}
    <3>1. frame[f] # "none" BY <1>2, <1>3, <2>1 DEF f, Staged
    <3>2. Filled(frame, f) BY <1>0, <1>5, <3>1 DEF Gapless
    <3>3. Taken(c) = line[c] BY <2>1 DEF Taken
    <3> QED BY <1>3, <1>4, <3>2, <3>3
  <2>2. CASE hd[c].todo = {}
    <3>1. f = line[c].next BY <1>2, <2>2 DEF f
    <3>2. Filled(frame', f - 1) BY <1>3, <1>4, <3>1
    <3>3. Filled(frame', f)
      <4> SUFFICES ASSUME NEW g \in Seqs, g <= f PROVE frame'[g] # "none" BY DEF Filled
      <4>1. CASE g = f BY <1>7, <4>1
      <4>2. CASE g # f
        <5>1. g <= f - 1 BY <1>5, <1>8, <4>2
        <5> QED BY <3>2, <5>1 DEF Filled
      <4> QED BY <4>1, <4>2
    <3>4. Taken(c).next = line[c].next + 1
      <4>1. Taken(c) = [line[c] EXCEPT !.next = @ + 1] BY <2>2 DEF Taken
      <4>2. line[c] \in [state : {"none", "up", "dead"}, token : 0..Lines,
                          next : 1..Frames + 1, sent : 0..Frames, stop : BOOLEAN]
        BY <1>0, TypesAt
      <4> QED BY <4>1, <4>2
    <3>5. Taken(c).next - 1 = f BY <1>8, <3>1, <3>4
    <3> QED BY <3>3, <3>5
  <2> QED BY <2>1, <2>2
<1>10. ASSUME NEW g \in Seqs, frame'[g] # "none" PROVE Filled(frame', g)
  <2>1. CASE g = f BY <1>9, <2>1
  <2>2. CASE g # f
    <3>1. Filled(frame, g) BY <1>0, <1>7, <1>10, <2>2 DEF Gapless
    <3> QED BY <1>4, <3>1
  <2> QED BY <2>1, <2>2
<1>11. f \in Staged' BY <1>5, <1>7 DEF Staged
<1> QED BY <1>9, <1>10, <1>11 DEF f

(* What the steps of a handler make of what it knows to be staged.         *)
LEMMA SessionGapless ==
  ASSUME Stages, NEW c \in Conns, HandlerStep(c)
  PROVE  Filled(frame', hd'[c].cur) /\ hd'[c].fed \subseteq Staged' /\ hd'[c].todo \subseteq Staged'
<1>0. Typed /\ Filled(frame, hd[c].cur) /\ hd[c].fed \subseteq Staged /\ hd[c].todo \subseteq Staged
  BY DEF Stages, Leases, Gapless
<1>1. Staged \subseteq Staged' /\ \A n : Filled(frame, n) => Filled(frame', n) BY <1>0, StagedGrows
<1>2. Filled(frame', 0) BY FrameNumbers DEF Filled, Seqs
<1>3. ASSUME hd'[c].fed = hd[c].fed, hd'[c].cur \in {hd[c].cur, 0}, hd'[c].todo \subseteq hd[c].todo
      PROVE  /\ Filled(frame', hd'[c].cur)
             /\ hd'[c].fed \subseteq Staged' /\ hd'[c].todo \subseteq Staged'
  BY <1>0, <1>1, <1>2, <1>3
<1>4. CASE Reserve(c) \/ Activate(c) \/ Open(c)
  BY <1>0, <1>3, <1>4, OpeningIs DEF Same, Keeps
<1>5. CASE Replay(c)
  <2>1. hd'[c].fed = hd[c].fed /\ hd'[c].cur = hd[c].cur /\ hd'[c].todo = Pending
    BY <1>0, <1>5, OpeningIs DEF Keeps
  <2>2. Pending \subseteq Staged BY DEF Pending, Staged
  <2> QED BY <1>0, <1>1, <2>1, <2>2
<1>6. CASE TurnAway(c) \/ ActivateFails(c) \/ Strand(c) \/ Close(c) \/ CloseFails(c)
  BY <1>0, <1>2, <1>6, OverIs
<1>7. CASE ReplayFails(c) \/ Ack(c) \/ StageFails(c) \/ Disconnect(c)
  BY <1>0, <1>3, <1>7, ThrowingIs DEF ThrownFrom, Keeps
<1>8. CASE Stage(c)
  <2>1. Filled(frame', InHand(c)) /\ InHand(c) \in Staged' BY <1>8, StageGapless
  <2>2. /\ hd'[c].fed \subseteq hd[c].fed \cup {InHand(c)} /\ hd'[c].cur \in {InHand(c), 0}
        /\ hd'[c].todo \subseteq hd[c].todo
    BY <1>0, <1>8, StageIs
  <2> QED BY <1>0, <1>1, <1>2, <2>1, <2>2
<1>9. CASE Hear(c) \/ HearFails(c) BY <1>0, <1>3, <1>9, HeardIs
<1>10. CASE Persist(c) BY <1>0, <1>3, <1>10, PersistIs
<1>11. CASE PersistFails(c) BY <1>0, <1>3, <1>11, PersistFailsIs
<1>12. CASE ReceiveFinalize(c) \/ Drain(c) BY <1>0, <1>3, <1>12, FinalizeIs
<1> QED BY <1>4, <1>5, <1>6, <1>7, <1>8, <1>9, <1>10, <1>11, <1>12 DEF HandlerStep

(* Nobody comes back to the receive loop.                                  *)
LEMMA LoopMoves ==
  ASSUME Typed, NEW c \in Conns, HandlerStep(c), hd'[c].at \in Loop \cup Before, hd'[c].at # "off"
  PROVE  hd[c].at \in Loop \cup Before /\ hd[c].at # "off"
<1>1. CASE Reserve(c) \/ Activate(c) \/ Open(c) \/ Replay(c)
  BY <1>1, OpeningIs DEF Loop, Before
<1>2. CASE TurnAway(c) \/ ActivateFails(c) \/ Strand(c) \/ Close(c) \/ CloseFails(c)
  BY <1>2, OverIs
<1>3. CASE ReplayFails(c) \/ Ack(c) \/ StageFails(c) \/ Disconnect(c)
  BY <1>3, ThrowingIs DEF ThrownFrom, Loop, Before
<1>4. CASE Stage(c) BY <1>4, StageIs DEF Loop
<1>5. CASE Hear(c) \/ HearFails(c) BY <1>5, HeardIs DEF Loop
<1>6. CASE Persist(c) BY <1>6, PersistIs DEF Pairing, Loop, Before
<1>7. CASE PersistFails(c) BY <1>7, PersistFailsIs DEF Loop, Before
<1>8. CASE ReceiveFinalize(c) \/ Drain(c) BY <1>8, FinalizeIs DEF Loop, Before
<1> QED BY <1>1, <1>2, <1>3, <1>4, <1>5, <1>6, <1>7, <1>8 DEF HandlerStep

(* A step of a handler leaves no gap.                                      *)
LEMMA HandlerGapless ==
  ASSUME Stages, NEW c \in Conns, HandlerStep(c)
  PROVE  Gapless'
<1>0. Typed /\ Gapless BY DEF Stages, Leases
<1>1. /\ \A f \in Seqs : frame[f] # "none" => frame'[f] # "none"
      /\ Staged \subseteq Staged'
      /\ \A n : Filled(frame, n) => Filled(frame', n)
  BY <1>0, StagedGrows
<1>2. ASSUME NEW f \in Seqs, frame'[f] # "none" PROVE Filled(frame', f)
  <2>1. CASE Stage(c) BY <1>2, <2>1, StageGapless
  <2>2. CASE ~Stage(c)
    <3>1. frame[f] # "none"
      <4>1. CASE Persist(c)
        BY <1>0, <1>2, <4>1 DEF Persist, Consumed, Typed, OthersOK
      <4>2. CASE ~Persist(c)
        <5>1. UNCHANGED frame
          BY <2>2, <4>2
          DEF HandlerStep, Reserve, TurnAway, Activate, ActivateFails, Open, Replay, ReplayFails,
              Strand, StageFails, Hear, HearFails, Ack, PersistFails, ReceiveFinalize, Disconnect,
              Drain, Close, CloseFails
        <5> QED BY <1>2, <5>1
      <4> QED BY <4>1, <4>2
    <3>2. Filled(frame, f) BY <1>0, <3>1 DEF Gapless
    <3> QED BY <1>1, <3>2
  <2> QED BY <2>1, <2>2
<1>3. Filled(frame', panel'.acked)
  <2>1. panel'.acked \in {panel.acked, hd[c].cur}
    BY <1>0, PanelHears DEF Typed, OthersOK
  <2>2. Filled(frame, panel.acked) /\ Filled(frame, hd[c].cur) BY <1>0 DEF Gapless
  <2> QED BY <1>1, <2>1, <2>2
<1> DEFINE Reading == Loop \cup {"reserve", "acquire", "open", "replay"}
<1>4. ASSUME hd'[c].at \in Reading PROVE Filled(frame', line'[c].next - 1)
  <2>1. hd[c].at \in Reading /\ hd'[c].at # "off"
    BY <1>0, <1>4, LoopMoves DEF Loop, Before
  <2>2. Filled(frame, line[c].next - 1) BY <1>0, <2>1 DEF Gapless
  <2>3. CASE line'[c].next = line[c].next BY <1>1, <2>2, <2>3
  <2>4. CASE Stage(c) /\ line'[c].next = Taken(c).next BY <2>4, StageGapless
  <2>5. ~StageFails(c) BY <1>0, <1>4, ThrowingIs DEF ThrownFrom, Loop
  <2> QED BY <1>0, <2>1, <2>3, <2>4, <2>5, LineIs
<1>5. ASSUME NEW d \in Conns
      PROVE  /\ Filled(frame', hd'[d].cur) /\ hd'[d].fed \subseteq Staged'
             /\ hd'[d].todo \subseteq Staged'
             /\ hd'[d].at \in Reading => Filled(frame', line'[d].next - 1)
  <2>1. CASE d = c BY <1>4, <2>1, SessionGapless
  <2>2. CASE d # c
    <3>1. hd'[d] = hd[d] /\ line'[d] = line[d] BY <1>0, <2>2, OnlyOne, LineMoves
    <3>2. /\ Filled(frame, hd[d].cur) /\ hd[d].fed \subseteq Staged /\ hd[d].todo \subseteq Staged
          /\ hd[d].at \in Reading => Filled(frame, line[d].next - 1)
      BY <1>0 DEF Gapless
    <3> QED BY <1>1, <3>1, <3>2
  <2> QED BY <2>1, <2>2
<1> QED BY <1>2, <1>3, <1>5 DEF Gapless

(* A step of a handler: what the panel believes to have sent.              *)
LEMMA HandlerTold ==
  ASSUME Stages, NEW c \in Conns, HandlerStep(c)
  PROVE  Told'
<1>0. Typed /\ Told BY DEF Stages, Leases
<1>1. /\ hd[c].at # "off"
      /\ \A d \in Conns : d # c => line'[d] = line[d]
  BY <1>0, PanelHears, LineMoves
<1>2. /\ panel'.line = panel.line /\ panel'.captured = panel.captured
      /\ panel'.ending = panel.ending
      /\ panel'.link = panel.link \/ (panel'.link = "ready" /\ Open(c) /\ Hears(c))
  <2>1. CASE Open(c)
    <3>1. CASE Hears(c) BY <1>0, <2>1, <3>1 DEF Open, Typed, OthersOK
    <3>2. CASE ~Hears(c) BY <2>1, <3>2 DEF Open
    <3> QED BY <3>1, <3>2
  <2>2. CASE Stage(c) \/ Ack(c) \/ Close(c)
    BY <1>0, <2>2 DEF Stage, Ack, Close, Typed, OthersOK
  <2>3. CASE UNCHANGED panel BY <2>3
  <2>4. Open(c) \/ Stage(c) \/ Ack(c) \/ Close(c) \/ UNCHANGED panel
    BY DEF HandlerStep, Reserve, TurnAway, Activate, ActivateFails, Replay, ReplayFails,
       Strand, StageFails, Hear, HearFails, Persist, PersistFails, ReceiveFinalize,
       Disconnect, Drain, CloseFails
  <2> QED BY <2>1, <2>2, <2>3, <2>4
<1>3. CASE c = panel.line
  <2>1. c # 0 BY StreamConstants DEF Conns
  <2>2. \/ line'[c] = line[c] /\ panel'.link = panel.link
        \/ ~Up(c)' /\ line'[c].stop = FALSE
        \/ Open(c) /\ Hears(c) /\ line'[c].sent = panel.captured /\ line'[c].stop = panel.ending
        \/ /\ line'[c].sent = line[c].sent /\ line'[c].stop = line[c].stop
           /\ line'[c].state \in {line[c].state, "dead"} /\ panel'.link = panel.link
    <3>1. Stage(c) \/ StageFails(c) => ~Open(c) BY DEF Stage, StageFails, HasFrame, Open, At
    <3> QED BY <1>0, <1>2, <3>1, LineIs
  <2> QED BY <1>0, <1>2, <1>3, <2>1, <2>2 DEF Told, Up
<1>4. CASE c # panel.line
  <2>1. panel'.link = panel.link BY <1>2, <1>4 DEF Hears
  <2>2. panel.line # 0 => panel.line \in Conns
    BY <1>0, StreamConstants DEF Typed, OthersOK, Conns
  <2> QED BY <1>0, <1>1, <1>2, <1>4, <2>1, <2>2 DEF Told, Up
<1> QED BY <1>3, <1>4

(* A step of a handler: whether there is more to be staged.                *)
LEMMA HandlerFinalized ==
  ASSUME Stages, NEW c \in Conns, HandlerStep(c)
  PROVE  Finalized'
<1>0. Typed /\ Told /\ Finalized /\ Gapless BY DEF Stages, Leases
<1>1. /\ hd[c].at # "off"
      /\ \A d \in Conns : d # c => line'[d] = line[d] /\ hd'[d] = hd[d]
      /\ \A n : Filled(frame, n) => Filled(frame', n)
      /\ c # 0
  <2>1. c # 0 BY StreamConstants DEF Conns
  <2>2. hd[c].at # "off" BY PanelHears
  <2>3. \A d \in Conns : d # c => line'[d] = line[d] BY <1>0, LineMoves
  <2>4. \A d \in Conns : d # c => hd'[d] = hd[d] BY <1>0, OnlyOne
  <2>5. \A n : Filled(frame, n) => Filled(frame', n) BY <1>0, StagedGrows
  <2> QED BY <2>1, <2>2, <2>3, <2>4, <2>5
<1>2. /\ panel'.line = panel.line /\ panel'.captured = panel.captured
      /\ panel'.ending = panel.ending
      /\ panel'.state = panel.state \/ panel'.state = "failed"
         \/ (panel'.state = "committed" /\ Close(c) /\ Hears(c))
  <2>1. CASE Open(c) \/ Stage(c) \/ Ack(c)
    BY <1>0, <2>1 DEF Open, Stage, Ack, Typed, OthersOK
  <2>2. CASE Close(c)
    <3>1. CASE Hears(c) BY <1>0, <2>2, <3>1 DEF Close, Typed, OthersOK
    <3>2. CASE ~Hears(c) BY <2>2, <3>2 DEF Close
    <3> QED BY <3>1, <3>2
  <2>3. CASE UNCHANGED panel BY <2>3
  <2>4. Open(c) \/ Stage(c) \/ Ack(c) \/ Close(c) \/ UNCHANGED panel
    BY DEF HandlerStep, Reserve, TurnAway, Activate, ActivateFails, Replay, ReplayFails,
       Strand, StageFails, Hear, HearFails, Persist, PersistFails, ReceiveFinalize,
       Disconnect, Drain, CloseFails
  <2> QED BY <2>1, <2>2, <2>3, <2>4
<1>3. panel.line # 0 => panel.line \in Conns
  BY <1>0, StreamConstants DEF Typed, OthersOK, Conns
<1>4. CASE c # panel.line
  <2>1. panel'.state = "committed" => panel.state = "committed" BY <1>2, <1>4 DEF Hears
  <2>2. panel.line # 0 /\ row'[panel.line].status = "CLOSED" => row[panel.line].status = "CLOSED"
    <3>1. CASE Reserve(c)
      <4>1. \A d \in Conns : d # c => row'[d].status # "CLOSED"
        BY <3>1, ReserveLease DEF Stages
      <4> QED BY <1>3, <1>4, <4>1
    <3>2. CASE ~Reserve(c) BY <1>0, <1>3, <1>4, <3>2, RowMoves
    <3> QED BY <3>1, <3>2
  <2>3. panel.line # 0 => line'[panel.line] = line[panel.line] /\ hd'[panel.line] = hd[panel.line]
    BY <1>1, <1>3, <1>4
  <2> QED BY <1>0, <1>1, <1>2, <2>1, <2>2, <2>3 DEF Finalized, Up, Settled, At
<1>5. CASE c = panel.line
  <2>1. panel.state # "committed" BY <1>0, <1>1, <1>5 DEF Finalized, At
  <2>2. Up(c)' => Up(c)
    <3>1. Open(c) \/ line'[c].state \in {line[c].state, "dead"} \/ ~Up(c)' BY <1>0, LineIs
    <3>2. Open(c) => line'[c].state = line[c].state \/ ~Up(c)'
      <4>1. ASSUME Open(c) PROVE line'[c].state = line[c].state \/ ~Up(c)'
        <5>1. ~Stage(c) /\ ~StageFails(c)
          BY <4>1 DEF Stage, StageFails, HasFrame, Open, At
        <5> QED BY <1>0, <5>1, LineIs
      <4> QED BY <4>1
    <3> QED BY <3>1, <3>2 DEF Up
  <2>3. ASSUME Up(c)', Settled(c)' PROVE panel.ending /\ Filled(frame, panel.captured)
    <3>1. CASE Settled(c) BY <1>0, <1>1, <1>5, <2>2, <2>3, <3>1 DEF Finalized
    <3>2. CASE ReceiveFinalize(c)
      <4>1. At(c, "loop") /\ ~HasFrame(c) /\ line[c].stop BY <3>2 DEF ReceiveFinalize
      <4>2. panel.ending /\ line[c].sent = panel.captured
        BY <1>0, <1>1, <1>5, <4>1 DEF Told
      <4>3. ~(line[c].next <= line[c].sent) BY <4>1 DEF HasFrame
      <4>4. Filled(frame, line[c].next - 1) BY <1>0, <4>1 DEF Gapless, At, Loop
      <4>5. line[c].next \in Int /\ line[c].sent \in Int /\ \A g \in Seqs : g \in Int
        BY <1>0, TypesAt, FrameNumbers
      <4>6. Filled(frame, line[c].sent)
        <5> SUFFICES ASSUME NEW g \in Seqs, g <= line[c].sent PROVE frame[g] # "none"
          BY DEF Filled
        <5>1. g <= line[c].next - 1 BY <4>3, <4>5
        <5> QED BY <4>4, <5>1 DEF Filled
      <4> QED BY <4>2, <4>6
    <3> QED BY <1>0, <2>2, <2>3, <3>1, <3>2, SettledMoves
  <2>4. ASSUME panel'.state = "committed"
        PROVE  /\ hd'[c].at = "off"
               /\ row'[c].status = "CLOSED" => Filled(frame, panel.captured)
    <3>1. Close(c) /\ Hears(c) BY <1>2, <2>1, <2>4
    <3>2. hd'[c].at = "off" BY <1>0, <3>1, OverIs
    <3>3. ASSUME row'[c].status = "CLOSED" PROVE Filled(frame, panel.captured)
      <4>1. hd[c].reason = "normal"
        <5>1. row'[c].status = CASE hd[c].reason = "normal" -> "CLOSED"
                                 [] hd[c].reason = "error" -> "FAILED"
                                 [] OTHER -> "INCOMPLETE"
          BY <1>0, <3>1 DEF Close, Typed, OthersOK
        <5> QED BY <3>3, <5>1
      <4>2. Up(c) /\ Settled(c) BY <3>1, <4>1 DEF Hears, Settled
      <4> QED BY <1>0, <1>1, <1>5, <4>2 DEF Finalized
    <3> QED BY <3>2, <3>3
  <2> QED BY <1>1, <1>2, <1>5, <2>3, <2>4 DEF Finalized, At
<1> QED BY <1>4, <1>5

(* What the panel goes on to do, and what it may be told of it.            *)
LEMMA ClientSends ==
  ASSUME Stages, Client, ~Dial
  PROVE  /\ panel'.state = "committed" <=> panel.state = "committed"
         /\ Told'
         /\ panel.line # 0 /\ Up(panel.line)' => Up(panel.line)
         /\ panel.ending => panel'.ending /\ panel'.captured = panel.captured
         /\ panel.state = "committed" => panel'.captured = panel.captured
<1> DEFINE Panels == [state : {"live", "committed", "failed"}, link : Links, line : 0..Lines,
                token : 0..Lines, captured : 0..Frames, acked : 0..Frames, ending : BOOLEAN]
           Ends == [state : {"none", "up", "dead"}, token : 0..Lines,
                         next : 1..Frames + 1, sent : 0..Frames, stop : BOOLEAN]
           n == panel.line
<1>0. Typed /\ Told BY DEF Stages, Leases
<1>1. panel \in Panels /\ line \in [Conns -> Ends] BY <1>0 DEF Typed, OthersOK
<1>2. n # 0 => n \in Conns BY <1>1, StreamConstants DEF Conns
<1> HIDE DEF Panels, Ends
<1>3. CASE NoToken
  <2>1. panel' = [panel EXCEPT !.state = "failed"] /\ UNCHANGED line /\ panel.state = "live"
    BY <1>3 DEF NoToken, Failed, Going
  <2>2. /\ panel'.state = "failed" /\ panel'.link = panel.link /\ panel'.line = panel.line
        /\ panel'.captured = panel.captured /\ panel'.ending = panel.ending
    BY <1>1, <2>1 DEF Panels
  <2> QED BY <1>0, <2>1, <2>2 DEF Told, Up
<1>4. CASE Capture
  <2>1. /\ panel' = [panel EXCEPT !.captured = @ + 1] /\ ~panel.ending /\ panel.state = "live"
        /\ line' = IF Sending THEN [line EXCEPT ![n].sent = panel.captured + 1] ELSE line
    BY <1>4 DEF Capture, Capturing, Going, Current
  <2>2. /\ panel'.state = panel.state /\ panel'.link = panel.link /\ panel'.line = panel.line
        /\ panel'.captured = panel.captured + 1 /\ panel'.ending = panel.ending
    BY <1>1, <2>1 DEF Panels
  <2>3. CASE Sending
    <3>1. line' = [line EXCEPT ![n].sent = panel.captured + 1] /\ panel.link = "ready"
      BY <2>1, <2>3 DEF Sending
    <3>2. n \in Conns BY <1>0, <1>2, <3>1 DEF Told
    <3>3. /\ line'[n].sent = panel.captured + 1 /\ line'[n].state = line[n].state
          /\ line'[n].stop = line[n].stop
      BY <1>1, <3>1, <3>2 DEF Ends
    <3> QED BY <1>0, <2>1, <2>2, <3>3 DEF Told, Up
  <2>4. CASE ~Sending
    <3>1. line' = line BY <2>1, <2>4
    <3>2. ~(panel.link = "ready" /\ Up(n)) BY <2>4 DEF Sending, Up, Current
    <3> QED BY <1>0, <2>1, <2>2, <3>1, <3>2 DEF Told, Up
  <2> QED BY <2>3, <2>4
<1>5. CASE Overflow
  <2>1. /\ panel' = [panel EXCEPT !.state = "failed"] /\ panel.state = "live"
        /\ line' = line \/ line' = [line EXCEPT ![n].state = "dead"]
    BY <1>5 DEF Overflow, Failed, Capturing, Going, Current
  <2>2. /\ panel'.state = "failed" /\ panel'.link = panel.link /\ panel'.line = panel.line
        /\ panel'.captured = panel.captured /\ panel'.ending = panel.ending
    BY <1>1, <2>1 DEF Panels
  <2>3. n # 0 => /\ line'[n].state \in {line[n].state, "dead"} /\ line'[n].sent = line[n].sent
                 /\ line'[n].stop = line[n].stop
    BY <1>1, <1>2, <2>1 DEF Ends
  <2> QED BY <1>0, <2>1, <2>2, <2>3 DEF Told, Up
<1>6. CASE Stop
  <2> DEFINE p == [panel EXCEPT !.ending = TRUE]
  <2>1. /\ panel' = IF panel.link = "opening" THEN Reconnecting(p) ELSE p
        /\ line' = IF Sending THEN [line EXCEPT ![n].stop = TRUE]
                   ELSE IF panel'.state = "failed" THEN [line EXCEPT ![n].state = "dead"] ELSE line
        /\ panel.state = "live" /\ ~panel.ending
    BY <1>6 DEF Stop, Capturing, Going, Current
  <2>2. /\ p \in Panels /\ p.state = panel.state /\ p.link = panel.link /\ p.line = panel.line
        /\ p.captured = panel.captured /\ p.ending = TRUE
    BY <1>1 DEF Panels
  <2> HIDE DEF p
  <2>3. /\ panel'.line = panel.line /\ panel'.captured = panel.captured /\ panel'.ending = TRUE
        /\ panel'.state # "committed"
        /\ panel'.link \in {panel.link, "scheduled"}
    BY <2>1, <2>2, ReconnectingIs DEF Panels
  <2>4. panel.link \in {"opening", "ready"} => n \in Conns BY <1>0, <1>2 DEF Told
  <2>5. n \in Conns => /\ line'[n].state \in {line[n].state, "dead"} /\ line'[n].sent = line[n].sent
                       /\ line'[n].stop = line[n].stop \/ (Sending /\ line'[n].stop = TRUE)
    BY <1>1, <2>1 DEF Ends
  <2>6. Sending => line[n].sent = panel.captured
    BY <1>0 DEF Told, Sending, Up, Current
  <2> QED BY <1>0, <1>2, <2>1, <2>3, <2>5, <2>6 DEF Told, Up
<1>7. CASE Notice
  <2>1. panel' = Reconnecting(panel) /\ UNCHANGED line /\ panel.state = "live"
    BY <1>7 DEF Notice, Going
  <2>2. /\ panel'.line = panel.line /\ panel'.captured = panel.captured
        /\ panel'.ending = panel.ending /\ panel'.state # "committed"
        /\ panel'.link \in {panel.link, "scheduled"}
    BY <1>1, <2>1, ReconnectingIs DEF Panels
  <2> QED BY <1>0, <2>1, <2>2 DEF Told, Up
<1> QED BY <1>3, <1>4, <1>5, <1>6, <1>7 DEF Client

(* Every step leaves no gap, and what the panel believes true.             *)
LEMMA NextStages == Stages /\ [Next]_vars => Stages'
<1> SUFFICES ASSUME Stages, [Next]_vars PROVE Stages' OBVIOUS
<1>0. Typed /\ Leases' /\ Gapless /\ Told /\ Finalized BY NextLease DEF Stages, Leases
<1>1. CASE UNCHANGED vars
  BY <1>0, <1>1 DEF vars, Stages, Gapless, Staged, Told, Finalized, Settled, At, Up
<1>2. ASSUME NEW c \in Conns, HandlerStep(c) PROVE Stages'
  BY <1>0, <1>2, HandlerGapless, HandlerTold, HandlerFinalized DEF Stages
<1>3. CASE Dial
  <2> DEFINE c == panel.line + 1
  <2>1. /\ c \in Conns /\ panel'.line = c /\ panel'.link = "opening" /\ panel'.acked = panel.acked
        /\ panel'.state = "live" /\ panel'.captured = panel.captured
        /\ line'[c] = [NoLine EXCEPT !.state = "up", !.token = panel.token,
                                 !.next = panel.acked + 1, !.sent = panel.acked]
        /\ hd[c] = Fresh("off") /\ Same(hd[c], hd'[c]) /\ hd'[c].at = "reserve"
        /\ \A d \in Conns : d # c => line'[d] = line[d] /\ hd'[d] = hd[d]
    BY <1>0, <1>3, DialIs
  <2>2. UNCHANGED <<frame, row>> BY <1>3 DEF Dial, Served
  <2> HIDE DEF c
  <2>3. line'[c].next = panel.acked + 1 /\ line'[c].stop = FALSE BY <2>1 DEF NoLine
  <2>4. panel.acked \in Int /\ c # 0 BY <1>0, <2>1, StreamConstants DEF Typed, OthersOK, Conns
  <2>5. Filled(frame, panel.acked) BY <1>0 DEF Gapless
  <2>6. Filled(frame, line'[c].next - 1) BY <2>3, <2>4, <2>5
  <2>7. Gapless'
    <3>1. ASSUME NEW d \in Conns
          PROVE  /\ Filled(frame, hd'[d].cur) /\ hd'[d].fed \subseteq Staged
                 /\ hd'[d].todo \subseteq Staged
                 /\ hd'[d].at \in Loop \cup {"reserve", "acquire", "open", "replay"} =>
                      Filled(frame, line'[d].next - 1)
      <4>1. /\ Filled(frame, hd[d].cur) /\ hd[d].fed \subseteq Staged /\ hd[d].todo \subseteq Staged
            /\ hd[d].at \in Loop \cup {"reserve", "acquire", "open", "replay"} =>
                 Filled(frame, line[d].next - 1)
        BY <1>0 DEF Gapless
      <4>2. CASE d = c BY <2>1, <2>6, <4>1, <4>2 DEF Same, Keeps
      <4>3. CASE d # c BY <2>1, <4>1, <4>3
      <4> QED BY <4>2, <4>3
    <3>2. Staged' = Staged BY <2>2 DEF Staged
    <3> QED BY <1>0, <2>1, <2>2, <2>5, <3>1, <3>2 DEF Gapless
  <2>8. Told' BY <2>1, <2>3, <2>4 DEF Told
  <2>9. Finalized'
    <3>1. hd'[c].reason = "none" BY <2>1 DEF Same, Fresh
    <3> QED BY <2>1, <2>4, <3>1 DEF Finalized, Settled
  <2> QED BY <1>0, <2>7, <2>8, <2>9 DEF Stages
<1>4. CASE Client /\ ~Dial
  <2>1. /\ UNCHANGED <<hd, row, frame>>
        /\ panel'.line = panel.line /\ panel'.acked = panel.acked
        /\ \A d \in Conns : line'[d].next = line[d].next
    BY <1>0, <1>4, ClientIs
  <2>2. Gapless' BY <1>0, <2>1 DEF Gapless, Staged
  <2>3. /\ panel'.state = "committed" <=> panel.state = "committed"
        /\ Told'
        /\ panel.line # 0 /\ Up(panel.line)' => Up(panel.line)
        /\ panel.ending => panel'.ending /\ panel'.captured = panel.captured
        /\ panel.state = "committed" => panel'.captured = panel.captured
    BY <1>4, ClientSends
  <2>4. Finalized' BY <1>0, <2>1, <2>3 DEF Finalized, Settled, At, Up
  <2> QED BY <1>0, <2>2, <2>3, <2>4 DEF Stages
<1>5. CASE Crash
  <2>1. /\ UNCHANGED <<panel, row, frame>> /\ hd' = [c \in Conns |-> Fresh("off")]
        /\ line' = [c \in Conns |-> IF line[c].state = "none" THEN NoLine
                                    ELSE [NoLine EXCEPT !.state = "dead"]]
    BY <1>5 DEF Crash
  <2>2. \A d \in Conns : /\ hd'[d].at = "off" /\ hd'[d].cur = 0 /\ hd'[d].fed = {}
                         /\ hd'[d].todo = {} /\ hd'[d].reason = "none"
                         /\ line'[d].state # "up" /\ line'[d].stop = FALSE
    BY <2>1 DEF Fresh, NoLine
  <2>3. panel.line # 0 => panel.line \in Conns
    BY <1>0, StreamConstants DEF Typed, OthersOK, Conns
  <2>4. Filled(frame, 0) BY FrameNumbers DEF Filled, Seqs
  <2>5. Gapless' BY <1>0, <2>1, <2>2, <2>4 DEF Gapless, Staged, Loop
  <2>6. Told' BY <1>0, <2>1, <2>2, <2>3 DEF Told, Up
  <2>7. Finalized' BY <1>0, <2>1, <2>2, <2>3 DEF Finalized, Up, At
  <2> QED BY <1>0, <2>5, <2>6, <2>7 DEF Stages
<1>6. ASSUME NEW c \in Conns, Break(c) PROVE Stages'
  <2>1. /\ UNCHANGED <<panel, row, frame, hd>>
        /\ \A d \in Conns : /\ line'[d].next = line[d].next /\ line'[d].sent = line[d].sent
                            /\ line'[d].stop = line[d].stop
                            /\ line'[d].state \in {line[d].state, "dead"}
    BY <1>0, <1>6 DEF Break, Served, Typed, OthersOK
  <2>2. panel.line # 0 => panel.line \in Conns
    BY <1>0, StreamConstants DEF Typed, OthersOK, Conns
  <2>3. Gapless' BY <1>0, <2>1 DEF Gapless, Staged
  <2>4. Told' BY <1>0, <2>1, <2>2 DEF Told, Up
  <2>5. Finalized' BY <1>0, <2>1, <2>2 DEF Finalized, Up, At, Settled
  <2> QED BY <1>0, <2>3, <2>4, <2>5 DEF Stages
<1>7. CASE Batch
  <2>1. UNCHANGED <<panel, row, frame, hd, line>> BY <1>7 DEF Batch
  <2>2. Gapless' /\ Told' /\ Finalized'
    BY <1>0, <2>1 DEF Gapless, Staged, Told, Up, Finalized, Settled, At
  <2> QED BY <1>0, <2>2 DEF Stages
<1> QED BY <1>1, <1>2, <1>3, <1>4, <1>5, <1>6, <1>7 DEF Next

(* Nothing is staged yet.                                                  *)
LEMMA InitStages == Init => Stages
<1> SUFFICES ASSUME Init PROVE Stages OBVIOUS
<1>1. Leases
  <2>1. Typed BY InitTyped
  <2>2. Lease /\ Secret BY StreamConstants DEF Init, Lease, Secret, Fresh, NoLine, At, Conns, Live
  <2> QED BY <2>1, <2>2 DEF Leases
<1>2. Filled(frame, 0) /\ \A f \in Seqs : frame[f] = "none"
  BY FrameNumbers DEF Init, Filled, Seqs
<1>3. Gapless BY <1>2 DEF Init, Gapless, Fresh, Loop
<1>4. Told /\ Finalized BY DEF Init, Told, Finalized
<1> QED BY <1>1, <1>3, <1>4 DEF Stages

(* It holds always.                                                        *)
LEMMA AlwaysStages == Spec => []Stages
BY InitStages, NextStages, PTL DEF Spec

(* AcknowledgedIsStaged: the panel may forget what it was told is stored,  *)
(* on whichever connection it was told, and all of it when the capture was *)
(* closed for good.                                                        *)
THEOREM AcknowledgedIsAlwaysStaged == Spec => []AcknowledgedIsStaged
<1>1. Stages => AcknowledgedIsStaged
  <2> SUFFICES ASSUME Stages, NEW f \in Forgotten PROVE frame[f] # "none"
    BY DEF AcknowledgedIsStaged
  <2>1. panel.acked \in 0..Frames /\ panel.captured \in 0..Frames /\ Frames \in Nat
    BY StreamConstants DEF Stages, Leases, Typed, OthersOK
  <2>2. CASE CommittedForGood
    <3>1. Filled(frame, panel.captured)
      BY <2>2 DEF CommittedForGood, Current, Stages, Finalized
    <3>2. f \in 1..panel.captured BY <2>2 DEF Forgotten
    <3>3. f \in Seqs /\ f <= panel.captured BY <2>1, <3>2 DEF Seqs
    <3> QED BY <3>1, <3>3 DEF Filled
  <2>3. CASE ~CommittedForGood
    <3>1. Filled(frame, panel.acked) BY DEF Stages, Gapless
    <3>2. f \in 1..panel.acked BY <2>3 DEF Forgotten
    <3>3. f \in Seqs /\ f <= panel.acked BY <2>1, <3>2 DEF Seqs
    <3> QED BY <3>1, <3>3 DEF Filled
  <2> QED BY <2>2, <2>3
<1> QED BY <1>1, AlwaysStages, PTL
=============================================================================
