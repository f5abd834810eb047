---------------------------- MODULE StreamSession -----------------------------
(***************************************************************************)
(* The server's side of one live capture (api/ws_stream.py,                *)
(* core/stream_session.py, services/streaming_durability.py).              *)
(*                                                                         *)
(* The client sends numbered frames of audio over a WebSocket and may come *)
(* back on a new one.  Every connection is served by a handler of its own  *)
(* and has a row of streaming_sessions, its epoch, with a lease token; the *)
(* handler of an abandoned connection may still be at work when the next   *)
(* one begins, and only the token tells them apart.  A frame is stored     *)
(* before it is acknowledged (ACCEPTED) and is CONSUMED when a confirmed   *)
(* sentence that ends with it, or after it, is stored.                     *)
(*                                                                         *)
(* External: voice detection may close a segment at any frame.  Speech     *)
(* recognition answers in its own time: what is read after a frame was     *)
(* sent may be a sentence of frames further back, and is filed under the   *)
(* frame all the same.  Its connections are kept for the tenant's next     *)
(* session with whatever answers were left unread, so that a sentence may  *)
(* also hold nothing this session has given.                               *)
(* A connection's number stands for its epoch, its row and its token.      *)
(* Steps of a handler that touch nothing others see are one action with    *)
(* the step before or after them.                                          *)
(***************************************************************************)
EXTENDS Integers, Sequences

CONSTANTS
  Frames,       \* the frames of the capture are numbered 1..Frames
  Lines,        \* connections the client opens at most
  PoolSizes,    \* values of pool_size_per_tenant
  MaxPending,   \* MAX_PENDING_FRAMES of the client
  Length,       \* bound of the model: frames captured, by the size of the pool
  MaxTroubles   \* bound of the model: what goes wrong, by it too

ASSUME StreamConstants ==
  /\ Frames \in Nat \ {0} /\ Lines \in Nat \ {0} /\ MaxPending \in Nat \ {0}
  /\ PoolSizes \subseteq Nat \ {0}
  /\ Length \in [PoolSizes -> 0..Frames] /\ MaxTroubles \in [PoolSizes -> Nat]

VARIABLES
  panel,      \* the client (LiveAudioCapturePanel.tsx)
  line,       \* each connection
  row,        \* the row of each epoch
  latest,     \* the connection with the newest epoch, 0: none
  frame,      \* streaming_pcm_frames
  segments,   \* durable segments with the receipts they were stored under
  run,        \* the state of the capture's pipeline run
  hd,         \* the handler of each connection
  pool,       \* permits of the recognition pool: all, free, and lost for good
  missed,     \* history: frames that a failure kept from being heard or stored,
              \* or that the recogniser had yet to answer for when a sentence
              \* was filed behind them
  troubles    \* what has gone wrong: failures, crashes, answers left over from
              \* earlier sessions and interventions of the batch scheduler

vars == <<panel, line, row, latest, frame, segments, run, hd, pool, missed, troubles>>

Seqs == 1..Frames
Conns == 1..Lines
Largest(S) == CHOOSE n \in S : \A m \in S : m <= n

(* A sentence: the frames of this session it was made of, and the sequence *)
(* it is filed under; a stored one also tells whether one was already      *)
(* stored under that sequence.                                             *)
Sentences == [text : SUBSET Seqs, seq : 0..Frames]
Stored == [text : SUBSET Seqs, seq : 0..Frames, again : BOOLEAN]

(* A sentence may be of the first of the frames in S.                      *)
Prefixes(S) == {{g \in S : g <= n} : n \in S}

Live == {"RESERVING", "ACTIVE", "DRAINING", "COMMITTING"}
RowStates == Live \cup {"none", "CLOSED", "INCOMPLETE", "FAILED"}
RunStates == {"none", "asr", "segments", "projections", "partial", "failed_retryable", "over"}
Phases == {"off", "reserve", "acquire", "open", "replay", "raised", "loop", "vad_pair", "asr",
           "asr_pair", "ack", "final_pair", "drain", "close"}

(* StreamSession: the frame in hand and those still to be replayed, the    *)
(* sequences fed to the adapters, those the recogniser has heard and given *)
(* no sentence for, sentences and closed segments that wait for their      *)
(* other half, and how it ends (client_disconnect, timeout and error are   *)
(* one).                                                                   *)
Handlers == [at : Phases, todo : SUBSET Seqs, replaying : BOOLEAN, cur : 0..Frames,
             fed : SUBSET Seqs, heard : SUBSET Seqs, waiting : Seq(Sentences), closed : Nat,
             wrote : BOOLEAN, finished : BOOLEAN, draining : BOOLEAN,
             reason : {"none", "normal", "error"}]

Fresh(phase) ==
  [at |-> phase, todo |-> {}, replaying |-> FALSE, cur |-> 0, fed |-> {}, heard |-> {},
   waiting |-> <<>>, closed |-> 0, wrote |-> FALSE, finished |-> FALSE, draining |-> FALSE,
   reason |-> "none"]

At(c, phase) == hd[c].at = phase
Becomes(c, h) == hd' = [hd EXCEPT ![c] = h]
Goto(c, phase) == Becomes(c, [hd[c] EXCEPT !.at = phase])
Gone(c) == Becomes(c, Fresh("off"))
LastSeq(h) == Largest(h.fed \cup {0})
Leased(c) == row[c].status \in Live

Trouble == troubles < MaxTroubles[pool.size] /\ troubles' = troubles + 1
Calm == UNCHANGED troubles

(* An answer that was left over from an earlier session is a trouble.      *)
Answered(text) == IF text = {} THEN Trouble ELSE Calm

(* Whatever fails under the lease: it was lost, or the database was.       *)
Denied(lost) == (lost /\ Calm) \/ Trouble

Up(c) == line[c].state = "up"
NoLine == [state |-> "none", token |-> 0, next |-> 1, sent |-> 0, stop |-> FALSE]
Hangup(c) == line' = [line EXCEPT ![c] = [NoLine EXCEPT !.state = "dead"]]

(* The panel takes events of its own connection only.                      *)
Hears(c) == Up(c) /\ panel.state = "live" /\ panel.line = c

(* begin_drain; the first reason given stands.                             *)
Draining(h) ==
  [h EXCEPT !.at = "drain", !.replaying = FALSE, !.todo = {}, !.cur = 0,
            !.reason = IF @ = "none" THEN "error" ELSE @]

(* An exception: before the receive loop nobody catches it, in the loop it *)
(* begins the drain, in the drain it is swallowed.                         *)
Thrown(h) ==
  IF h.replaying THEN [h EXCEPT !.at = "raised"]
  ELSE IF h.draining THEN [h EXCEPT !.at = "close"] ELSE Draining(h)

(* A send over a connection that is gone is swallowed, or it raises.       *)
Sent(c, h, thrown) == IF Up(c) THEN {h} ELSE {h, thrown}

-----------------------------------------------------------------------------
(* _reserve_session_row: the client resumes a capture with the token of    *)
(* the last session it was told of, and from the frame after its           *)
(* watermark, unless the batch scheduler has ended the capture's run.      *)
Preempts == latest # 0 /\ Leased(latest)

(* Mutant: a capture that has been closed may be resumed.                  *)
MayReserveClosed(c) ==
  latest # 0 =>
    /\ run # "over"
    /\ line[c].next <= row[latest].ack + 1
    /\ Preempts => line[c].token = latest

MayReserve(c) ==
  latest # 0 =>
    /\ row[latest].status # "CLOSED" /\ run # "over"
    /\ line[c].next <= row[latest].ack + 1
    /\ Preempts => line[c].token = latest

Staged == {f \in Seqs : frame[f] # "none"}

Reserve(c) ==
  /\ At(c, "reserve") /\ MayReserve(c)
  /\ row' = [n \in Conns |->
       IF n = c THEN [status |-> "RESERVING", ack |-> Largest(Staged \cup {0})]
       ELSE IF n = latest /\ Preempts THEN [row[n] EXCEPT !.status = "INCOMPLETE"]
       ELSE row[n]]
  /\ latest' = c
  /\ run' = IF run = "none" THEN "asr" ELSE run
  /\ Goto(c, "acquire")
  /\ UNCHANGED <<panel, line, frame, segments, pool, missed, troubles>>

(* The reservation is refused and the connection closed, or the client was *)
(* gone before it had asked for one.                                       *)
TurnAway(c) ==
  /\ At(c, "reserve") /\ (~MayReserve(c) \/ ~Up(c))
  /\ Gone(c) /\ Hangup(c)
  /\ UNCHANGED <<panel, row, latest, frame, segments, run, pool, missed, troubles>>

(* FunASRConnectionPool.acquire, and _mark_session_row_active.             *)
Activate(c) ==
  /\ At(c, "acquire") /\ pool.free > 0 /\ row[c].status = "RESERVING"
  /\ pool' = [pool EXCEPT !.free = @ - 1]
  /\ row' = [row EXCEPT ![c].status = "ACTIVE"]
  /\ Goto(c, "open")
  /\ UNCHANGED <<panel, line, latest, frame, segments, run, missed, troubles>>

(* Whatever is left of the pipeline's run when something ends badly.       *)
Retryable == IF run = "over" THEN run ELSE "failed_retryable"

(* _fail_reserved_session: no permit comes free for 30 seconds; the        *)
(* recogniser cannot be reached, and the permit it has taken by then stays *)
(* taken; the row is not marked, and the permit is given back; or the      *)
(* failure itself cannot be recorded, and the permit, if it was taken, is  *)
(* lost with it.                                                           *)
ActivateFails(c) ==
  /\ At(c, "acquire")
  /\ LET taken == IF pool.free = 0 THEN pool ELSE [pool EXCEPT !.free = @ - 1, !.lost = @ + 1] IN
       \/ /\ \/ Calm /\ pool.free = 0 /\ UNCHANGED pool
             \/ Trouble /\ pool.free > 0 /\ pool' \in {pool, taken}
          /\ row' = [row EXCEPT ![c].status = "FAILED"]
          /\ run' = Retryable
       \/ Trouble /\ pool' = taken /\ UNCHANGED <<row, run>>
  /\ Gone(c) /\ Hangup(c)
  /\ UNCHANGED <<panel, latest, frame, segments, missed>>

(* session_opened: the panel learns the token, sends everything that has   *)
(* not been acknowledged, and then finalize if it has been asked to stop.  *)
(* A reconnect that it has scheduled meanwhile stays so.                   *)
Open(c) ==
  /\ At(c, "open")
  /\ LET h == [hd[c] EXCEPT !.at = "replay", !.replaying = TRUE] IN
       \E next \in Sent(c, h, Thrown(h)) : Becomes(c, next)
  /\ IF Hears(c)
       THEN /\ panel' = [panel EXCEPT !.token = c, !.link = IF @ = "scheduled" THEN @ ELSE "ready"]
            /\ line' = [line EXCEPT ![c].sent = panel.captured, ![c].stop = panel.ending]
       ELSE UNCHANGED <<panel, line>>
  /\ UNCHANGED <<row, latest, frame, segments, run, pool, missed, troubles>>

(* Mutant: the frames that earlier epochs have left are not replayed.      *)
PendingNone == {}

(* pending_frames                                                          *)
Pending == {f \in Seqs : frame[f] = "ACCEPTED"}

Replay(c) ==
  /\ At(c, "replay") /\ row[c].status = "ACTIVE"
  /\ Becomes(c, [hd[c] EXCEPT !.at = "loop", !.todo = Pending])
  /\ UNCHANGED <<panel, line, row, latest, frame, segments, run, pool, missed, troubles>>

ReplayFails(c) ==
  /\ At(c, "replay") /\ Denied(row[c].status # "ACTIVE")
  /\ Becomes(c, Thrown(hd[c]))
  /\ UNCHANGED <<panel, line, row, latest, frame, segments, run, pool, missed>>

(* The handler ends with an exception: the row keeps its token, and the    *)
(* permit is not released.                                                 *)
Strand(c) ==
  /\ At(c, "raised")
  /\ pool' = [pool EXCEPT !.lost = @ + 1]
  /\ Gone(c) /\ Hangup(c)
  /\ UNCHANGED <<panel, row, latest, frame, segments, run, missed, troubles>>

-----------------------------------------------------------------------------
(* Mutant: the frames left over are replayed in no particular order.       *)
InHandUnordered(c) ==
  IF hd[c].todo # {} THEN Largest(hd[c].todo) ELSE line[c].next

(* The next frame: first those of earlier epochs, then what is received.   *)
InHand(c) ==
  IF hd[c].todo # {} THEN CHOOSE f \in hd[c].todo : \A g \in hd[c].todo : f <= g
  ELSE line[c].next

HasFrame(c) == At(c, "loop") /\ (hd[c].todo # {} \/ line[c].next <= line[c].sent)

Taken(c) == IF hd[c].todo # {} THEN line[c] ELSE [line[c] EXCEPT !.next = @ + 1]

Acked(c, n) == row' = [row EXCEPT ![c].ack = IF n > @ THEN n ELSE @]

(* on_pcm_chunk up to voice detection, which may close a segment.  A       *)
(* sequence that has been fed is acknowledged again.                       *)
Detected(h) ==
  IF h.cur \in h.fed THEN {[h EXCEPT !.at = "ack"]}
  ELSE {[h EXCEPT !.fed = @ \cup {h.cur}, !.closed = @ + k,
                  !.at = IF k = 1 /\ h.waiting # <<>> THEN "vad_pair" ELSE "asr"] : k \in {0, 1}}

(* OUT_OF_ORDER_SEQ: a sequence below the last that has not been fed is    *)
(* rejected, and the panel gives up when it hears so.                      *)
OutOfOrder(h) == h.cur \notin h.fed /\ h.cur < LastSeq(h)

(* stage_frame, in one transaction under the lease, and what follows.      *)
Stage(c) ==
  /\ HasFrame(c) /\ row[c].status = "ACTIVE"
  /\ LET f == InHand(c)
         h == [hd[c] EXCEPT !.replaying = hd[c].todo # {}, !.cur = f, !.todo = @ \ {f}]
         rejected == frame[f] # "CONSUMED" /\ OutOfOrder(h)
     IN
       /\ Acked(c, f)
       /\ frame' = [frame EXCEPT ![f] = IF @ = "none" THEN "ACCEPTED" ELSE @]
       /\ \E next \in IF frame[f] = "CONSUMED" THEN {[h EXCEPT !.at = "ack"]}
                      ELSE IF rejected THEN {[h EXCEPT !.cur = 0]} ELSE Detected(h) :
            Becomes(c, next)
       /\ IF rejected /\ Hears(c)
            THEN /\ panel' = [panel EXCEPT !.state = "failed"]
                 /\ line' = [line EXCEPT ![c] = [Taken(c) EXCEPT !.state = "dead"]]
            ELSE UNCHANGED panel /\ line' = [line EXCEPT ![c] = Taken(c)]
  /\ UNCHANGED <<latest, segments, run, pool, missed, troubles>>

(* Mutant: a frame is acknowledged although it could not be stored.        *)
StageFailsAcked(c) ==
  /\ HasFrame(c) /\ Denied(row[c].status # "ACTIVE")
  /\ Becomes(c, [hd[c] EXCEPT !.cur = InHand(c), !.at = "ack"])
  /\ line' = [line EXCEPT ![c] = Taken(c)]
  /\ UNCHANGED <<panel, row, latest, frame, segments, run, pool, missed>>

(* FRAME_STAGING_FAILED, or the token's 401: the drain begins.             *)
StageFails(c) ==
  /\ HasFrame(c) /\ Denied(row[c].status # "ACTIVE")
  /\ Becomes(c, Draining(hd[c])) /\ line' = [line EXCEPT ![c] = Taken(c)]
  /\ UNCHANGED <<panel, row, latest, frame, segments, run, pool, missed>>

(* asr_adapter.push_pcm: whatever answer can be read next is taken, and is *)
(* filed under this frame if it is a sentence.                             *)
Hear(c) ==
  /\ At(c, "asr")
  /\ LET all == hd[c].heard \cup {hd[c].cur}
         said(text) == [text |-> text, seq |-> hd[c].cur]
     IN \/ Calm /\ Becomes(c, [hd[c] EXCEPT !.heard = all, !.at = "ack"])
        \/ \E text \in {{}} \cup Prefixes(all) :
             /\ Answered(text)
             /\ Becomes(c, [hd[c] EXCEPT !.heard = all \ text, !.waiting = Append(@, said(text)),
                                         !.at = IF hd[c].closed > 0 THEN "asr_pair" ELSE "ack"])
  /\ UNCHANGED <<panel, line, row, latest, frame, segments, run, pool, missed>>

(* A push that raises is acknowledged all the same: the frame was not      *)
(* sent, or the answer did not come in time or could not be read.          *)
HearFails(c) ==
  /\ At(c, "asr") /\ Trouble
  /\ LET all == hd[c].heard \cup {hd[c].cur} IN
       \/ missed' = missed \cup {hd[c].cur} /\ Goto(c, "ack")
       \/ \E lost \in {{}} \cup Prefixes(all) :
            missed' = missed \cup lost /\ Becomes(c, [hd[c] EXCEPT !.heard = all \ lost, !.at = "ack"])
  /\ UNCHANGED <<panel, line, row, latest, frame, segments, run, pool>>

(* frame_ack                                                               *)
Ack(c) ==
  /\ At(c, "ack")
  /\ LET h == [hd[c] EXCEPT !.at = "loop", !.cur = 0] IN
       \E next \in Sent(c, h, Thrown(h)) : Becomes(c, next)
  /\ panel' = IF Hears(c) /\ hd[c].cur > panel.acked
                THEN [panel EXCEPT !.acked = hd[c].cur] ELSE panel
  /\ UNCHANGED <<line, row, latest, frame, segments, run, pool, missed, troubles>>

-----------------------------------------------------------------------------
(* The sentence at the head of the queue is paired with the first closed   *)
(* segment and leaves both queues, whatever becomes of it.                 *)
Pairing == {"vad_pair", "asr_pair", "final_pair"}
Said(c) == Head(hd[c].waiting)
Paired(h) == [h EXCEPT !.waiting = Tail(@), !.closed = @ - 1]

(* on_finalize has come to its end: the reason is normal unless there is   *)
(* another.                                                                *)
Finished(h) ==
  [h EXCEPT !.finished = TRUE, !.reason = IF @ = "none" THEN "normal" ELSE @,
            !.at = IF h.draining THEN "close" ELSE "drain"]

(* A sentence is taken for a stored one with the same key, whatever it     *)
(* says.  The key is the sequence and the recogniser's number, which is 0  *)
(* when it gives none: under one sequence two may or may not be the same.  *)
Filed(s) == \E t \in segments : t.seq = s.seq
Entry(s) == [text |-> s.text, seq |-> s.seq, again |-> Filed(s)]

Consumed(s) ==
  [f \in Seqs |-> IF f <= s.seq /\ frame[f] = "ACCEPTED" THEN "CONSUMED" ELSE frame[f]]

(* Frames a sentence consumes that the recogniser answers for later.       *)
Late(c) ==
  {f \in 1..Said(c).seq :
     f \in hd[c].heard \/ \E i \in 2..Len(hd[c].waiting) : f \in hd[c].waiting[i].text}

(* Mutant: the lease is not looked at when a sentence is stored.           *)
MayPersistUnfenced(c) == TRUE

MayPersist(c) == row[c].status \in {"ACTIVE", "DRAINING", "COMMITTING"}

(* persist_confirmed, which needs a run that has not been ended if the     *)
(* sentence is new, and segment_confirmed to the panel.  If that raises    *)
(* the frame at hand has been fed to detection only.                       *)
Persist(c) ==
  /\ hd[c].at \in Pairing /\ MayPersist(c)
  /\ \/ Filed(Said(c)) /\ UNCHANGED <<segments, run>>
     \/ run # "over" /\ segments' = segments \cup {Entry(Said(c))} /\ run' = "segments"
  /\ frame' = Consumed(Said(c))
  /\ Acked(c, Said(c).seq)
  /\ LET stored == [Paired(hd[c]) EXCEPT !.wrote = TRUE]
         h == CASE At(c, "vad_pair") -> [stored EXCEPT !.at = "asr"]
                [] At(c, "asr_pair") -> [stored EXCEPT !.at = "ack"]
                [] OTHER -> Finished(stored)
         thrown == Thrown(stored)
     IN \E next \in Sent(c, h, thrown) :
          /\ Becomes(c, next)
          /\ missed' = missed \cup Late(c)
                         \cup IF At(c, "vad_pair") /\ next = thrown THEN {hd[c].cur} ELSE {}
  /\ UNCHANGED <<panel, line, latest, pool, troubles>>

(* A sentence that cannot be stored begins the drain; the frame at hand is *)
(* not heard any more.                                                     *)
PersistFails(c) ==
  /\ hd[c].at \in Pairing /\ Denied(~MayPersist(c) \/ run = "over")
  /\ LET h == Draining(Paired(hd[c])) IN Becomes(c, IF At(c, "final_pair") THEN Finished(h) ELSE h)
  /\ missed' = IF ~Leased(c) THEN missed
               ELSE missed \cup Said(c).text \cup IF At(c, "vad_pair") THEN {hd[c].cur} ELSE {}
  /\ UNCHANGED <<panel, line, row, latest, frame, segments, run, pool>>

-----------------------------------------------------------------------------
(* on_finalize: detection may close a last segment and the recogniser may  *)
(* confirm a sentence, which is filed under the last frame it was given.   *)
(* Its drain stops at the first, or after 5 seconds.                       *)
Quiet(h) == {[h EXCEPT !.closed = @ + k, !.at = "final_pair"] : k \in {0, 1}}
Confirmed(h, text) ==
  [h EXCEPT !.heard = @ \ text, !.waiting = Append(@, [text |-> text, seq |-> LastSeq(h)])]
Over(h) == IF h.closed > 0 /\ h.waiting # <<>> THEN h ELSE Finished(h)

Finalizing(h) ==
  {Over(g) : g \in Quiet(h)}
    \cup {Over(Confirmed(g, text)) : g \in Quiet(h), text \in Prefixes(h.heard)}
Leftover(h) == IF h.fed = {} THEN {} ELSE {Over(Confirmed(g, {})) : g \in Quiet(h)}

(* The panel asks for the end, after all frames it has sent.               *)
ReceiveFinalize(c) ==
  /\ At(c, "loop") /\ ~HasFrame(c) /\ line[c].stop
  /\ LET h == [hd[c] EXCEPT !.replaying = FALSE] IN
       \/ Calm /\ \E next \in Finalizing(h) : Becomes(c, next)
       \/ Trouble /\ \E next \in Leftover(h) : Becomes(c, next)
  /\ UNCHANGED <<panel, line, row, latest, frame, segments, run, pool, missed>>

(* The connection is gone.  A receive that finds out is an error; a ping   *)
(* that finds out leaves the loop with no reason at all.                   *)
Disconnect(c) ==
  /\ At(c, "loop") /\ hd[c].todo = {} /\ ~Up(c)
  /\ \E why \in {"error", "none"} : Becomes(c, [Draining(hd[c]) EXCEPT !.reason = why])
  /\ UNCHANGED <<panel, line, row, latest, frame, segments, run, pool, missed, troubles>>

(* The row is marked DRAINING, a failure is suppressed; then on_finalize,  *)
(* unless the panel has had it already.                                    *)
Drain(c) ==
  /\ At(c, "drain")
  /\ LET h == [hd[c] EXCEPT !.draining = TRUE]
         marked == IF row[c].status = "ACTIVE" THEN [row EXCEPT ![c].status = "DRAINING"] ELSE row
         ends == IF h.finished THEN {Finished(h)} ELSE Finalizing(h)
         leftover == IF h.finished THEN {} ELSE Leftover(h)
     IN \/ Calm /\ row' = marked /\ \E next \in ends : Becomes(c, next)
        \/ Trouble /\ row' = marked /\ \E next \in leftover : Becomes(c, next)
        \/ Trouble /\ UNCHANGED row /\ \E next \in ends \cup leftover : Becomes(c, next)
  /\ UNCHANGED <<panel, line, latest, frame, segments, run, pool, missed>>

(* Mutant: the permit is released only by a handler that could persist its *)
(* end.                                                                    *)
ReleasedIfPersisted(c) ==
  IF row[c].status = "DRAINING" THEN [pool EXCEPT !.free = @ + 1] ELSE pool

(* Mutant: the permit is given back twice.                                 *)
ReleasedTwice(c) == [pool EXCEPT !.free = @ + 2]

Released(c) == [pool EXCEPT !.free = @ + 1]

Ended(c) == pool' = Released(c) /\ Gone(c) /\ Hangup(c)

(* The row is marked COMMITTING and given its end (_persist_session_row),  *)
(* then session_closed, which the panel takes for the end of the capture   *)
(* whatever reason it gives.                                               *)
Close(c) ==
  /\ At(c, "close") /\ row[c].status = "DRAINING"
  /\ row' = [row EXCEPT ![c] =
       [status |-> CASE hd[c].reason = "normal" -> "CLOSED" [] hd[c].reason = "error" -> "FAILED"
                     [] OTHER -> "INCOMPLETE",
        ack |-> LastSeq(hd[c])]]
  /\ run' = IF hd[c].reason # "normal" \/ run = "over" THEN Retryable
            ELSE IF hd[c].wrote THEN "projections" ELSE "partial"
  /\ panel' = IF Hears(c) THEN [panel EXCEPT !.state = "committed"] ELSE panel
  /\ Ended(c)
  /\ UNCHANGED <<latest, frame, segments, missed, troubles>>

(* SESSION_COMMIT_FAILED: the row stays as far as it got.                  *)
CloseFails(c) ==
  /\ At(c, "close") /\ Denied(row[c].status # "DRAINING")
  /\ row' \in {row} \cup IF row[c].status = "DRAINING" THEN {[row EXCEPT ![c].status = "COMMITTING"]}
                         ELSE {}
  /\ Ended(c)
  /\ UNCHANGED <<panel, latest, frame, segments, run, missed>>

HandlerStep(c) ==
  \/ Reserve(c) \/ TurnAway(c) \/ Activate(c) \/ ActivateFails(c)
  \/ Open(c) \/ Replay(c) \/ ReplayFails(c) \/ Strand(c)
  \/ Stage(c) \/ StageFails(c) \/ Hear(c) \/ HearFails(c) \/ Ack(c)
  \/ Persist(c) \/ PersistFails(c)
  \/ ReceiveFinalize(c) \/ Disconnect(c) \/ Drain(c) \/ Close(c) \/ CloseFails(c)
=============================================================================
