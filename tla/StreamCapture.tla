---------------------------- MODULE StreamCapture -----------------------------
(***************************************************************************)
(* A live capture: the panel in the browser that records, keeps every      *)
(* frame until it is acknowledged and reconnects                           *)
(* (LiveAudioCapturePanel.tsx), the connections between them, which may    *)
(* break without either end noticing, and the handlers of StreamSession.   *)
(* What is delivered is delivered at once; an acknowledgement that is lost *)
(* in flight is one sent to a connection that had broken.                  *)
(***************************************************************************)
EXTENDS StreamSession

Links == {"scheduled", "opening", "ready"}

TypeOK ==
  /\ panel \in [state : {"live", "committed", "failed"}, link : Links, line : 0..Lines,
                token : 0..Lines, captured : 0..Frames, acked : 0..Frames, ending : BOOLEAN]
  /\ line \in [Conns -> [state : {"none", "up", "dead"}, token : 0..Lines,
                         next : 1..Frames + 1, sent : 0..Frames, stop : BOOLEAN]]
  /\ row \in [Conns -> [status : RowStates, ack : 0..Frames]]
  /\ latest \in 0..Lines
  /\ frame \in [Seqs -> {"none", "ACCEPTED", "CONSUMED"}]
  /\ segments \subseteq Stored
  /\ run \in RunStates
  /\ hd \in [Conns -> Handlers]
  /\ pool \in [size : PoolSizes, free : Nat, lost : Nat]
  /\ pool.free + pool.lost <= pool.size
  /\ missed \subseteq Seqs
  /\ troubles \in 0..MaxTroubles[pool.size]

(* The user has pressed start; the first connection is about to be opened. *)
Init ==
  /\ panel = [state |-> "live", link |-> "scheduled", line |-> 0, token |-> 0,
              captured |-> 0, acked |-> 0, ending |-> FALSE]
  /\ line = [c \in Conns |-> NoLine]
  /\ row = [c \in Conns |-> [status |-> "none", ack |-> 0]]
  /\ latest = 0
  /\ frame = [f \in Seqs |-> "none"]
  /\ segments = {}
  /\ run = "none"
  /\ hd = [c \in Conns |-> Fresh("off")]
  /\ pool \in {[size |-> n, free |-> n, lost |-> 0] : n \in PoolSizes}
  /\ missed = {}
  /\ troubles = 0

Served == <<row, latest, frame, segments, run, pool, missed, troubles>>

-----------------------------------------------------------------------------
Going == panel.state = "live"
Current == panel.line
HasLine == panel.link \in {"opening", "ready"}

(* terminalFailure and scheduleReconnect: three attempts in all.           *)
Failed(p) == [p EXCEPT !.state = "failed"]
Reconnecting(p) == IF p.line < Lines THEN [p EXCEPT !.link = "scheduled"] ELSE Failed(p)

(* openConnection with a new ticket; a reconnect needs the token that only *)
(* session_opened hands out.                                               *)
Dial ==
  /\ Going /\ panel.link = "scheduled" /\ (Current = 0 \/ panel.token # 0)
  /\ LET c == Current + 1 IN
       /\ panel' = [panel EXCEPT !.link = "opening", !.line = c]
       /\ line' = [line EXCEPT ![c] = [NoLine EXCEPT !.state = "up", !.token = panel.token,
                                 !.next = panel.acked + 1, !.sent = panel.acked]]
       /\ Goto(c, "reserve")
  /\ UNCHANGED Served

NoToken ==
  /\ Going /\ panel.link = "scheduled" /\ Current # 0 /\ panel.token = 0
  /\ panel' = Failed(panel)
  /\ UNCHANGED <<line, hd>> /\ UNCHANGED Served

(* enqueuePcm                                                              *)
Capturing == Going /\ panel.token # 0 /\ ~panel.ending
Sending == panel.link = "ready" /\ line[Current].state = "up"

Capture ==
  /\ Capturing /\ panel.captured < Length[pool.size]
  /\ panel.captured - panel.acked < MaxPending
  /\ panel' = [panel EXCEPT !.captured = @ + 1]
  /\ line' = IF Sending THEN [line EXCEPT ![Current].sent = panel.captured + 1] ELSE line
  /\ UNCHANGED hd /\ UNCHANGED Served

Overflow ==
  /\ Capturing /\ panel.captured < Length[pool.size]
  /\ panel.captured - panel.acked >= MaxPending
  /\ panel' = Failed(panel)
  /\ line' = IF HasLine THEN [line EXCEPT ![Current].state = "dead"] ELSE line
  /\ UNCHANGED hd /\ UNCHANGED Served

(* finalize: on a connection that is not ready it is left for the next,    *)
(* which replaces one that is still opening.                               *)
Stop ==
  /\ Capturing
  /\ LET p == [panel EXCEPT !.ending = TRUE] IN
       panel' = IF panel.link = "opening" THEN Reconnecting(p) ELSE p
  /\ line' = IF Sending THEN [line EXCEPT ![Current].stop = TRUE]
            ELSE IF panel'.state = "failed" THEN [line EXCEPT ![Current].state = "dead"]
            ELSE line
  /\ UNCHANGED hd /\ UNCHANGED Served

(* Mutant: a panel that has been told to stop does not reconnect.          *)
NoticeUnlessEnding ==
  /\ Going /\ HasLine /\ line[Current].state = "dead" /\ ~panel.ending
  /\ panel' = Reconnecting(panel)
  /\ UNCHANGED <<line, hd>> /\ UNCHANGED Served

(* onclose                                                                 *)
Notice ==
  /\ Going /\ HasLine /\ line[Current].state = "dead"
  /\ panel' = Reconnecting(panel)
  /\ UNCHANGED <<line, hd>> /\ UNCHANGED Served

-----------------------------------------------------------------------------
(* A connection breaks; what was sent over it may or may not be read.      *)
Break(c) ==
  /\ line[c].state = "up"
  /\ line' = [line EXCEPT ![c].state = "dead"]
  /\ UNCHANGED <<panel, hd>> /\ UNCHANGED Served

(* The server is restarted: handlers, connections and the pool are new.    *)
Crash ==
  /\ Trouble /\ \E c \in Conns : ~At(c, "off")
  /\ hd' = [c \in Conns |-> Fresh("off")]
  /\ line' = [c \in Conns |-> IF line[c].state = "none" THEN NoLine ELSE [NoLine EXCEPT !.state = "dead"]]
  /\ pool' = [pool EXCEPT !.free = pool.size, !.lost = 0]
  /\ UNCHANGED <<panel, row, latest, frame, segments, run, missed>>

(* The batch scheduler of PipelineRun, seen from here: it claims runs that *)
(* have no lease, a capture's run has none, and so it may fail or end one  *)
(* that is being spoken to (PIPELINE_RUN_CLAIMABLE_STATES).                *)
Batch ==
  /\ Trouble /\ run \in {"asr", "segments", "failed_retryable"}
  /\ run' \in {"failed_retryable", "over"}
  /\ UNCHANGED <<panel, line, row, latest, frame, segments, hd, pool, missed>>

Client == Dial \/ NoToken \/ Capture \/ Overflow \/ Stop \/ Notice

Next ==
  \/ Client \/ Crash \/ Batch
  \/ \E c \in Conns : HandlerStep(c) \/ Break(c)

Spec == Init /\ [][Next]_vars

(* Handlers go on, timers fire and a broken connection is noticed in the   *)
(* end by whoever depends on it.  Nobody has to speak or to stop.          *)
Fairness ==
  /\ WF_vars(Dial) /\ WF_vars(NoToken) /\ WF_vars(Notice)
  /\ \A c \in Conns : WF_vars(HandlerStep(c))

FairSpec == Spec /\ Fairness

-----------------------------------------------------------------------------
(* A frame that is marked CONSUMED, which no later epoch will replay, is   *)
(* part of a stored sentence, but for what `missed` counts: frames that a  *)
(* failure the handler saw kept from being heard or stored, and frames the *)
(* recogniser had not answered for when a sentence was filed behind them.  *)
(* Consumption goes by sequence number (persist_confirmed takes every      *)
(* ACCEPTED frame up to the sentence's) and the sentence by what the       *)
(* recogniser has answered, whichever epoch stored it.                     *)
ConsumedIsDurable ==
  \A f \in Seqs :
    frame[f] = "CONSUMED" => f \in missed \/ \E s \in segments : f \in s.text

(* No frame goes into two sentences from the session that gave it to the   *)
(* recogniser and stored the sentence, although each epoch hears again all *)
(* that the one before has left: the handler of an abandoned connection    *)
(* may still be about to store its own.  The lease and the replay of       *)
(* nothing but ACCEPTED frames must work together.  A sentence that was    *)
(* left unread on a reused connection of the recogniser is outside this:   *)
(* nothing tells it from one of this session.                              *)
SpokenOnce == \A s, t \in segments : s # t => s.text \cap t.text = {}

(* What the panel forgets is in the database: every frame that it has had  *)
(* an acknowledgement of, on whichever connection, and all it has captured *)
(* when the capture was closed for good.                                   *)
CommittedForGood == panel.state = "committed" /\ row[Current].status = "CLOSED"
Forgotten == 1..(IF CommittedForGood THEN panel.captured ELSE panel.acked)

AcknowledgedIsStaged == \A f \in Forgotten : frame[f] # "none"

(* A panel that resends what it has no acknowledgement of, to a handler    *)
(* that has replayed what it finds stored, is never told OUT_OF_ORDER_SEQ, *)
(* which would end the capture.                                            *)
ResendsAreInOrder ==
  \A c \in Conns :
    HasFrame(c) /\ row[c].status = "ACTIVE" =>
      frame[InHand(c)] = "CONSUMED" \/ ~OutOfOrder([hd[c] EXCEPT !.cur = InHand(c)])

(* When no handler is left every permit is back, but those that a failing  *)
(* connect or an exception before the receive loop has lost until the next *)
(* restart: however a handler ends, it releases what it took, once.        *)
PermitsReturn ==
  (\A c \in Conns : At(c, "off")) => pool.free + pool.lost = pool.size

(* Once a session of the capture has closed normally nothing is staged,    *)
(* stored or handed to the pipeline any more: no abandoned handler and no  *)
(* late reconnect gets through the lease or the reservation.               *)
Closed == \E c \in Conns : row[c].status = "CLOSED"
ClosedIsFinal == [][Closed => UNCHANGED <<frame, segments, run>>]_vars

(* The capture as Transcript sees it: how many frames are staged, how far  *)
(* sentences have consumed them, and the frames of each sentence.          *)
Consumption == {f \in Seqs : frame[f] = "CONSUMED"}
Kept == Largest(Staged \cup {0})
Spoken == Largest(Consumption \cup {0})
Texts == {s.text : s \in segments}
Promise ==
  INSTANCE Transcript WITH kept <- Kept, told <- panel.acked, spoken <- Spoken, sentences <- Texts

(* What the capture promises is implemented: the panel is told of frames   *)
(* that are stored, whatever handlers, leases and replays do; sentences    *)
(* are stored in the order of their frames, each made of frames of its     *)
(* own, and leave out only what is counted as missed; and nothing is added *)
(* after the end, or once the batch scheduler has ended the run.           *)
ImplementsTranscript == Promise!Spec

(* A panel that has been asked to stop comes to an end, committed or       *)
(* failed, through lost connections, refused resumptions, failed           *)
(* recognition and server restarts.                                        *)
CaptureEnds == panel.ending ~> ~Going
=============================================================================
