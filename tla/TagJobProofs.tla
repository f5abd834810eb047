----------------------------- MODULE TagJobProofs -----------------------------
(***************************************************************************)
(* Theorems about TagJob for every number of workers, items, attempts and  *)
(* retries, every lease length and every budget.                           *)
(***************************************************************************)
EXTENDS TagJob, TLAPS, FiniteSetTheorems

-----------------------------------------------------------------------------
(* What the helpers return.                                                *)

(* Releasing the lease leaves a well-formed row.                           *)
LEMMA ReleasedType ==
  ASSUME NEW row \in JobRows, NEW status \in Statuses
  PROVE  Released(row, status) \in JobRows
<1>1. 0 \in 0..LeaseTTL
  BY NumbersAssumption
<1>2. QED
  BY <1>1 DEF Released, JobRows

(* So does settling a reservation.                                         *)
LEMMA SettledType ==
  ASSUME TypeOK, NEW w \in Workers
  PROVE  Settled(w) \in JobRows
<1>1. Charge(w) \in Nat
  BY DEF TypeOK, JobRows, WorkerStates, Charge
<1>2. job \in JobRows /\ job.consumed + Charge(w) \in Nat
  BY <1>1 DEF TypeOK, JobRows
<1>3. QED
  BY <1>2 DEF Settled, JobRows

(* A worker that moves on, or raises, keeps a well-formed local state.     *)
LEMMA GotoType ==
  ASSUME TypeOK, NEW w \in Workers, NEW phase \in Phases, Goto(w, phase)
  PROVE  wk' \in [Workers -> WorkerStates]
BY DEF TypeOK, Goto, WorkerStates

(* ... and leaving _execute_claimed with an error.                         *)
LEMMA RaiseType ==
  ASSUME TypeOK, NEW w \in Workers, NEW code \in Codes, Raise(w, code)
  PROVE  wk' \in [Workers -> WorkerStates]
<1>1. [Idle EXCEPT !.phase = "abort", !.code = code] \in WorkerStates
  BY DEF Idle, WorkerStates, Phases, Outcomes
<1>2. QED
  BY <1>1 DEF Raise, TypeOK

(* Raising concerns the worker alone, which is then out of the loop.       *)
LEMMA RaiseIs ==
  ASSUME TypeOK, NEW w \in Workers, NEW code, Raise(w, code)
  PROVE  /\ wk'[w].phase = "abort"
         /\ \A v \in Workers : v # w => wk'[v] = wk[v]
<1>1. /\ wk' = [wk EXCEPT ![w] = [Idle EXCEPT !.phase = "abort", !.code = code]]
      /\ wk \in [Workers -> WorkerStates]
  BY DEF Raise, TypeOK
<1>2. [Idle EXCEPT !.phase = "abort", !.code = code].phase = "abort"
  BY DEF Idle
<1>3. QED
  BY <1>1, <1>2

(* So does going on to the next item, which it does with what it is given. *)
LEMMA NextItemIs ==
  ASSUME TypeOK, NEW w \in Workers, NEW R, NEW clean, NextItem(w, R, clean)
  PROVE  /\ wk'[w].phase = "scan" /\ wk'[w].remaining = R
         /\ \A v \in Workers : v # w => wk'[v] = wk[v]
<1>1. /\ wk' = [wk EXCEPT ![w] = [Idle EXCEPT !.phase = "scan", !.remaining = R, !.clean = clean]]
      /\ wk \in [Workers -> WorkerStates]
  BY DEF NextItem, TypeOK
<1>2. /\ [Idle EXCEPT !.phase = "scan", !.remaining = R, !.clean = clean].phase = "scan"
      /\ [Idle EXCEPT !.phase = "scan", !.remaining = R, !.clean = clean].remaining = R
  BY DEF Idle
<1>3. QED
  BY <1>1, <1>2

(* What Advance does to the row, the history and its worker.               *)
LEMMA AdvanceIs ==
  ASSUME TypeOK, NEW w \in Workers, Advance(w)
  PROVE  \E i \in wk[w].remaining :
           /\ \A k \in wk[w].remaining : i <= k
           /\ wk'[w].phase = "scan" /\ wk'[w].remaining = wk[w].remaining \ {i}
           /\ \A v \in Workers : v # w => wk'[v] = wk[v]
           /\ hist'.touched = hist.touched \cup {i}
           /\ hist'.interrupted = hist.interrupted /\ hist'.spent = hist.spent
           /\ fresh' = {w} /\ job'.status = "running" /\ job'.owner = w
           /\ job'.consumed = job.consumed /\ job'.reserved = job.reserved
           /\ job'.published = job.published
           /\ \/ /\ hist'.done = hist.done \cup {i} /\ job'.subset = job.subset \ {i}
                 /\ job'.completed = job.completed + 1 /\ job'.failed = job.failed
              \/ /\ hist'.done = hist.done /\ job'.subset = job.subset \cup {i}
                 /\ job'.completed = job.completed /\ job'.failed = job.failed + 1
<1>1. PICK i \in wk[w].remaining :
        /\ \A k \in wk[w].remaining : i <= k
        /\ hist' = [hist EXCEPT !.touched = @ \cup {i},
                               !.done = IF wk[w].outcome = "ok" THEN @ \cup {i} ELSE @]
        /\ \/ /\ wk[w].outcome = "ok"
              /\ job' = [job EXCEPT !.completed = job.completed + 1,
                                    !.subset = job.subset \ {i}, !.ttl = LeaseTTL]
              /\ NextItem(w, wk[w].remaining \ {i}, wk[w].clean)
           \/ /\ wk[w].outcome # "ok"
              /\ job' = [job EXCEPT !.failed = job.failed + 1,
                                    !.subset = job.subset \cup {i}, !.ttl = LeaseTTL]
              /\ NextItem(w, wk[w].remaining \ {i}, FALSE)
  BY DEF Advance
<1>2. /\ wk'[w].phase = "scan" /\ wk'[w].remaining = wk[w].remaining \ {i}
      /\ \A v \in Workers : v # w => wk'[v] = wk[v]
  BY <1>1, NextItemIs
<1>3. /\ job.status = "running" /\ job.owner = w /\ fresh' = {w}
  BY DEF Advance, Leased, Fenced, Bump
<1>4. /\ hist'.touched = hist.touched \cup {i}
      /\ hist'.interrupted = hist.interrupted /\ hist'.spent = hist.spent
      /\ hist'.done = IF wk[w].outcome = "ok" THEN hist.done \cup {i} ELSE hist.done
  BY <1>1 DEF TypeOK, Histories
<1>5. /\ job'.status = job.status /\ job'.owner = job.owner /\ job'.published = job.published
      /\ job'.consumed = job.consumed /\ job'.reserved = job.reserved
      /\ \/ /\ wk[w].outcome = "ok" /\ job'.subset = job.subset \ {i}
            /\ job'.completed = job.completed + 1 /\ job'.failed = job.failed
         \/ /\ wk[w].outcome # "ok" /\ job'.subset = job.subset \cup {i}
            /\ job'.completed = job.completed /\ job'.failed = job.failed + 1
  BY <1>1 DEF TypeOK, JobRows
<1>6. QED
  BY <1>1, <1>2, <1>3, <1>4, <1>5

(* Going on to the next item leaves a well-formed local state.             *)
LEMMA NextItemType ==
  ASSUME TypeOK, NEW w \in Workers, NEW R \in SUBSET Items, NEW clean \in BOOLEAN,
         NextItem(w, R, clean)
  PROVE  wk' \in [Workers -> WorkerStates]
<1>1. [Idle EXCEPT !.phase = "scan", !.remaining = R, !.clean = clean] \in WorkerStates
  BY DEF Idle, WorkerStates, Phases, Outcomes, Codes
<1>2. QED
  BY <1>1 DEF NextItem, TypeOK

(* A worker that has nothing to do.                                        *)
LEMMA IdleType ==
  ASSUME TypeOK, NEW w \in Workers, wk' = [wk EXCEPT ![w] = Idle]
  PROVE  wk' \in [Workers -> WorkerStates]
BY DEF TypeOK, Idle, WorkerStates, Phases, Outcomes, Codes

-----------------------------------------------------------------------------
(* Type correctness.                                                       *)

(* An enqueued job.                                                        *)
LEMMA TypeInit == Init => TypeOK
BY WorkersAssumption, NumbersAssumption
   DEF Init, TypeOK, JobRows, WorkerStates, Histories, Items, Statuses, Phases,
       Outcomes, Codes, Idle

(* Every transaction of the worker, the clock and the users keeps the row  *)
(* and the workers' local state well formed.                               *)
LEMMA TypeStep == TypeOK /\ [Next]_vars => TypeOK'
<1> SUFFICES ASSUME TypeOK, [Next]_vars PROVE TypeOK'
  OBVIOUS
<1> USE WorkersAssumption, NumbersAssumption
<1>1. CASE UNCHANGED vars
  BY <1>1 DEF vars, TypeOK
<1>2. ASSUME NEW w \in Workers, Claim(w) PROVE TypeOK'
  <2>1. job' \in JobRows
    <3>1. job' = [job EXCEPT !.status = "running", !.owner = w, !.ttl = LeaseTTL,
                               !.attempt = job.attempt + 1,
                               !.consumed = job.consumed + job.reserved,
                               !.reserved = 0]
      BY <1>2 DEF Claim
    <3>2. job.attempt + 1 \in 0..MaxAttempts /\ job.consumed + job.reserved \in Nat
      BY <1>2 DEF Claim, TypeOK, JobRows
    <3>3. LeaseTTL \in 0..LeaseTTL
      OBVIOUS
    <3>4. QED
      BY <3>1, <3>2, <3>3 DEF TypeOK, JobRows, Statuses
  <2>2. wk' \in [Workers -> WorkerStates]
    <3>1. Remaining \in SUBSET Items
      BY DEF Remaining, TypeOK, JobRows
    <3>2. QED
      BY <1>2, <3>1, NextItemType DEF Claim
  <2>3. hist' \in Histories
    BY <1>2 DEF Claim, TypeOK, Histories
  <2>4. /\ fresh' \in SUBSET Workers /\ budget' \in Budgets /\ retries' \in 0..MaxRetries
    BY <1>2 DEF Claim, Bump, TypeOK
  <2>5. QED
    BY <2>1, <2>2, <2>3, <2>4 DEF TypeOK
<1>3. ASSUME NEW w \in Workers, ClaimExhausted(w) PROVE TypeOK'
  <2>1. job' \in JobRows
    BY <1>3 DEF ClaimExhausted, TypeOK, JobRows, Statuses
  <2>2. /\ fresh' \in SUBSET Workers /\ budget' \in Budgets /\ retries' \in 0..MaxRetries
       /\ wk' \in [Workers -> WorkerStates]
       /\ hist' \in Histories
    BY <1>3 DEF ClaimExhausted, TypeOK
  <2>3. QED
    BY <2>1, <2>2 DEF TypeOK
<1>4. ASSUME NEW w \in Workers, ScanNext(w) PROVE TypeOK'
  <2>1. wk' \in [Workers -> WorkerStates]
    BY <1>4, GotoType, RaiseType DEF ScanNext, Phases, Codes
  <2>2. /\ fresh' \in SUBSET Workers /\ budget' \in Budgets /\ retries' \in 0..MaxRetries
       /\ job' \in JobRows
       /\ hist' \in Histories
    BY <1>4 DEF ScanNext, TypeOK
  <2>3. QED
    BY <2>1, <2>2 DEF TypeOK
<1>5. ASSUME NEW w \in Workers, ScanDone(w) PROVE TypeOK'
  <2>1. wk' \in [Workers -> WorkerStates]
    BY <1>5, GotoType DEF ScanDone, Phases
  <2>2. /\ fresh' \in SUBSET Workers /\ budget' \in Budgets /\ retries' \in 0..MaxRetries
       /\ job' \in JobRows
       /\ hist' \in Histories
    BY <1>5 DEF ScanDone, TypeOK
  <2>3. QED
    BY <2>1, <2>2 DEF TypeOK
<1>6. ASSUME NEW w \in Workers, Reserve(w) PROVE TypeOK'
  <2> Remainder \in Nat
    <3>1. ~Spent /\ budget.calls \in Nat /\ job.consumed \in Nat
      BY <1>6 DEF Reserve, TypeOK, JobRows
    <3>2. QED
      BY <3>1 DEF Remainder, Spent
  <2>1. job' \in JobRows
    BY <1>6 DEF Reserve, TypeOK, JobRows
  <2>2. wk' \in [Workers -> WorkerStates]
    <3>1. wk[w] \in WorkerStates
      BY DEF TypeOK
    <3>2. [[wk[w] EXCEPT !.phase = "process"] EXCEPT !.allow = Remainder]
            \in WorkerStates
      BY <3>1 DEF WorkerStates, Phases
    <3>3. QED
      BY <1>6, <3>2 DEF Reserve, TypeOK
  <2>3. /\ fresh' \in SUBSET Workers /\ budget' \in Budgets /\ retries' \in 0..MaxRetries
       /\ hist' \in Histories
    BY <1>6 DEF Reserve, Bump, TypeOK
  <2>4. QED
    BY <2>1, <2>2, <2>3 DEF TypeOK
<1>7. ASSUME NEW w \in Workers, ReserveExhausted(w) PROVE TypeOK'
  <2>1. job' \in JobRows
    BY <1>7 DEF ReserveExhausted, TypeOK, JobRows
  <2>2. wk' \in [Workers -> WorkerStates]
    BY <1>7, RaiseType DEF ReserveExhausted, Codes
  <2>3. /\ fresh' \in SUBSET Workers /\ budget' \in Budgets /\ retries' \in 0..MaxRetries
       /\ hist' \in Histories
    BY <1>7 DEF ReserveExhausted, TypeOK
  <2>4. QED
    BY <2>1, <2>2, <2>3 DEF TypeOK
<1>8. ASSUME NEW w \in Workers, Process(w) PROVE TypeOK'
  <2>1. wk' \in [Workers -> WorkerStates]
    <3>1. PICK used \in 0..wk[w].allow, outcome \in Outcomes :
            wk' = [wk EXCEPT ![w].phase = "settle", ![w].used = used,
                             ![w].outcome = outcome]
      BY <1>8 DEF Process
    <3>2. wk[w] \in WorkerStates /\ used \in Nat
      BY DEF TypeOK, WorkerStates
    <3>3. [[[wk[w] EXCEPT !.phase = "settle"] EXCEPT !.used = used]
             EXCEPT !.outcome = outcome] \in WorkerStates
      BY <3>2 DEF WorkerStates, Phases
    <3>4. QED
      BY <3>1, <3>3 DEF TypeOK
  <2>2. hist' \in Histories
    <3>1. wk[w].allow \in Nat
      BY DEF TypeOK, WorkerStates
    <3>2. QED
      BY <1>8, <3>1 DEF Process, TypeOK, Histories
  <2>3. /\ fresh' \in SUBSET Workers /\ budget' \in Budgets /\ retries' \in 0..MaxRetries
       /\ job' \in JobRows
    BY <1>8 DEF Process, TypeOK
  <2>4. QED
    BY <2>1, <2>2, <2>3 DEF TypeOK
<1>9. ASSUME NEW w \in Workers, Settle(w) PROVE TypeOK'
  <2>1. job' \in JobRows
    BY <1>9, SettledType DEF Settle
  <2>2. wk' \in [Workers -> WorkerStates]
    BY <1>9, GotoType, RaiseType DEF Settle, Phases, Codes
  <2>3. /\ fresh' \in SUBSET Workers /\ budget' \in Budgets /\ retries' \in 0..MaxRetries
       /\ hist' \in Histories
    BY <1>9 DEF Settle, Bump, TypeOK
  <2>4. QED
    BY <2>1, <2>2, <2>3 DEF TypeOK
<1>10. ASSUME NEW w \in Workers, SettleExhausted(w) PROVE TypeOK'
  <2>1. job' \in JobRows
    <3>1. job' = [Settled(w) EXCEPT !.exhausted = TRUE] /\ Settled(w) \in JobRows
      BY <1>10, SettledType DEF SettleExhausted
    <3>2. QED
      BY <3>1 DEF JobRows
  <2>2. wk' \in [Workers -> WorkerStates]
    BY <1>10, RaiseType DEF SettleExhausted, Codes
  <2>3. /\ fresh' \in SUBSET Workers /\ budget' \in Budgets /\ retries' \in 0..MaxRetries
       /\ hist' \in Histories
    BY <1>10 DEF SettleExhausted, TypeOK
  <2>4. QED
    BY <2>1, <2>2, <2>3 DEF TypeOK
<1>11. ASSUME NEW w \in Workers, Advance(w) PROVE TypeOK'
  <2> wk[w].remaining \in SUBSET Items /\ wk[w].clean \in BOOLEAN
    BY DEF TypeOK, WorkerStates
  <2>1. job' \in JobRows
    <3>1. PICK i \in wk[w].remaining :
            \/ job' = [job EXCEPT !.completed = job.completed + 1,
                                  !.subset = job.subset \ {i}, !.ttl = LeaseTTL]
            \/ job' = [job EXCEPT !.failed = job.failed + 1,
                                  !.subset = job.subset \cup {i}, !.ttl = LeaseTTL]
      BY <1>11 DEF Advance
    <3>2. job.subset \ {i} \in SUBSET Items /\ job.subset \cup {i} \in SUBSET Items
          /\ LeaseTTL \in 0..LeaseTTL
      BY DEF TypeOK, JobRows
    <3>3. job \in JobRows /\ job.completed + 1 \in Nat /\ job.failed + 1 \in Nat
      BY DEF TypeOK, JobRows
    <3>4. [job EXCEPT !.completed = job.completed + 1,
                      !.subset = job.subset \ {i}, !.ttl = LeaseTTL] \in JobRows
      BY <3>2, <3>3 DEF JobRows
    <3>5. [job EXCEPT !.failed = job.failed + 1,
                      !.subset = job.subset \cup {i}, !.ttl = LeaseTTL] \in JobRows
      BY <3>2, <3>3 DEF JobRows
    <3>6. QED
      BY <3>1, <3>4, <3>5
  <2>2. wk' \in [Workers -> WorkerStates]
    <3>1. \A i : wk[w].remaining \ {i} \in SUBSET Items
      OBVIOUS
    <3>2. FALSE \in BOOLEAN /\ \E i : NextItem(w, wk[w].remaining \ {i}, wk[w].clean)
                                   \/ NextItem(w, wk[w].remaining \ {i}, FALSE)
      BY <1>11 DEF Advance
    <3>3. QED
      BY <3>1, <3>2, NextItemType
  <2>3. hist' \in Histories
    <3>1. PICK i \in wk[w].remaining :
            hist' = [hist EXCEPT !.touched = @ \cup {i},
                                 !.done = IF wk[w].outcome = "ok" THEN @ \cup {i} ELSE @]
      BY <1>11 DEF Advance
    <3>2. QED
      BY <3>1 DEF TypeOK, Histories
  <2>4. /\ fresh' \in SUBSET Workers /\ budget' \in Budgets /\ retries' \in 0..MaxRetries
    BY <1>11 DEF Advance, Bump, TypeOK
  <2>5. QED
    BY <2>1, <2>2, <2>3, <2>4 DEF TypeOK
<1>12. ASSUME NEW w \in Workers, Publish(w) PROVE TypeOK'
  <2>1. job' \in JobRows
    BY <1>12 DEF Publish, TypeOK, JobRows
  <2>2. wk' \in [Workers -> WorkerStates]
    BY <1>12, GotoType, RaiseType DEF Publish, Phases, Codes
  <2>3. /\ fresh' \in SUBSET Workers /\ budget' \in Budgets /\ retries' \in 0..MaxRetries
       /\ hist' \in Histories
    BY <1>12 DEF Publish, Bump, TypeOK
  <2>4. QED
    BY <2>1, <2>2, <2>3 DEF TypeOK
<1>13. ASSUME NEW w \in Workers, TransactionFails(w) PROVE TypeOK'
  <2>1. wk' \in [Workers -> WorkerStates]
    BY <1>13, RaiseType DEF TransactionFails, Codes
  <2>2. /\ fresh' \in SUBSET Workers /\ budget' \in Budgets /\ retries' \in 0..MaxRetries
       /\ job' \in JobRows
       /\ hist' \in Histories
    BY <1>13 DEF TransactionFails, TypeOK
  <2>3. QED
    BY <2>1, <2>2 DEF TypeOK
<1>14. ASSUME NEW w \in Workers, Finish(w) PROVE TypeOK'
  <2>1. job' \in JobRows
    BY <1>14, ReleasedType DEF Finish, TypeOK, Statuses
  <2>2. wk' \in [Workers -> WorkerStates]
    BY <1>14, IdleType DEF Finish
  <2>3. /\ fresh' \in SUBSET Workers /\ budget' \in Budgets /\ retries' \in 0..MaxRetries
       /\ hist' \in Histories
    BY <1>14 DEF Finish, TypeOK
  <2>4. QED
    BY <2>1, <2>2, <2>3 DEF TypeOK
<1>15. ASSUME NEW w \in Workers, FinishRefused(w) PROVE TypeOK'
  <2>1. wk' \in [Workers -> WorkerStates]
    BY <1>15, RaiseType DEF FinishRefused, Codes
  <2>2. /\ fresh' \in SUBSET Workers /\ budget' \in Budgets /\ retries' \in 0..MaxRetries
       /\ job' \in JobRows
       /\ hist' \in Histories
    BY <1>15 DEF FinishRefused, TypeOK
  <2>3. QED
    BY <2>1, <2>2 DEF TypeOK
<1>16. ASSUME NEW w \in Workers, Reread(w) PROVE TypeOK'
  <2>1. wk' \in [Workers -> WorkerStates]
    BY <1>16, GotoType, IdleType DEF Reread, Phases
  <2>2. /\ fresh' \in SUBSET Workers /\ budget' \in Budgets /\ retries' \in 0..MaxRetries
       /\ job' \in JobRows
       /\ hist' \in Histories
    BY <1>16 DEF Reread, TypeOK
  <2>3. QED
    BY <2>1, <2>2 DEF TypeOK
<1>17. ASSUME NEW w \in Workers, Defer(w) PROVE TypeOK'
  <2>1. job' \in JobRows
    BY <1>17, ReleasedType DEF Defer, TypeOK, Statuses
  <2>2. wk' \in [Workers -> WorkerStates]
    BY <1>17, IdleType DEF Defer
  <2>3. /\ fresh' \in SUBSET Workers /\ budget' \in Budgets /\ retries' \in 0..MaxRetries
       /\ hist' \in Histories
    BY <1>17 DEF Defer, TypeOK
  <2>4. QED
    BY <2>1, <2>2, <2>3 DEF TypeOK
<1>18. ASSUME NEW w \in Workers, Heartbeat(w) PROVE TypeOK'
  <2>1. job' \in JobRows
    BY <1>18 DEF Heartbeat, TypeOK, JobRows
  <2>2. /\ fresh' \in SUBSET Workers /\ budget' \in Budgets /\ retries' \in 0..MaxRetries
       /\ wk' \in [Workers -> WorkerStates]
       /\ hist' \in Histories
    BY <1>18 DEF Heartbeat, Bump, TypeOK
  <2>3. QED
    BY <2>1, <2>2 DEF TypeOK
<1>19. ASSUME NEW w \in Workers, Crash(w) PROVE TypeOK'
  <2>1. wk' \in [Workers -> WorkerStates]
    BY <1>19, IdleType DEF Crash
  <2>2. /\ fresh' \in SUBSET Workers /\ budget' \in Budgets /\ retries' \in 0..MaxRetries
       /\ job' \in JobRows
       /\ hist' \in Histories
    BY <1>19 DEF Crash, TypeOK
  <2>3. QED
    BY <2>1, <2>2 DEF TypeOK
<1>20. CASE Tick
  <2>1. job' \in JobRows
    BY <1>20 DEF Tick, TypeOK, JobRows
  <2>2. /\ fresh' \in SUBSET Workers /\ budget' \in Budgets /\ retries' \in 0..MaxRetries
       /\ wk' \in [Workers -> WorkerStates]
       /\ hist' \in Histories
    BY <1>20 DEF Tick, TypeOK
  <2>3. QED
    BY <2>1, <2>2 DEF TypeOK
<1>21. CASE UserRetry
  <2>1. job' \in JobRows
    <3>1. Released(job, "queued") \in JobRows
      BY ReleasedType DEF TypeOK, Statuses
    <3>2. 0 \in Nat /\ 0 \in 0..MaxAttempts
      OBVIOUS
    <3>3. job' = [[Released(job, "queued") EXCEPT !.failed = 0] EXCEPT !.attempt = 0]
      BY <1>21 DEF UserRetry
    <3>4. QED
      BY <3>1, <3>2, <3>3 DEF JobRows
  <2>2. /\ fresh' \in SUBSET Workers /\ budget' \in Budgets /\ retries' \in 0..MaxRetries
       /\ wk' \in [Workers -> WorkerStates]
       /\ hist' \in Histories
    BY <1>21 DEF UserRetry, TypeOK
  <2>3. QED
    BY <2>1, <2>2 DEF TypeOK
<1>22. CASE UserCancel
  <2>1. job' \in JobRows
    BY <1>22, ReleasedType DEF UserCancel, TypeOK, Statuses
  <2>2. /\ fresh' \in SUBSET Workers /\ budget' \in Budgets /\ retries' \in 0..MaxRetries
       /\ wk' \in [Workers -> WorkerStates]
       /\ hist' \in Histories
    BY <1>22 DEF UserCancel, TypeOK
  <2>3. QED
    BY <2>1, <2>2 DEF TypeOK
<1>23. ASSUME NEW w \in Workers, ReserveFails(w) PROVE TypeOK'
  <2>1. wk' \in [Workers -> WorkerStates]
    <3>1. [[wk[w] EXCEPT !.phase = "advance"] EXCEPT !.outcome = "error"] \in WorkerStates
      BY DEF TypeOK, WorkerStates, Phases, Outcomes
    <3>2. QED
      BY <1>23, <3>1 DEF ReserveFails, TypeOK
  <2>2. /\ fresh' \in SUBSET Workers /\ budget' \in Budgets /\ retries' \in 0..MaxRetries
       /\ job' \in JobRows /\ hist' \in Histories
    BY <1>23 DEF ReserveFails, TypeOK
  <2>3. QED
    BY <2>1, <2>2 DEF TypeOK
<1>24. QED
  BY <1>1, <1>2, <1>3, <1>4, <1>5, <1>6, <1>7, <1>8, <1>9, <1>10, <1>11, <1>12,
     <1>13, <1>14, <1>15, <1>16, <1>17, <1>18, <1>19, <1>20, <1>21, <1>22, <1>23
     DEF Next, Step

(* Type correctness of every behaviour of the job and its workers.         *)
THEOREM TypeCorrect == Spec => []TypeOK
BY TypeInit, TypeStep, PTL DEF Spec

-----------------------------------------------------------------------------
(* The budget.  A reservation takes the whole remainder of the limit, so   *)
(* only one worker at a time can be between Reserve and Process; one that  *)
(* lost its lease there has had its reservation charged in full by the     *)
(* claim that took over.                                                   *)

(* Between Reserve and Process a worker is alone, the limit is charged or  *)
(* reserved to the last call, and what the worker may spend still fits.    *)
AllowanceInv ==
  \A w \in Workers : wk[w].phase = "process" =>
    /\ job.consumed + job.reserved = budget.calls
    /\ hist.spent + wk[w].allow <= budget.calls
    /\ \A v \in Workers : wk[v].phase = "process" => v = w

(* A worker that holds the lease in the middle of an item owns the         *)
(* reservation; a holder anywhere else in the loop has none.               *)
ReservationInv ==
  \A w \in Workers : Fenced(w) =>
    /\ wk[w].phase = "process" =>
         hist.spent <= job.consumed /\ wk[w].allow = job.reserved
    /\ wk[w].phase = "settle" =>
         /\ hist.spent <= job.consumed + wk[w].used
         /\ wk[w].used <= job.reserved
         /\ job.consumed + job.reserved = budget.calls
         /\ \A v \in Workers : wk[v].phase # "process"
    /\ wk[w].phase \notin {"process", "settle", "abort", "defer"} => job.reserved = 0

HardBudgetInv == AllowanceInv /\ ReservationInv /\ SpendIsCovered
BudgetInv == budget.calls > 0 => HardBudgetInv

(* The budget is fixed for the life of the job.                            *)
LEMMA BudgetFixed == [Next]_vars => budget' = budget
BY DEF Next, Step, vars, Claim, ClaimExhausted, ScanNext, ScanDone, Reserve,
       ReserveExhausted, ReserveFails, Process, Settle, SettleExhausted, Advance, Publish,
       TransactionFails, NextItem, Finish, FinishRefused, Reread, Defer, Heartbeat, Crash, Tick, UserRetry, UserCancel

(* No step of a worker, the clock or a user loses sight of a call.         *)
LEMMA BudgetStep == TypeOK /\ BudgetInv /\ [Next]_vars => BudgetInv'
<1> SUFFICES ASSUME TypeOK, BudgetInv, [Next]_vars, (budget.calls > 0)' PROVE HardBudgetInv'
  BY DEF BudgetInv
<1> HardBudgetInv /\ budget.calls \in Nat /\ budget.calls > 0
  BY BudgetFixed, NumbersAssumption DEF BudgetInv, TypeOK
<1> USE WorkersAssumption, NumbersAssumption
<1> USE DEF HardBudgetInv, AllowanceInv, ReservationInv, SpendIsCovered, Fenced,
            TypeOK, JobRows, WorkerStates, Histories
<1>1. CASE UNCHANGED vars
  BY <1>1 DEF vars
<1>2. ASSUME NEW w \in Workers, Claim(w) PROVE HardBudgetInv'
  <2>1. /\ wk'[w].phase = "scan" /\ \A v \in Workers : v # w => wk'[v] = wk[v]
    BY <1>2, NextItemIs DEF Claim
  <2>2. /\ job'.consumed = job.consumed + job.reserved /\ job'.reserved = 0
        /\ job'.owner = w /\ fresh' = {w} /\ hist'.spent = hist.spent /\ budget' = budget
    BY <1>2 DEF Claim, Bump
  <2>3. QED
    BY <2>1, <2>2
<1>3. ASSUME NEW w \in Workers, ClaimExhausted(w) PROVE HardBudgetInv'
  BY <1>3 DEF ClaimExhausted
<1>4. ASSUME NEW w \in Workers, ScanNext(w) PROVE HardBudgetInv'
  <2>1. UNCHANGED <<job, fresh, budget, hist>>
        /\ \A v \in Workers : v # w => wk'[v] = wk[v]
    BY <1>4, RaiseIs DEF ScanNext, Goto
  <2>2. wk[w].phase = "scan" /\ wk'[w].phase \in {"reserve", "process", "abort"}
        /\ (wk'[w].phase = "process" => ~Hard)
    BY <1>4, RaiseIs DEF ScanNext, Goto
  <2>3. Hard
    BY DEF Hard
  <2>4. QED
    BY <2>1, <2>2, <2>3
<1>5. ASSUME NEW w \in Workers, ScanDone(w) PROVE HardBudgetInv'
  BY <1>5 DEF ScanDone, Goto
<1>6. ASSUME NEW w \in Workers, Reserve(w) PROVE HardBudgetInv'
  BY <1>6 DEF Reserve, Remainder, Spent, Leased, Bump
<1>7. ASSUME NEW w \in Workers, ReserveExhausted(w) PROVE HardBudgetInv'
  BY <1>7, RaiseIs DEF ReserveExhausted, Leased
<1>8. ASSUME NEW w \in Workers, Process(w) PROVE HardBudgetInv'
  BY <1>8 DEF Process
<1>9. ASSUME NEW w \in Workers, Settle(w) PROVE HardBudgetInv'
  BY <1>9, RaiseIs DEF Settle, Leased, Settled, Charge, Bump, Goto
<1>10. ASSUME NEW w \in Workers, SettleExhausted(w) PROVE HardBudgetInv'
  BY <1>10, RaiseIs DEF SettleExhausted, Leased, Settled, Charge
<1>11. ASSUME NEW w \in Workers, Advance(w) PROVE HardBudgetInv'
  <2>1. /\ wk'[w].phase = "scan" /\ \A v \in Workers : v # w => wk'[v] = wk[v]
        /\ hist'.spent = hist.spent /\ fresh' = {w} /\ job'.owner = w
        /\ job'.consumed = job.consumed /\ job'.reserved = job.reserved /\ budget' = budget
    BY <1>11, AdvanceIs DEF Advance
  <2>2. Fenced(w) /\ wk[w].phase = "advance"
    BY <1>11 DEF Advance, Leased
  <2>3. QED
    BY <2>1, <2>2
<1>12. ASSUME NEW w \in Workers, Publish(w) PROVE HardBudgetInv'
  BY <1>12, RaiseIs DEF Publish, Publishable, Leased, Bump, Goto
<1>13. ASSUME NEW w \in Workers, TransactionFails(w) PROVE HardBudgetInv'
  BY <1>13, RaiseIs DEF TransactionFails
<1>14. ASSUME NEW w \in Workers, Finish(w) PROVE HardBudgetInv'
  BY <1>14 DEF Finish, Released, Idle
<1>15. ASSUME NEW w \in Workers, FinishRefused(w) PROVE HardBudgetInv'
  BY <1>15, RaiseIs DEF FinishRefused
<1>16. ASSUME NEW w \in Workers, Reread(w) PROVE HardBudgetInv'
  BY <1>16 DEF Reread, Goto, Idle
<1>17. ASSUME NEW w \in Workers, Defer(w) PROVE HardBudgetInv'
  <2>1. CASE Fenced(w)
    <3>1. /\ fresh' = {} /\ job'.consumed = job.consumed /\ job'.reserved = job.reserved
          /\ hist' = hist /\ budget' = budget
      BY <1>17, <2>1 DEF Defer, Released
    <3>2. wk' = [wk EXCEPT ![w] = Idle]
      BY <1>17 DEF Defer
    <3>3. QED
      BY <3>1, <3>2 DEF Idle
  <2>2. CASE ~Fenced(w)
    BY <1>17, <2>2 DEF Defer, Idle
  <2>3. QED
    BY <2>1, <2>2
<1>18. ASSUME NEW w \in Workers, Heartbeat(w) PROVE HardBudgetInv'
  BY <1>18 DEF Heartbeat, Leased, Bump
<1>19. ASSUME NEW w \in Workers, Crash(w) PROVE HardBudgetInv'
  BY <1>19 DEF Crash, Idle
<1>20. CASE Tick
  BY <1>20 DEF Tick
<1>21. CASE UserRetry
  BY <1>21 DEF UserRetry, Released
<1>22. CASE UserCancel
  BY <1>22 DEF UserCancel, Released
<1>23. ASSUME NEW w \in Workers, ReserveFails(w) PROVE HardBudgetInv'
  BY <1>23 DEF ReserveFails
<1>24. QED
  BY <1>1, <1>2, <1>3, <1>4, <1>5, <1>6, <1>7, <1>8, <1>9, <1>10, <1>11, <1>12,
     <1>13, <1>14, <1>15, <1>16, <1>17, <1>18, <1>19, <1>20, <1>21, <1>22, <1>23
     DEF Next, Step

(* Whatever crashes and takeovers happen, all calls really made are        *)
(* charged or reserved, and never more than the limit.                     *)
THEOREM BudgetIsRespected == Spec => []SpendIsCovered
<1>1. Init => TypeOK /\ BudgetInv
  <2>1. Init => BudgetInv
    BY NumbersAssumption
       DEF Init, BudgetInv, HardBudgetInv, AllowanceInv, ReservationInv, SpendIsCovered,
           Fenced, Idle
  <2>2. QED
    BY <2>1, TypeInit
<1>2. TypeOK /\ BudgetInv => SpendIsCovered
  BY DEF BudgetInv, HardBudgetInv, SpendIsCovered
<1>3. QED
  BY <1>1, <1>2, TypeStep, BudgetStep, PTL DEF Spec

-----------------------------------------------------------------------------
(* Refinement.  Only the steps that change status, holder or attempt are   *)
(* steps of the life cycle; the others stutter.                            *)
LEMMA LifecycleStep == TypeOK /\ [Next]_vars => [Lifecycle!Next]_(Lifecycle!vars)
<1> SUFFICES ASSUME TypeOK, [Next]_vars PROVE Lifecycle!Next \/ UNCHANGED Lifecycle!vars
  OBVIOUS
<1> USE WorkersAssumption, NumbersAssumption
<1> USE DEF TypeOK, JobRows, Holder
<1>1. CASE UNCHANGED vars
  BY <1>1 DEF vars, Lifecycle!vars
<1>2. ASSUME NEW w \in Workers, Claim(w) PROVE Lifecycle!Start(w)
  BY <1>2 DEF Claim, Claimable, Lifecycle!Start
<1>3. ASSUME NEW w \in Workers, ClaimExhausted(w) PROVE Lifecycle!GiveUp
  BY <1>3 DEF ClaimExhausted, Claimable, Lifecycle!GiveUp
<1>4. ASSUME NEW w \in Workers, ScanNext(w) PROVE UNCHANGED Lifecycle!vars
  BY <1>4 DEF ScanNext, Lifecycle!vars
<1>5. ASSUME NEW w \in Workers, ScanDone(w) PROVE UNCHANGED Lifecycle!vars
  BY <1>5 DEF ScanDone, Lifecycle!vars
<1>6. ASSUME NEW w \in Workers, Reserve(w) PROVE UNCHANGED Lifecycle!vars
  BY <1>6 DEF Reserve, Lifecycle!vars
<1>7. ASSUME NEW w \in Workers, ReserveExhausted(w) PROVE UNCHANGED Lifecycle!vars
  BY <1>7 DEF ReserveExhausted, Lifecycle!vars
<1>8. ASSUME NEW w \in Workers, Process(w) PROVE UNCHANGED Lifecycle!vars
  BY <1>8 DEF Process, Lifecycle!vars
<1>9. ASSUME NEW w \in Workers, Settle(w) PROVE UNCHANGED Lifecycle!vars
  BY <1>9 DEF Settle, Settled, Lifecycle!vars
<1>10. ASSUME NEW w \in Workers, SettleExhausted(w) PROVE UNCHANGED Lifecycle!vars
  BY <1>10 DEF SettleExhausted, Settled, Lifecycle!vars
<1>11. ASSUME NEW w \in Workers, Advance(w) PROVE UNCHANGED Lifecycle!vars
  BY <1>11 DEF Advance, Lifecycle!vars
<1>12. ASSUME NEW w \in Workers, Publish(w) PROVE UNCHANGED Lifecycle!vars
  BY <1>12 DEF Publish, Lifecycle!vars
<1>13. ASSUME NEW w \in Workers, TransactionFails(w) PROVE UNCHANGED Lifecycle!vars
  BY <1>13 DEF TransactionFails, Lifecycle!vars
<1>14. ASSUME NEW w \in Workers, Finish(w) PROVE Lifecycle!End(w)
  BY <1>14 DEF Finish, Released, Fenced, Lifecycle!End
<1>15. ASSUME NEW w \in Workers, FinishRefused(w) PROVE UNCHANGED Lifecycle!vars
  BY <1>15 DEF FinishRefused, Lifecycle!vars
<1>16. ASSUME NEW w \in Workers, Reread(w) PROVE UNCHANGED Lifecycle!vars
  BY <1>16 DEF Reread, Lifecycle!vars
<1>17. ASSUME NEW w \in Workers, Defer(w) PROVE Lifecycle!End(w) \/ UNCHANGED Lifecycle!vars
  <2>1. CASE Fenced(w)
    BY <1>17, <2>1 DEF Defer, Released, Retryable, Fenced, Lifecycle!End
  <2>2. CASE ~Fenced(w)
    BY <1>17, <2>2 DEF Defer, Lifecycle!vars
  <2>3. QED
    BY <2>1, <2>2
<1>18. ASSUME NEW w \in Workers, Heartbeat(w) PROVE UNCHANGED Lifecycle!vars
  BY <1>18 DEF Heartbeat, Lifecycle!vars
<1>19. ASSUME NEW w \in Workers, Crash(w) PROVE UNCHANGED Lifecycle!vars
  BY <1>19 DEF Crash, Lifecycle!vars
<1>20. ASSUME Tick PROVE UNCHANGED Lifecycle!vars
  BY <1>20 DEF Tick, Lifecycle!vars
<1>21. ASSUME UserRetry PROVE Lifecycle!UserRetry
  BY <1>21 DEF UserRetry, Released, Lifecycle!UserRetry
<1>22. ASSUME UserCancel PROVE Lifecycle!UserCancel
  BY <1>22 DEF UserCancel, Released, Lifecycle!UserCancel, Lifecycle!Final
<1>23. ASSUME NEW w \in Workers, ReserveFails(w) PROVE UNCHANGED Lifecycle!vars
  BY <1>23 DEF ReserveFails, Lifecycle!vars
<1>24. QED
  BY <1>1, <1>2, <1>3, <1>4, <1>5, <1>6, <1>7, <1>8, <1>9, <1>10, <1>11, <1>12,
     <1>13, <1>14, <1>15, <1>16, <1>17, <1>18, <1>19, <1>20, <1>21, <1>22, <1>23
     DEF Next, Step, Lifecycle!Next

(* The worker protocol, with its leases, fences, crashes and takeovers,    *)
(* implements the life cycle the documentation describes.                  *)
THEOREM LifecycleIsImplemented == Spec => ImplementsLifecycle
<1>1. Init => Lifecycle!Init
  BY DEF Init, Lifecycle!Init, Holder
<1>2. QED
  BY <1>1, TypeInit, TypeStep, LifecycleStep, PTL
     DEF Spec, ImplementsLifecycle, Lifecycle!Spec
-----------------------------------------------------------------------------
(* Counting items.  The successes counted, the failures on record and what *)
(* a holder has still to do never exceed the scope, so a job that counts   *)
(* Total successes has no failure on record.                               *)
Count(items) == job.completed + Cardinality(job.subset \cup items)

CountInv ==
  /\ Count({}) <= Total
  /\ \A w \in Workers : Fenced(w) /\ wk[w].phase \notin {"abort", "defer"} =>
       Count(wk[w].remaining) <= Total
  /\ CompletedHasNoFailure

(* The scope and its subsets are finite.                                   *)
LEMMA ItemsFinite ==
  ASSUME NEW S \in SUBSET Items
  PROVE  IsFiniteSet(S) /\ Cardinality(S) \in Nat
<1>1. IsFiniteSet(Items)
  BY NumbersAssumption, FS_Interval DEF Items
<1>2. QED
  BY <1>1, FS_Subset, FS_CardinalityType

(* A claim takes on the failures, or what is left behind the counts.       *)
LEMMA ClaimCount ==
  ASSUME TypeOK, CountInv
  PROVE  Count(Remaining) <= Total
<1>1. CASE job.subset # {}
  <2>1. job.subset \cup Remaining = job.subset \cup {}
    BY <1>1 DEF Remaining
  <2>2. QED
    BY <2>1 DEF CountInv, Count
<1>2. CASE job.subset = {}
  <2> DEFINE c == job.completed
             f == job.failed
  <2>1. c \in Nat /\ f \in Nat /\ Total \in Nat
    BY NumbersAssumption DEF TypeOK, JobRows
  <2>2. job.subset \cup Remaining = (c + f + 1)..Total
    BY <1>2, <2>1 DEF Remaining, Items
  <2>3. Cardinality((c + f + 1)..Total) = IF c + f + 1 > Total THEN 0 ELSE Total - (c + f)
    <3>1. c + f + 1 \in Int /\ Total \in Int
      BY <2>1
    <3>2. Cardinality((c + f + 1)..Total)
            = IF c + f + 1 > Total THEN 0 ELSE Total - (c + f + 1) + 1
      BY <3>1, FS_Interval
    <3>3. QED
      BY <2>1, <3>2
  <2>4. c <= Total
    <3>1. Cardinality(job.subset \cup {}) = 0
      BY <1>2, FS_EmptySet
    <3>2. QED
      BY <2>1, <3>1 DEF CountInv, Count
  <2>5. QED
    <3>1. c + (IF c + f + 1 > Total THEN 0 ELSE Total - (c + f)) <= Total
      BY <2>1, <2>4
    <3>2. Count(Remaining) = c + Cardinality((c + f + 1)..Total)
      BY <2>2 DEF Count
    <3>3. QED
      BY <2>3, <3>1, <3>2
<1>3. QED
  BY <1>1, <1>2

(* A successful item moves from what is left to the successes, a failed    *)
(* one to the failures on record.                                          *)
LEMMA AdvanceCount ==
  ASSUME TypeOK, CountInv, NEW w \in Workers, Advance(w)
  PROVE  /\ Count({})' <= Total
         /\ Count(wk[w].remaining)' <= Total
<1> DEFINE S == job.subset
           R == wk[w].remaining
<1>1. PICK i \in R :
        /\ wk'[w].remaining = R \ {i}
        /\ \/ job'.completed = job.completed + 1 /\ job'.subset = S \ {i}
           \/ job'.completed = job.completed /\ job'.subset = S \cup {i}
  BY AdvanceIs
<1>2. R \in SUBSET Items /\ S \in SUBSET Items /\ job.completed \in Nat
  BY DEF TypeOK, JobRows, WorkerStates
<1>3. job.completed + Cardinality(S \cup R) <= Total
  BY DEF CountInv, Count, Advance, Leased
<1>4. /\ S \cup R \in SUBSET Items /\ IsFiniteSet(S \cup R)
      /\ Cardinality(S \cup R) \in Nat /\ Total \in Nat
  BY <1>2, ItemsFinite, NumbersAssumption
<1>5. Cardinality((S \cup R) \ {i}) = Cardinality(S \cup R) - 1
  BY <1>4, FS_RemoveElement
<1>6. wk'[w].remaining = R \ {i} /\ job'.completed \in Nat
  BY <1>1, <1>2
<1>7. \/ job'.completed = job.completed + 1 /\ job'.subset = S \ {i}
      \/ job'.completed = job.completed /\ job'.subset = S \cup {i}
  BY <1>1
<1>8. job'.completed + Cardinality(job'.subset \cup (R \ {i})) <= Total
  <2>1. CASE job'.completed = job.completed + 1 /\ job'.subset = S \ {i}
    <3>1. job'.subset \cup (R \ {i}) = (S \cup R) \ {i}
      BY <2>1
    <3>2. QED
      <4>1. Cardinality(job'.subset \cup (R \ {i})) = Cardinality(S \cup R) - 1
        BY <1>5, <3>1
      <4>2. job'.completed = job.completed + 1
        BY <2>1
      <4>3. QED
        BY <1>2, <1>3, <1>4, <4>1, <4>2
  <2>2. CASE job'.completed = job.completed /\ job'.subset = S \cup {i}
    <3>1. job'.subset \cup (R \ {i}) = S \cup R
      BY <2>2
    <3>2. QED
      BY <1>3, <2>2, <3>1
  <2>3. QED
    BY <1>7, <2>1, <2>2
<1>9. Cardinality(job'.subset \cup {}) <= Cardinality(job'.subset \cup (R \ {i}))
  <2>1. job'.subset \cup {} \subseteq job'.subset \cup (R \ {i})
    OBVIOUS
  <2>2. IsFiniteSet(job'.subset \cup (R \ {i}))
    <3>1. job'.subset \cup (R \ {i}) \in SUBSET Items
      BY <1>2, <1>7
    <3>2. QED
      BY <3>1, ItemsFinite
  <2>3. QED
    BY <2>1, <2>2, FS_Subset
<1>10. /\ Cardinality(job'.subset \cup {}) \in Nat
       /\ Cardinality(job'.subset \cup (R \ {i})) \in Nat
  <2>1. job'.subset \cup {} \in SUBSET Items /\ job'.subset \cup (R \ {i}) \in SUBSET Items
    BY <1>2, <1>7
  <2>2. QED
    BY <2>1, ItemsFinite
<1>11. QED
  BY <1>4, <1>6, <1>8, <1>9, <1>10 DEF Count

(* A step that leaves the counts alone, brings no worker into the loop and *)
(* completes nothing.                                                      *)
LEMMA CountKept ==
  ASSUME CountInv,
         job'.subset = job.subset, job'.completed = job.completed,
         job'.status = "completed" => job.status = "completed",
         \A v \in Workers : (Fenced(v) /\ wk[v].phase \notin {"abort", "defer"})' =>
           /\ Fenced(v) /\ wk[v].phase \notin {"abort", "defer"}
           /\ wk'[v].remaining = wk[v].remaining
  PROVE  CountInv'
BY DEF CountInv, Count, CompletedHasNoFailure

(* Every step keeps the count: claims and advances by the lemmas above,    *)
(* the others because they leave the counters and the subset alone or      *)
(* reset them.                                                             *)
LEMMA CountStep == TypeOK /\ CountInv /\ [Next]_vars => CountInv'
<1> SUFFICES ASSUME TypeOK, CountInv, [Next]_vars PROVE CountInv'
  OBVIOUS
<1> USE WorkersAssumption, NumbersAssumption
<1> USE DEF Fenced, TypeOK, JobRows, WorkerStates
<1>1. CASE UNCHANGED vars
  BY <1>1, CountKept DEF vars
<1>2. ASSUME NEW w \in Workers, Claim(w) PROVE CountInv'
  <2>1. /\ job'.subset = job.subset /\ job'.completed = job.completed
        /\ job'.status = "running" /\ fresh' = {w} /\ job'.owner = w
        /\ wk'[w].remaining = Remaining
    BY <1>2, NextItemIs DEF Claim, Bump
  <2>2. Count(Remaining) <= Total
    BY ClaimCount
  <2>3. QED
    BY <2>1, <2>2 DEF CountInv, Count, CompletedHasNoFailure
<1>3. ASSUME NEW w \in Workers, ClaimExhausted(w) PROVE CountInv'
  BY <1>3, CountKept DEF ClaimExhausted
<1>4. ASSUME NEW w \in Workers, ScanNext(w) PROVE CountInv'
  BY <1>4, CountKept, RaiseIs DEF ScanNext, Leased, Goto
<1>5. ASSUME NEW w \in Workers, ScanDone(w) PROVE CountInv'
  BY <1>5, CountKept DEF ScanDone, Goto
<1>6. ASSUME NEW w \in Workers, Reserve(w) PROVE CountInv'
  BY <1>6, CountKept DEF Reserve, Leased, Bump
<1>7. ASSUME NEW w \in Workers, ReserveExhausted(w) PROVE CountInv'
  BY <1>7, CountKept, RaiseIs DEF ReserveExhausted, Leased
<1>8. ASSUME NEW w \in Workers, Process(w) PROVE CountInv'
  BY <1>8, CountKept DEF Process
<1>9. ASSUME NEW w \in Workers, Settle(w) PROVE CountInv'
  BY <1>9, CountKept, RaiseIs DEF Settle, Leased, Settled, Charge, Bump, Goto
<1>10. ASSUME NEW w \in Workers, SettleExhausted(w) PROVE CountInv'
  BY <1>10, CountKept, RaiseIs DEF SettleExhausted, Leased, Settled, Charge
<1>11. ASSUME NEW w \in Workers, Advance(w) PROVE CountInv'
  <2>1. job'.status = "running" /\ job'.owner = w /\ fresh' = {w}
    BY <1>11 DEF Advance, Leased, Bump
  <2>2. Count({})' <= Total /\ Count(wk[w].remaining)' <= Total
    BY <1>11, AdvanceCount
  <2>3. QED
    BY <2>1, <2>2 DEF CountInv, CompletedHasNoFailure
<1>12. ASSUME NEW w \in Workers, Publish(w) PROVE CountInv'
  BY <1>12, CountKept, RaiseIs DEF Publish, Leased, Bump, Goto
<1>13. ASSUME NEW w \in Workers, TransactionFails(w) PROVE CountInv'
  BY <1>13, CountKept, RaiseIs DEF TransactionFails
<1>14. ASSUME NEW w \in Workers, Finish(w) PROVE CountInv'
  <2>1. /\ job'.subset = job.subset /\ job'.completed = job.completed /\ fresh' = {}
        /\ job'.status = "completed" => job.failed = 0 /\ job.completed >= Total
    BY <1>14 DEF Finish, Released
  <2>2. /\ job.subset \cup {} = job.subset /\ IsFiniteSet(job.subset)
        /\ Cardinality(job.subset) \in Nat
    BY ItemsFinite
  <2>3. job.completed + Cardinality(job.subset) <= Total
    BY <2>2 DEF CountInv, Count
  <2>4. job.completed >= Total => Cardinality(job.subset) = 0 /\ job.completed = Total
    BY <2>2, <2>3
  <2>5. job.completed >= Total => job.subset = {} /\ job.completed = Total
    BY <2>2, <2>4, FS_EmptySet
  <2>6. QED
    BY <2>1, <2>5 DEF CountInv, Count, CompletedHasNoFailure
<1>15. ASSUME NEW w \in Workers, FinishRefused(w) PROVE CountInv'
  BY <1>15, CountKept, RaiseIs DEF FinishRefused
<1>16. ASSUME NEW w \in Workers, Reread(w) PROVE CountInv'
  BY <1>16, CountKept DEF Reread, Goto, Idle
<1>17. ASSUME NEW w \in Workers, Defer(w) PROVE CountInv'
  BY <1>17, CountKept DEF Defer, Released, Idle
<1>18. ASSUME NEW w \in Workers, Heartbeat(w) PROVE CountInv'
  BY <1>18, CountKept DEF Heartbeat, Leased, Bump
<1>19. ASSUME NEW w \in Workers, Crash(w) PROVE CountInv'
  BY <1>19, CountKept DEF Crash, Idle
<1>20. CASE Tick
  BY <1>20, CountKept DEF Tick
<1>21. CASE UserRetry
  BY <1>21, CountKept DEF UserRetry, Released
<1>22. CASE UserCancel
  BY <1>22, CountKept DEF UserCancel, Released
<1>23. ASSUME NEW w \in Workers, ReserveFails(w) PROVE CountInv'
  BY <1>23, CountKept DEF ReserveFails
<1>24. QED
  BY <1>1, <1>2, <1>3, <1>4, <1>5, <1>6, <1>7, <1>8, <1>9, <1>10, <1>11, <1>12,
     <1>13, <1>14, <1>15, <1>16, <1>17, <1>18, <1>19, <1>20, <1>21, <1>22, <1>23
     DEF Next, Step

(* A completed job counts every item as a success and has no failure left  *)
(* on record, whatever crashes, takeovers and retries came before.         *)
THEOREM CompletedMeansNoFailure == Spec => []CompletedHasNoFailure
<1>1. Init => CountInv
  <2> SUFFICES ASSUME Init PROVE CountInv
    OBVIOUS
  <2>1. Cardinality(job.subset \cup {}) = 0 /\ job.completed = 0 /\ job.status = "queued"
    BY FS_EmptySet DEF Init
  <2>2. QED
    BY <2>1, NumbersAssumption DEF CountInv, Count, CompletedHasNoFailure, Fenced
<1>2. CountInv => CompletedHasNoFailure
  BY DEF CountInv
<1>3. QED
  BY <1>1, <1>2, TypeInit, TypeStep, CountStep, PTL DEF Spec

-----------------------------------------------------------------------------
(* Item completed + 1 moves from the rest of the scope to the prefix.      *)
LEMMA PrefixGrows ==
  ASSUME NEW c \in Nat, NEW n \in Nat
  PROVE  /\ (1..c) \cup {c + 1} = 1..(c + 1)
         /\ ((c + 1)..n) \ {c + 1} = (c + 1 + 1)..n
OBVIOUS

(* What was really processed.  An attempt that begins without a failure on *)
(* record takes the scope in order, so until every item has been tried the *)
(* items tried are those counted; an attempt that begins with failures on  *)
(* record goes back to them, which is harmless only when all were tried.   *)
Started == job.completed + job.failed

(* The items were taken in order: all is well but for the ones on record.  *)
InScopeOrder ==
  /\ job.subset = {} => job.failed = 0 /\ hist.touched = 1..job.completed
  /\ \A w \in Workers : Fenced(w) /\ wk[w].phase \notin {"abort", "defer"} =>
       hist.touched = 1..Started /\ wk[w].remaining = (Started + 1)..Total

TruthInv ==
  ~hist.interrupted =>
    /\ job.subset \subseteq hist.touched /\ hist.touched \ job.subset \subseteq hist.done
    /\ hist.touched # Items => InScopeOrder

(* A step that processes nothing and brings no worker into the loop.       *)
LEMMA TruthKept ==
  ASSUME TruthInv,
         job'.subset = job.subset, job'.completed = job.completed, hist' = hist,
         job'.failed = job.failed \/ (job'.failed = 0 /\ fresh' = {}),
         \A v \in Workers : (Fenced(v) /\ wk[v].phase \notin {"abort", "defer"})' =>
           /\ Fenced(v) /\ wk[v].phase \notin {"abort", "defer"}
           /\ wk'[v].remaining = wk[v].remaining
  PROVE  TruthInv'
<1> SUFFICES ASSUME ~hist'.interrupted PROVE TruthInv' BY DEF TruthInv
<1>1. /\ job.subset \subseteq hist.touched /\ hist.touched \ job.subset \subseteq hist.done
      /\ hist.touched # Items => InScopeOrder
  BY DEF TruthInv
<1>2. ASSUME InScopeOrder PROVE InScopeOrder'
  <2>1. CASE job'.failed = job.failed BY <1>2, <2>1 DEF InScopeOrder, Started
  <2>2. CASE job'.failed = 0 /\ fresh' = {} BY <1>2, <2>2 DEF InScopeOrder, Started, Fenced
  <2> QED BY <2>1, <2>2
<1> QED BY <1>1, <1>2 DEF TruthInv

(* A claim: with failures on record only when every item has been tried.   *)
LEMMA TruthClaim ==
  ASSUME TypeOK, TruthInv, NEW w \in Workers, Claim(w)
  PROVE  TruthInv'
<1> SUFFICES ASSUME ~hist'.interrupted PROVE TruthInv' BY DEF TruthInv
<1>1. /\ job'.subset = job.subset /\ job'.completed = job.completed /\ job'.failed = job.failed
      /\ job'.owner = w /\ fresh' = {w} /\ wk'[w].remaining = Remaining
      /\ hist'.touched = hist.touched /\ hist'.done = hist.done
      /\ hist'.interrupted = (hist.interrupted \/ (job.subset # {} /\ hist.touched # Items))
  BY NextItemIs DEF Claim, Bump, TypeOK, JobRows, Histories
<1>2. /\ job.subset \subseteq hist.touched /\ hist.touched \ job.subset \subseteq hist.done
      /\ hist.touched # Items => InScopeOrder /\ job.subset = {}
  BY <1>1 DEF TruthInv
<1>3. ASSUME hist.touched # Items PROVE InScopeOrder'
  <2>1. /\ job.subset = {} /\ job.failed = 0 /\ hist.touched = 1..job.completed
    BY <1>2, <1>3 DEF InScopeOrder
  <2>2. job.completed \in Nat /\ Total \in Nat
    BY NumbersAssumption DEF TypeOK, JobRows
  <2>3. Remaining = (job.completed + 0 + 1)..Total
    BY <2>1, <2>2 DEF Remaining, Items
  <2>4. hist'.touched = 1..Started' /\ wk'[w].remaining = (Started' + 1)..Total
    BY <1>1, <2>1, <2>2, <2>3 DEF Started
  <2>5. \A v \in Workers : Fenced(v)' => v = w BY <1>1 DEF Fenced
  <2> QED BY <1>1, <2>1, <2>4, <2>5 DEF InScopeOrder
<1> QED BY <1>1, <1>2, <1>3 DEF TruthInv

(* An item is tried, the next one of the scope until all have been.        *)
LEMMA TruthAdvance ==
  ASSUME TypeOK, TruthInv, NEW w \in Workers, Advance(w)
  PROVE  TruthInv'
<1> SUFFICES ASSUME ~hist'.interrupted PROVE TruthInv' BY DEF TruthInv
<1> DEFINE R == wk[w].remaining
<1>2. PICK i \in R :
        /\ \A k \in R : i <= k
        /\ hist'.touched = hist.touched \cup {i} /\ hist'.interrupted = hist.interrupted
        /\ wk'[w].remaining = R \ {i} /\ fresh' = {w}
        /\ \/ /\ hist'.done = hist.done \cup {i} /\ job'.subset = job.subset \ {i}
              /\ job'.completed = job.completed + 1 /\ job'.failed = job.failed
           \/ /\ hist'.done = hist.done /\ job'.subset = job.subset \cup {i}
              /\ job'.completed = job.completed /\ job'.failed = job.failed + 1
  BY AdvanceIs
<1>3. /\ job.subset \subseteq hist.touched /\ hist.touched \ job.subset \subseteq hist.done
      /\ hist.touched # Items => InScopeOrder
  BY <1>2 DEF TruthInv
<1>4. /\ job'.subset \subseteq hist'.touched /\ hist'.touched \ job'.subset \subseteq hist'.done
  BY <1>2, <1>3
<1>5. R \subseteq Items /\ hist.touched \subseteq Items /\ job.completed \in Nat /\ job.failed \in Nat
      /\ Total \in Nat
  BY NumbersAssumption DEF TypeOK, JobRows, WorkerStates, Histories
<1>6. ASSUME hist'.touched # Items PROVE InScopeOrder'
  <2>1. hist.touched # Items BY <1>2, <1>5, <1>6
  <2>2. Fenced(w) /\ wk[w].phase \notin {"abort", "defer"} BY DEF Advance, Leased
  <2>3. /\ hist.touched = 1..Started /\ R = (Started + 1)..Total
        /\ job.subset = {} => job.failed = 0 /\ hist.touched = 1..job.completed
    BY <1>3, <2>1, <2>2 DEF InScopeOrder
  <2>4. Started \in Nat BY <1>5 DEF Started
  <2>5. i = Started + 1
    <3>1. i \in (Started + 1)..Total BY <2>3
    <3>2. Started + 1 \in R BY <1>5, <2>3, <2>4, <3>1
    <3>3. i <= Started + 1 BY <1>2, <3>2
    <3> QED BY <1>5, <2>4, <3>1, <3>3
  <2>6. Started' = Started + 1 BY <1>2, <1>5 DEF Started
  <2>7. hist'.touched = 1..Started' /\ wk'[w].remaining = (Started' + 1)..Total
    <3>1. (1..Started) \cup {Started + 1} = 1..(Started + 1)
          /\ ((Started + 1)..Total) \ {Started + 1} = (Started + 1 + 1)..Total
      BY <1>5, <2>4, PrefixGrows
    <3> QED BY <1>2, <2>3, <2>5, <2>6, <3>1
  <2>8. ASSUME job'.subset = {} PROVE job'.failed = 0 /\ hist'.touched = 1..job'.completed
    <3>1. i \notin job.subset
      <4>1. i \notin 1..Started BY <2>4, <2>5
      <4> QED BY <1>3, <2>3, <4>1
    <3>2. /\ job.subset = {} /\ job'.failed = job.failed BY <1>2, <2>8, <3>1
    <3>3. job'.failed = 0 BY <2>3, <3>2
    <3>4. Started' = job'.completed BY <1>2, <1>5, <3>3 DEF Started
    <3> QED BY <2>7, <3>3, <3>4
  <2>9. \A v \in Workers : Fenced(v)' => v = w BY <1>2 DEF Fenced
  <2> QED BY <2>7, <2>8, <2>9 DEF InScopeOrder
<1> QED BY <1>4, <1>6 DEF TruthInv

(* Every step: claims and advances by the lemmas above, the others because *)
(* they process nothing.                                                   *)
LEMMA TruthStep == TypeOK /\ TruthInv /\ [Next]_vars => TruthInv'
<1> SUFFICES ASSUME TypeOK, TruthInv, [Next]_vars PROVE TruthInv'
  OBVIOUS
<1> USE WorkersAssumption, NumbersAssumption
<1> USE DEF Fenced, TypeOK, JobRows, WorkerStates
<1>1. CASE UNCHANGED vars
  BY <1>1, TruthKept DEF vars
<1>2. ASSUME NEW w \in Workers, Claim(w) PROVE TruthInv'
  BY <1>2, TruthClaim
<1>3. ASSUME NEW w \in Workers, ClaimExhausted(w) PROVE TruthInv'
  BY <1>3, TruthKept DEF ClaimExhausted
<1>4. ASSUME NEW w \in Workers, ScanNext(w) PROVE TruthInv'
  BY <1>4, TruthKept, RaiseIs DEF ScanNext, Leased, Goto
<1>5. ASSUME NEW w \in Workers, ScanDone(w) PROVE TruthInv'
  BY <1>5, TruthKept DEF ScanDone, Goto
<1>6. ASSUME NEW w \in Workers, Reserve(w) PROVE TruthInv'
  BY <1>6, TruthKept DEF Reserve, Leased, Bump
<1>7. ASSUME NEW w \in Workers, ReserveExhausted(w) PROVE TruthInv'
  BY <1>7, TruthKept, RaiseIs DEF ReserveExhausted, Leased
<1>8. ASSUME NEW w \in Workers, Process(w) PROVE TruthInv'
  <2>1. /\ UNCHANGED <<job, fresh>> /\ hist'.done = hist.done /\ hist'.touched = hist.touched
        /\ hist'.interrupted = hist.interrupted
    BY <1>8 DEF Process, Histories
  <2>2. \A v \in Workers : (Fenced(v) /\ wk[v].phase \notin {"abort", "defer"})' =>
          /\ Fenced(v) /\ wk[v].phase \notin {"abort", "defer"}
          /\ wk'[v].remaining = wk[v].remaining
    BY <1>8 DEF Process
  <2> QED BY <2>1, <2>2 DEF TruthInv, InScopeOrder, Started
<1>9. ASSUME NEW w \in Workers, Settle(w) PROVE TruthInv'
  BY <1>9, TruthKept, RaiseIs DEF Settle, Leased, Settled, Charge, Bump, Goto
<1>10. ASSUME NEW w \in Workers, SettleExhausted(w) PROVE TruthInv'
  BY <1>10, TruthKept, RaiseIs DEF SettleExhausted, Leased, Settled, Charge
<1>11. ASSUME NEW w \in Workers, Advance(w) PROVE TruthInv'
  BY <1>11, TruthAdvance
<1>12. ASSUME NEW w \in Workers, Publish(w) PROVE TruthInv'
  BY <1>12, TruthKept, RaiseIs DEF Publish, Leased, Bump, Goto
<1>13. ASSUME NEW w \in Workers, TransactionFails(w) PROVE TruthInv'
  BY <1>13, TruthKept, RaiseIs DEF TransactionFails
<1>14. ASSUME NEW w \in Workers, Finish(w) PROVE TruthInv'
  BY <1>14, TruthKept DEF Finish, Released, Idle
<1>15. ASSUME NEW w \in Workers, FinishRefused(w) PROVE TruthInv'
  BY <1>15, TruthKept, RaiseIs DEF FinishRefused
<1>16. ASSUME NEW w \in Workers, Reread(w) PROVE TruthInv'
  BY <1>16, TruthKept DEF Reread, Goto, Idle
<1>17. ASSUME NEW w \in Workers, Defer(w) PROVE TruthInv'
  BY <1>17, TruthKept DEF Defer, Released, Idle
<1>18. ASSUME NEW w \in Workers, Heartbeat(w) PROVE TruthInv'
  BY <1>18, TruthKept DEF Heartbeat, Leased, Bump
<1>19. ASSUME NEW w \in Workers, Crash(w) PROVE TruthInv'
  BY <1>19, TruthKept DEF Crash, Idle
<1>20. CASE Tick
  BY <1>20, TruthKept DEF Tick
<1>21. CASE UserRetry
  BY <1>21, TruthKept DEF UserRetry, Released
<1>22. CASE UserCancel
  BY <1>22, TruthKept DEF UserCancel, Released
<1>23. ASSUME NEW w \in Workers, ReserveFails(w) PROVE TruthInv'
  BY <1>23, TruthKept DEF ReserveFails
<1>24. QED
  BY <1>1, <1>2, <1>3, <1>4, <1>5, <1>6, <1>7, <1>8, <1>9, <1>10, <1>11, <1>12,
     <1>13, <1>14, <1>15, <1>16, <1>17, <1>18, <1>19, <1>20, <1>21, <1>22, <1>23
     DEF Next, Step

(* A completed job processed every item of its scope, unless an attempt    *)
(* began with a failure on record while items behind it had never been     *)
(* tried: the one way in which the job's counters lie.                     *)
THEOREM CompletedTellsTheTruth == Spec => []CompletedIsTruthful
<1>1. Init => TruthInv
  BY NumbersAssumption DEF Init, TruthInv, InScopeOrder, Fenced
<1>2. TypeOK /\ TruthInv /\ CompletedHasNoFailure => CompletedIsTruthful
  <2> SUFFICES ASSUME TypeOK, TruthInv, job.status = "completed", ~hist.interrupted,
                      job.subset = {}, job.completed = Total
               PROVE  hist.done = Items
    BY DEF CompletedHasNoFailure, CompletedIsTruthful
  <2>1. hist.touched \subseteq hist.done /\ hist.done \subseteq Items
    BY DEF TruthInv, TypeOK, Histories
  <2>2. hist.touched = Items BY DEF TruthInv, InScopeOrder, Items
  <2> QED BY <2>1, <2>2
<1>3. QED
  BY <1>1, <1>2, TypeInit, TypeStep, TruthStep, CompletedMeansNoFailure, PTL DEF Spec

-----------------------------------------------------------------------------
(* Publication.  A worker publishes when all the successes are counted and *)
(* no failure is; as long as the counters tell the truth, every item of    *)
(* the scope has then been processed.                                      *)
LEMMA PublishedStep ==
  TypeOK /\ CountInv /\ TruthInv /\ PublishedIsTruthful /\ [Next]_vars => PublishedIsTruthful'
<1> SUFFICES ASSUME TypeOK, CountInv, TruthInv, PublishedIsTruthful, [Next]_vars,
                    job'.published, ~hist'.interrupted
             PROVE  hist'.done = Items
  BY DEF PublishedIsTruthful
<1>1. /\ hist.done \subseteq hist'.done /\ hist'.done \subseteq Items
      /\ ~hist.interrupted
  <2>1. \/ hist' = hist
        \/ \E w \in Workers : Claim(w) \/ Process(w) \/ Advance(w)
    BY DEF Next, Step, vars, ClaimExhausted, ScanNext, ScanDone, Reserve,
           ReserveExhausted, ReserveFails, Settle, SettleExhausted,
           Publish, TransactionFails, Finish, FinishRefused, Reread, Defer, Heartbeat,
           Crash, Tick, UserRetry, UserCancel
  <2>2. hist.done \subseteq hist'.done /\ ~hist.interrupted
    <3>1. CASE hist' = hist
      BY <3>1
    <3>2. ASSUME NEW w \in Workers, Claim(w) PROVE hist.done \subseteq hist'.done /\ ~hist.interrupted
      BY <3>2 DEF Claim, TypeOK, Histories
    <3>3. ASSUME NEW w \in Workers, Process(w) PROVE hist.done \subseteq hist'.done /\ ~hist.interrupted
      BY <3>3 DEF Process, TypeOK, Histories
    <3>4. ASSUME NEW w \in Workers, Advance(w) PROVE hist.done \subseteq hist'.done /\ ~hist.interrupted
      BY <3>4, AdvanceIs
    <3>5. QED
      BY <2>1, <3>1, <3>2, <3>3, <3>4
  <2>3. QED
    BY <2>2, TypeStep DEF TypeOK, Histories
<1>2. CASE job.published
  BY <1>1, <1>2 DEF PublishedIsTruthful
<1>3. CASE ~job.published
  <2>1. PICK w \in Workers : Publish(w)
    <3>1. ASSUME NEW w \in Workers,
                 Claim(w) \/ ClaimExhausted(w) \/ Reserve(w) \/ ReserveExhausted(w)
                   \/ Heartbeat(w)
          PROVE  FALSE
      BY <1>3, <3>1 DEF Claim, ClaimExhausted, Reserve, ReserveExhausted, Heartbeat,
                        TypeOK, JobRows
    <3>2. ASSUME NEW w \in Workers, Settle(w) \/ SettleExhausted(w) PROVE FALSE
      BY <1>3, <3>2 DEF Settle, SettleExhausted, Settled, TypeOK, JobRows
    <3>3. ASSUME NEW w \in Workers, Advance(w) PROVE FALSE
      BY <1>3, <3>3, AdvanceIs
    <3>4. ASSUME NEW w \in Workers, Finish(w) \/ Defer(w) PROVE FALSE
      BY <1>3, <3>4 DEF Finish, Defer, Released, TypeOK, JobRows
    <3>5. ASSUME Tick \/ UserRetry \/ UserCancel PROVE FALSE
      BY <1>3, <3>5 DEF Tick, UserRetry, UserCancel, Released, TypeOK, JobRows
    <3>6. ASSUME UNCHANGED job PROVE FALSE
      BY <1>3, <3>6
    <3>7. QED
      BY <3>1, <3>2, <3>3, <3>4, <3>5, <3>6
         DEF Next, Step, vars, ScanNext, ScanDone, ReserveFails, Process,
             TransactionFails, FinishRefused, Reread, Crash
  <2>2. Publishable
    BY <1>3, <2>1 DEF Publish
  <2>3. job.subset = {} /\ job.completed = Total
    <3>1. job.subset \cup {} = job.subset /\ IsFiniteSet(job.subset)
          /\ Cardinality(job.subset) \in Nat
      BY ItemsFinite DEF TypeOK, JobRows
    <3>2. Total + Cardinality(job.subset) <= Total /\ job.completed = Total
      BY <2>2, <3>1 DEF CountInv, Count, Publishable
    <3>3. Cardinality(job.subset) = 0
      BY <3>1, <3>2, NumbersAssumption
    <3>4. QED
      BY <3>1, <3>2, <3>3, FS_EmptySet
  <2>4. hist.touched \subseteq hist.done /\ hist.touched = Items
    BY <1>1, <2>3 DEF TruthInv, InScopeOrder, Items
  <2>5. QED
    BY <1>1, <2>4
<1>4. QED
  BY <1>2, <1>3

(* The current pointers of a budgeted job, with any budget, are published  *)
(* only when every item of its scope was processed, with the exception of  *)
(* CompletedIsTruthful.                                                    *)
THEOREM PublishedTellsTheTruth == Spec => []PublishedIsTruthful
<1>1. Init => CountInv /\ TruthInv /\ PublishedIsTruthful
  <2> SUFFICES ASSUME Init PROVE CountInv /\ TruthInv /\ PublishedIsTruthful
    OBVIOUS
  <2>1. Cardinality(job.subset \cup {}) = 0 /\ job.completed = 0 /\ job.status = "queued"
    BY FS_EmptySet DEF Init
  <2>2. CountInv
    BY <2>1, NumbersAssumption DEF Init, CountInv, Count, CompletedHasNoFailure, Fenced
  <2>3. TruthInv /\ PublishedIsTruthful
    BY NumbersAssumption DEF Init, TruthInv, InScopeOrder, Fenced, PublishedIsTruthful
  <2>4. QED
    BY <2>2, <2>3
<1>2. QED
  BY <1>1, TypeInit, TypeStep, CountStep, TruthStep, PublishedStep, PTL DEF Spec
=============================================================================
