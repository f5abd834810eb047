-------------------------------- MODULE TagJob --------------------------------
(***************************************************************************)
(* One row of tag_extraction_jobs and the worker processes that compete    *)
(* for it: services/tag_governance.py (the row's transactions) and         *)
(* tag_worker.py (the loop that calls them).                               *)
(*                                                                         *)
(* Every transaction of a worker is a compare-and-set on (status, owner,   *)
(* revision).  A revision only grows and is only ever compared for         *)
(* equality, so the model keeps, instead of numbers, the set `fresh' of    *)
(* workers whose expected_revision is the row's revision.                  *)
(*                                                                         *)
(* A hard budget limits any of four things.  The model counts one of the   *)
(* three that are counted, provider calls; the fourth, wall-clock time, is *)
(* reserved and charged nowhere and may be found spent at any check.  Time *)
(* is the lease countdown ttl.                                             *)
(***************************************************************************)
EXTENDS Integers, FiniteSets

CONSTANTS
  Workers,      \* worker processes
  NoOwner,      \* lease_owner IS NULL
  Total,        \* total_items; the scope is the list 1, 2, ..., Total
  MaxAttempts,  \* max_attempts
  LeaseTTL,     \* clock ticks a lease lasts
  Budgets,      \* possible budgets: the limit of provider calls, 0 for none, and
                \* whether wall-clock time is limited
  MaxRetries    \* bound of the model: user retries

ASSUME WorkersAssumption == NoOwner \notin Workers
ASSUME NumbersAssumption ==
  /\ Total \in Nat \ {0} /\ MaxAttempts \in Nat \ {0}
  /\ LeaseTTL \in Nat \ {0} /\ MaxRetries \in Nat
  /\ Budgets \subseteq [calls : Nat, wall : BOOLEAN]

VARIABLES
  job,          \* the row
  fresh,        \* workers whose expected_revision is the row's revision
  wk,           \* each worker's local state, lost in a crash
  budget,       \* the row's limits, fixed when it was enqueued
  retries,      \* user retries so far
  hist          \* history, read by no action: what really happened

vars == <<job, fresh, wk, budget, retries, hist>>

Items == 1..Total
Statuses == {"queued", "running", "retry_wait", "completed", "failed", "cancelled"}
Phases == {"idle", "scan", "reserve", "process", "settle", "advance", "publish",
           "finish", "abort", "defer"}
Outcomes == {"ok", "error", "budget"}    \* how processing an item ended
Codes == {"other", "budget"}             \* error_code a failed attempt reports

Hard == budget.calls > 0 \/ budget.wall  \* hard_budget_job

JobRows == [status : Statuses, owner : Workers \cup {NoOwner}, ttl : 0..LeaseTTL,
            attempt : 0..MaxAttempts, completed : Nat, failed : Nat,
            subset : SUBSET Items, consumed : Nat, reserved : Nat,
            exhausted : BOOLEAN, published : BOOLEAN]
WorkerStates == [phase : Phases, remaining : SUBSET Items, clean : BOOLEAN,
                 allow : Nat, used : Nat, outcome : Outcomes, code : Codes]
Histories == [done : SUBSET Items, touched : SUBSET Items, spent : Nat,
              interrupted : BOOLEAN]

TypeOK ==
  /\ job \in JobRows
  /\ fresh \in SUBSET Workers
  /\ wk \in [Workers -> WorkerStates]
  /\ budget \in Budgets
  /\ retries \in 0..MaxRetries
  /\ hist \in Histories

Idle == [phase |-> "idle", remaining |-> {}, clean |-> TRUE, allow |-> 0, used |-> 0,
         outcome |-> "ok", code |-> "other"]

Init ==
  /\ job = [status |-> "queued", owner |-> NoOwner, ttl |-> 0, attempt |-> 0,
            completed |-> 0, failed |-> 0, subset |-> {}, consumed |-> 0, reserved |-> 0,
            exhausted |-> FALSE, published |-> FALSE]
  /\ fresh = {}
  /\ wk = [w \in Workers |-> Idle]
  /\ budget \in Budgets
  /\ retries = 0
  /\ hist = [done |-> {}, touched |-> {}, spent |-> 0, interrupted |-> FALSE]

-----------------------------------------------------------------------------
(* The WHERE clauses of the worker's transactions.                         *)

Fenced(w) == job.status = "running" /\ job.owner = w /\ w \in fresh
Leased(w) == Fenced(w) /\ job.ttl > 0    \* ... and lease_expires_at >= now

(* The transaction of w commits and bumps the revision, which w keeps.     *)
Bump(w) == fresh' = {w}

Goto(w, phase) == wk' = [wk EXCEPT ![w].phase = phase]

(* An exception leaves _execute_claimed, whose local state is gone.        *)
Raise(w, code) == wk' = [wk EXCEPT ![w] = [Idle EXCEPT !.phase = "abort", !.code = code]]

(* The loop goes on to the items of `remaining'.                           *)
NextItem(w, remaining, clean) ==
  wk' = [wk EXCEPT ![w] = [Idle EXCEPT !.phase = "scan", !.remaining = remaining,
                                       !.clean = clean]]

Working(w) == wk[w].phase \notin {"idle", "abort", "defer"}

-----------------------------------------------------------------------------
(* Claiming.                                                               *)

(* Mutant: an expired lease is never reclaimed.                            *)
ClaimableUnlessRunning == job.status \in {"queued", "retry_wait"}

Claimable ==
  \/ job.status \in {"queued", "retry_wait"}
  \/ job.status = "running" /\ job.ttl = 0

(* Mutant: a retry forgets the recorded failures.                          *)
RemainingScope == {i \in Items : i > job.completed + job.failed}

(* The items an attempt is to process: the recorded failures if there are  *)
(* any, else the scope from position completed + failed on.                *)
Remaining ==
  IF job.subset # {} THEN job.subset
  ELSE {i \in Items : i > job.completed + job.failed}

(* Mutant: the reservation of a dead holder is released, not charged.      *)
ClaimReleasing(w) ==
  /\ wk[w].phase = "idle"
  /\ Claimable
  /\ job.attempt < MaxAttempts
  /\ job' = [job EXCEPT !.status = "running", !.owner = w, !.ttl = LeaseTTL,
                        !.attempt = job.attempt + 1, !.reserved = 0]
  /\ Bump(w)
  /\ NextItem(w, Remaining, TRUE)
  /\ UNCHANGED <<budget, retries, hist>>

(* A reservation its holder never settled is charged in full.              *)
Claim(w) ==
  /\ wk[w].phase = "idle"
  /\ Claimable
  /\ job.attempt < MaxAttempts
  /\ job' = [job EXCEPT !.status = "running", !.owner = w, !.ttl = LeaseTTL,
                        !.attempt = job.attempt + 1,
                        !.consumed = job.consumed + job.reserved, !.reserved = 0]
  /\ Bump(w)
  /\ NextItem(w, Remaining, TRUE)
  /\ hist' = [hist EXCEPT !.interrupted =
                hist.interrupted \/ (job.subset # {} /\ hist.touched # Items)]
  /\ UNCHANGED <<budget, retries>>

(* The last attempt expired or was deferred: the claim fails the job and   *)
(* leaves lease and revision as they are.                                  *)
ClaimExhausted(w) ==
  /\ wk[w].phase = "idle"
  /\ Claimable
  /\ job.attempt >= MaxAttempts
  /\ job' = [job EXCEPT !.status = "failed"]
  /\ UNCHANGED <<fresh, wk, budget, retries, hist>>

-----------------------------------------------------------------------------
(* The item loop of _execute_claimed.                                      *)

ScanNext(w) ==
  /\ wk[w].phase = "scan"
  /\ wk[w].remaining # {}
  /\ IF Leased(w) THEN Goto(w, IF Hard THEN "reserve" ELSE "process")
                  ELSE Raise(w, "other")
  /\ UNCHANGED <<job, fresh, budget, retries, hist>>

ScanDone(w) ==
  /\ wk[w].phase = "scan"
  /\ wk[w].remaining = {}
  /\ Goto(w, IF Hard /\ wk[w].clean THEN "publish" ELSE "finish")
  /\ UNCHANGED <<job, fresh, budget, retries, hist>>

(* What is left of the limited calls; 0 where they are not limited.        *)
Remainder == IF budget.calls > 0 THEN budget.calls - job.consumed ELSE 0
Spent == budget.calls > 0 /\ job.consumed >= budget.calls

(* The whole remainder is reserved for one item: nothing, for a budget     *)
(* that limits the time only.                                              *)
Reserve(w) ==
  /\ wk[w].phase = "reserve"
  /\ Leased(w)
  /\ ~job.exhausted /\ ~Spent
  /\ job' = [job EXCEPT !.reserved = Remainder]
  /\ Bump(w)
  /\ wk' = [wk EXCEPT ![w].phase = "process", ![w].allow = Remainder]
  /\ UNCHANGED <<budget, retries, hist>>

(* Nothing is left, or the wall-clock limit is found spent: the row is     *)
(* marked and the worker's revision falls behind.                          *)
ReserveExhausted(w) ==
  /\ wk[w].phase = "reserve"
  /\ Leased(w)
  /\ job.exhausted \/ Spent \/ budget.wall
  /\ job' = [job EXCEPT !.exhausted = TRUE]
  /\ fresh' = {}
  /\ Raise(w, "budget")
  /\ UNCHANGED <<budget, retries, hist>>

(* The reservation fails for another reason: the database, or a lease that *)
(* was lost.  The item counts as failed and nothing is settled.            *)
ReserveFails(w) ==
  /\ wk[w].phase = "reserve"
  /\ wk' = [wk EXCEPT ![w].phase = "advance", ![w].outcome = "error"]
  /\ UNCHANGED <<job, fresh, budget, retries, hist>>

(* Provider calls are made, up to the allowance.  The worker does not look *)
(* at the row: it may have lost its lease long ago.                        *)
Process(w) ==
  /\ wk[w].phase = "process"
  /\ \E used \in 0..wk[w].allow, outcome \in Outcomes :
       /\ outcome = "budget" => Hard
       /\ wk' = [wk EXCEPT ![w].phase = "settle", ![w].used = used,
                           ![w].outcome = outcome]
       /\ hist' = [hist EXCEPT !.spent = hist.spent + used]
  /\ UNCHANGED <<job, fresh, budget, retries>>

(* Actual use after a success; the whole reservation after a failure.      *)
Charge(w) == IF wk[w].outcome = "ok" THEN wk[w].used ELSE job.reserved

Settled(w) == [job EXCEPT !.consumed = job.consumed + Charge(w), !.reserved = 0]

Settle(w) ==
  /\ wk[w].phase = "settle"
  /\ Leased(w)
  /\ job' = Settled(w)
  /\ Bump(w)
  /\ IF wk[w].outcome = "budget" THEN Raise(w, "budget") ELSE Goto(w, "advance")
  /\ UNCHANGED <<budget, retries, hist>>

(* The wall-clock limit is found spent after the charge was made.  After a *)
(* successful item the handler settles a second time with the revision it  *)
(* had before, so that the error it reports is a lost lease.               *)
SettleExhausted(w) ==
  /\ wk[w].phase = "settle"
  /\ budget.wall
  /\ Leased(w)
  /\ job' = [Settled(w) EXCEPT !.exhausted = TRUE]
  /\ IF wk[w].outcome = "ok" THEN fresh' = {} /\ Raise(w, "other")
                             ELSE fresh' = {w} /\ Raise(w, "budget")
  /\ UNCHANGED <<budget, retries, hist>>

(* Mutant: progress is recorded without looking at the lease.              *)
AdvanceUnfenced(w) ==
  /\ wk[w].phase = "advance"
  /\ \E i \in wk[w].remaining :
       /\ \A k \in wk[w].remaining : i <= k
       /\ hist' = [hist EXCEPT !.touched = @ \cup {i},
                               !.done = IF wk[w].outcome = "ok" THEN @ \cup {i} ELSE @]
       /\ \/ /\ wk[w].outcome = "ok"
             /\ job' = [job EXCEPT !.completed = job.completed + 1,
                                   !.subset = job.subset \ {i}, !.ttl = LeaseTTL]
             /\ NextItem(w, wk[w].remaining \ {i}, wk[w].clean)
          \/ /\ wk[w].outcome # "ok"
             /\ job' = [job EXCEPT !.failed = job.failed + 1,
                                   !.subset = job.subset \cup {i}, !.ttl = LeaseTTL]
             /\ NextItem(w, wk[w].remaining \ {i}, FALSE)
  /\ Bump(w)
  /\ UNCHANGED <<budget, retries>>

(* One real item result is recorded and the lease renewed.                 *)
Advance(w) ==
  /\ wk[w].phase = "advance"
  /\ Leased(w)
  /\ \E i \in wk[w].remaining :
       /\ \A k \in wk[w].remaining : i <= k
       /\ hist' = [hist EXCEPT !.touched = @ \cup {i},
                               !.done = IF wk[w].outcome = "ok" THEN @ \cup {i} ELSE @]
       /\ \/ /\ wk[w].outcome = "ok"
             /\ job' = [job EXCEPT !.completed = job.completed + 1,
                                   !.subset = job.subset \ {i}, !.ttl = LeaseTTL]
             /\ NextItem(w, wk[w].remaining \ {i}, wk[w].clean)
          \/ /\ wk[w].outcome # "ok"
             /\ job' = [job EXCEPT !.failed = job.failed + 1,
                                   !.subset = job.subset \cup {i}, !.ttl = LeaseTTL]
             /\ NextItem(w, wk[w].remaining \ {i}, FALSE)
  /\ Bump(w)
  /\ UNCHANGED <<budget, retries>>

(* All current pointers of a budgeted job become visible in one            *)
(* transaction, once.  It is also refused when an extraction run of the    *)
(* job is unfinished or its facts are of another lineage; the runs are not *)
(* modelled, so that refusal may always come.                              *)
Publishable == job.failed = 0 /\ job.completed = Total /\ job.reserved = 0

Publish(w) ==
  /\ wk[w].phase = "publish"
  /\ Leased(w)
  /\ \/ /\ job.published
        /\ Goto(w, "finish")
        /\ UNCHANGED <<job, fresh>>
     \/ /\ ~job.published
        /\ Publishable
        /\ ~job.exhausted
        /\ job' = [job EXCEPT !.published = TRUE]
        /\ Bump(w)
        /\ Goto(w, "finish")
     \/ /\ ~job.published
        /\ Raise(w, IF Publishable /\ job.exhausted THEN "budget" ELSE "other")
        /\ UNCHANGED <<job, fresh>>
  /\ UNCHANGED <<budget, retries, hist>>

(* A transaction of the loop finds no row, the lease being lost, or the    *)
(* database fails it: nothing is written.                                  *)
TransactionFails(w) ==
  /\ wk[w].phase \in {"scan", "settle", "advance", "publish"}
  /\ Raise(w, "other")
  /\ UNCHANGED <<job, fresh, budget, retries, hist>>

(* The row without its lease.                                              *)
Released(row, status) == [row EXCEPT !.status = status, !.owner = NoOwner, !.ttl = 0]

Finish(w) ==
  /\ wk[w].phase = "finish"
  /\ Fenced(w)
  /\ job.completed + job.failed >= Total
  /\ job' = Released(job, IF job.failed = 0 THEN "completed" ELSE "failed")
  /\ fresh' = {}
  /\ wk' = [wk EXCEPT ![w] = Idle]
  /\ UNCHANGED <<budget, retries, hist>>

FinishRefused(w) ==
  /\ wk[w].phase = "finish"
  /\ ~(Fenced(w) /\ job.completed + job.failed >= Total)
  /\ Raise(w, "other")
  /\ UNCHANGED <<job, fresh, budget, retries, hist>>

-----------------------------------------------------------------------------
(* run_once after an exception: read the row again, then defer it with the *)
(* revision that was read.                                                 *)

Reread(w) ==
  /\ wk[w].phase = "abort"
  /\ IF job.status = "running" /\ job.owner = w
       THEN Goto(w, "defer") /\ fresh' = fresh \cup {w}
       ELSE wk' = [wk EXCEPT ![w] = Idle] /\ UNCHANGED fresh
  /\ UNCHANGED <<job, budget, retries, hist>>

(* Mutant: the attempts are not counted.                                   *)
RetryableAlways(w) == wk[w].code # "budget"

Retryable(w) == wk[w].code # "budget" /\ job.attempt < MaxAttempts

Defer(w) ==
  /\ wk[w].phase = "defer"
  /\ IF Fenced(w)
       THEN /\ job' = Released(job, IF Retryable(w) THEN "retry_wait" ELSE "failed")
            /\ fresh' = {}
       ELSE UNCHANGED <<job, fresh>>
  /\ wk' = [wk EXCEPT ![w] = Idle]
  /\ UNCHANGED <<budget, retries, hist>>

-----------------------------------------------------------------------------
(* The heartbeat task, the clock, crashes, and the users.                  *)

Heartbeat(w) ==
  /\ Working(w)
  /\ Leased(w)
  /\ job' = [job EXCEPT !.ttl = LeaseTTL]
  /\ Bump(w)
  /\ UNCHANGED <<wk, budget, retries, hist>>

(* Mutant: the countdown runs past zero.                                   *)
TickPastZero ==
  /\ job.status = "running"
  /\ job' = [job EXCEPT !.ttl = job.ttl - 1]
  /\ UNCHANGED <<fresh, wk, budget, retries, hist>>

Tick ==
  /\ job.status = "running"
  /\ job.ttl > 0
  /\ job' = [job EXCEPT !.ttl = job.ttl - 1]
  /\ UNCHANGED <<fresh, wk, budget, retries, hist>>

Crash(w) ==
  /\ wk[w].phase # "idle"
  /\ wk' = [wk EXCEPT ![w] = Idle]
  /\ fresh' = fresh \ {w}
  /\ UNCHANGED <<job, budget, retries, hist>>

UserRetry ==
  /\ job.status \in {"failed", "retry_wait"}
  /\ retries < MaxRetries
  /\ job' = [Released(job, "queued") EXCEPT !.failed = 0, !.attempt = 0]
  /\ fresh' = {}
  /\ retries' = retries + 1
  /\ UNCHANGED <<wk, budget, hist>>

UserCancel ==
  /\ job.status \notin {"completed", "cancelled"}
  /\ job' = Released(job, "cancelled")
  /\ fresh' = {}
  /\ UNCHANGED <<wk, budget, retries, hist>>

-----------------------------------------------------------------------------

(* The steps a live worker process takes by itself.                        *)
Step(w) ==
  \/ Claim(w) \/ ClaimExhausted(w)
  \/ ScanNext(w) \/ ScanDone(w)
  \/ Reserve(w) \/ ReserveExhausted(w) \/ ReserveFails(w) \/ Process(w)
  \/ Settle(w) \/ SettleExhausted(w)
  \/ Advance(w) \/ Publish(w) \/ TransactionFails(w)
  \/ Finish(w) \/ FinishRefused(w) \/ Reread(w) \/ Defer(w)

Next ==
  \/ \E w \in Workers : Step(w) \/ Heartbeat(w) \/ Crash(w)
  \/ Tick
  \/ UserRetry
  \/ UserCancel

Spec == Init /\ [][Next]_vars

(* Workers poll and run for ever and the provider client's timeouts end    *)
(* every call; the clock runs.  Users and crashes owe nothing.             *)
FairSpec == Spec /\ WF_vars(Tick) /\ \A w \in Workers : WF_vars(Step(w))

-----------------------------------------------------------------------------
(* Budget: every provider call really made, also by a worker that died or  *)
(* lost its lease before settling, is covered by what the row has charged  *)
(* or reserved, and that stays within the limit.                           *)
SpendIsCovered ==
  budget.calls > 0 => /\ hist.spent <= job.consumed + job.reserved
                      /\ job.consumed + job.reserved <= budget.calls

(* Visibility: the current pointers of a budgeted job, whatever it limits, *)
(* are published only when every item of its scope was processed           *)
(* successfully, unless an attempt started with a recorded failure while   *)
(* items behind it had never been tried.                                   *)
PublishedIsTruthful == job.published /\ ~hist.interrupted => hist.done = Items

(* A completed job has no recorded failure left, whatever crashes, retries *)
(* and takeovers happened before.                                          *)
CompletedHasNoFailure ==
  job.status = "completed" => job.subset = {} /\ job.completed = Total

(* A completed job processed every item, unless an attempt started with a  *)
(* recorded failure while items behind it had never been tried.            *)
CompletedIsTruthful ==
  job.status = "completed" /\ ~hist.interrupted => hist.done = Items

(* ... and without that exception.                                         *)
CompletedIsComplete == job.status = "completed" => hist.done = Items

(* A job whose budget was found exhausted is not put up for another        *)
(* attempt by the worker.                                                  *)
ExhaustedIsNotRetried == job.exhausted => job.status # "retry_wait"

(* The job's life cycle, as JobLifecycle states it, is implemented.        *)
Holder == IF job.status = "running" THEN job.owner ELSE NoOwner
Lifecycle == INSTANCE JobLifecycle
               WITH status <- job.status, holder <- Holder, attempt <- job.attempt
ImplementsLifecycle == Lifecycle!Spec

(* Once the users stop retrying it, every job comes to rest, although      *)
(* workers crash, hang on to expired leases and take over from each other. *)
AtRest == job.status \in {"completed", "failed", "cancelled"}
EventuallyAtRest == <>[]AtRest
=============================================================================
