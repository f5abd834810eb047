----------------------------- MODULE JobLifecycle -----------------------------
(***************************************************************************)
(* What a durable leased job promises to its users, without the leases,    *)
(* the revision checks and the item loop that keep the promise:            *)
(*                                                                         *)
(*   queued -> running -> retry_wait -> completed / failed / cancelled     *)
(*                                                                         *)
(* At most one worker holds a job; an attempt is started at most           *)
(* MaxAttempts times before a user asks for more; a result comes from the  *)
(* holder; a completed or a cancelled job never changes again.             *)
(***************************************************************************)
EXTENDS Naturals

CONSTANTS
  Workers,      \* worker processes
  NoOwner,      \* no worker
  MaxAttempts   \* max_attempts of the job row

VARIABLES
  status,       \* the job's status
  holder,       \* the worker whose attempt is running, or NoOwner
  attempt       \* attempts started since the job was queued by a user

vars == <<status, holder, attempt>>

Final == {"completed", "cancelled"}

Init ==
  /\ status = "queued"
  /\ holder = NoOwner
  /\ attempt = 0

(* A worker starts an attempt, on a waiting job or by taking over from a   *)
(* holder that went silent.                                                *)
Start(w) ==
  /\ status \in {"queued", "retry_wait", "running"}
  /\ attempt < MaxAttempts
  /\ status' = "running"
  /\ holder' = w
  /\ attempt' = attempt + 1

(* The attempts are used up and nobody holds the last one any more.        *)
GiveUp ==
  /\ status \in {"queued", "retry_wait", "running"}
  /\ attempt >= MaxAttempts
  /\ status' = "failed"
  /\ holder' = NoOwner
  /\ UNCHANGED attempt

(* The holder ends its attempt; only an unspent budget of attempts leaves  *)
(* the job waiting for another.                                            *)
End(w) ==
  /\ status = "running"
  /\ holder = w
  /\ \/ status' \in {"completed", "failed"}
     \/ status' = "retry_wait" /\ attempt < MaxAttempts
  /\ holder' = NoOwner
  /\ UNCHANGED attempt

UserRetry ==
  /\ status \in {"failed", "retry_wait"}
  /\ status' = "queued"
  /\ attempt' = 0
  /\ UNCHANGED holder

UserCancel ==
  /\ status \notin Final
  /\ status' = "cancelled"
  /\ holder' = NoOwner
  /\ UNCHANGED attempt

Next ==
  \/ \E w \in Workers : Start(w) \/ End(w)
  \/ GiveUp
  \/ UserRetry
  \/ UserCancel

Spec == Init /\ [][Next]_vars
=============================================================================
