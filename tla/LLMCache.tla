------------------------------- MODULE LLMCache -------------------------------
(***************************************************************************)
(* One identity (tenant, namespace, recipe) of the LLM result cache: the   *)
(* durable row and its lease (storage/llm_cache_store.py), the hot cache   *)
(* in front of it, the requests that go through both                       *)
(* (services/llm_cache_coordinator.py, llm/gateway.py), and the erasure of *)
(* the sources a result was derived from.                                  *)
(*                                                                         *)
(* Requests of several sources can have the same identity.  Payloads are   *)
(* numbered in the order of their publication.  The hot cache is Redis,    *)
(* which may be down; the process-local cache behind it is left out.       *)
(***************************************************************************)
EXTENDS Integers, FiniteSets

CONSTANTS
  Callers,       \* gateway tasks that lead a request in their process
  NoCaller,      \* lease_token IS NULL
  Sources,       \* provenance references (source_type, source_id)
  RefSets,       \* the provenance a request may carry
  LeaseTTL,      \* clock ticks a lease lasts
  MaxRequests,   \* bound of the model: requests
  MaxOutages     \* bound of the model: outages of Redis

ASSUME CacheConstants ==
  /\ NoCaller \notin Callers
  /\ RefSets \subseteq SUBSET Sources /\ IsFiniteSet(Sources)
  /\ LeaseTTL \in Nat \ {0} /\ MaxRequests \in Nat /\ MaxOutages \in Nat

VARIABLES
  entry,      \* the row of llm_cache_entries with its llm_cache_refs
  erased,     \* sources whose guard row is in state erased
  hot,        \* the value under the identity's key in Redis
  redis,      \* is Redis reachable
  purge,      \* is the identity in llm_cache_purges
  eraser,     \* progress of each source's erasure
  drain,      \* is drain_pending_purges between its two steps
  caller,     \* each caller's request
  requests,   \* requests so far
  outages,    \* outages so far
  gens,       \* payloads published so far
  gone,       \* history: payloads whose row a source erasure deleted
  sourced     \* history: payloads whose leader named sources

vars == <<entry, erased, hot, redis, purge, eraser, drain, caller, requests, outages,
          gens, gone, sourced>>

Gens == Nat               \* payloads; 0: none
RowStatuses == {"none", "pending", "ready", "expired"}
Phases == {"idle", "lookup", "validate", "drop", "read", "miss", "join", "claim", "reclaim",
           "fill", "call", "bypass", "publish", "sethot", "release", "served", "shared"}

Rows == [id : Nat, status : RowStatuses, token : Callers \cup {NoCaller}, ttl : 0..LeaseTTL,
         refs : SUBSET Sources, prov : BOOLEAN, gen : Gens, origin : SUBSET Sources]
HotValues == [gen : Gens, prov : BOOLEAN]
Requests == [phase : Phases, refs : SUBSET Sources, gen : Gens, prov : BOOLEAN, row : Nat,
             before : SUBSET Gens, leader : Callers \cup {NoCaller}, lead : BOOLEAN]

TypeOK ==
  /\ entry \in Rows
  /\ erased \in SUBSET Sources
  /\ hot \in HotValues
  /\ redis \in BOOLEAN /\ purge \in BOOLEAN /\ drain \in BOOLEAN
  /\ eraser \in [Sources -> {"none", "hot", "ack", "done"}]
  /\ caller \in [Callers -> Requests]
  /\ requests \in 0..MaxRequests /\ outages \in 0..MaxOutages
  /\ gens \in Gens /\ gone \in SUBSET Gens /\ sourced \in SUBSET Gens

NoRow == [id |-> 0, status |-> "none", token |-> NoCaller, ttl |-> 0, refs |-> {},
          prov |-> FALSE,
          gen |-> 0, origin |-> {}]
NoHot == [gen |-> 0, prov |-> FALSE]
NoRequest == [phase |-> "idle", refs |-> {}, gen |-> 0, prov |-> FALSE, row |-> 0,
              before |-> {}, leader |-> NoCaller, lead |-> FALSE]

(* The row is deleted; the next one has another id.                        *)
Deleted == [NoRow EXCEPT !.id = entry.id]

Init ==
  /\ entry = NoRow /\ erased = {} /\ hot = NoHot
  /\ redis = TRUE /\ purge = FALSE /\ drain = FALSE
  /\ eraser = [s \in Sources |-> "none"]
  /\ caller = [c \in Callers |-> NoRequest]
  /\ requests = 0 /\ outages = 0 /\ gens = 0 /\ gone = {} /\ sourced = {}

-----------------------------------------------------------------------------
At(c, phase) == caller[c].phase = phase
Goto(c, phase) == caller' = [caller EXCEPT ![c].phase = phase]
Refs(c) == caller[c].refs
Leading(c) == caller[c].lead      \* this request is its process's task

(* _lock_source_guards: a request of an erased source is turned away.  The *)
(* guard rows stay locked to the end of the transaction, which is a step   *)
(* of its own but for the one that takes a row over.                       *)
Guarded(c) == Refs(c) \cap erased = {}
LockedBy(c, refs) == At(c, "reclaim") /\ Refs(c) \cap refs # {}
Unlocked(c) == \A d \in Callers : ~LockedBy(d, Refs(c))

(* _attach_references, and the row's has_provenance.                       *)
Attached(row, refs) ==
  [row EXCEPT !.refs = row.refs \cup refs, !.prov = row.prov \/ refs # {}]

(* The caller takes payload gen into hand and moves on.                    *)
Take(c, phase, gen, prov) ==
  caller' = [caller EXCEPT ![c].phase = phase, ![c].gen = gen, ![c].prov = prov]

(* A hot-cache write is lost while Redis is down.                          *)
HotSet(gen, prov) == hot' = IF redis THEN [gen |-> gen, prov |-> prov] ELSE hot

-----------------------------------------------------------------------------
(* LLMCacheCoordinator.get: hot cache first, then the row.                 *)

Begin(c, refs) ==
  /\ At(c, "idle")
  /\ requests < MaxRequests
  /\ requests' = requests + 1
  /\ caller' = [caller EXCEPT ![c] = [NoRequest EXCEPT !.phase = "lookup", !.refs = refs,
                                                       !.before = gone]]
  /\ UNCHANGED <<entry, erased, hot, redis, purge, eraser, drain, outages, gens, gone,
                 sourced>>

(* A hit that carries provenance, or a request that does, is checked       *)
(* against the row before it is used.                                      *)
HotGet(c) ==
  /\ At(c, "lookup")
  /\ IF redis /\ hot.gen # 0
       THEN Take(c, IF hot.prov \/ Refs(c) # {} THEN "validate" ELSE "served",
                 hot.gen, hot.prov)
       ELSE Goto(c, "read")
  /\ UNCHANGED <<entry, erased, hot, redis, purge, eraser, drain, requests, outages, gens,
                 gone, sourced>>

(* get_ready, as the check of a hot hit: it is the hot payload that is     *)
(* served.                                                                 *)
Validate(c) ==
  /\ At(c, "validate") /\ Unlocked(c)
  /\ IF Guarded(c) /\ entry.status = "ready"
       THEN entry' = Attached(entry, Refs(c)) /\ Take(c, "served", caller[c].gen, FALSE)
       ELSE Take(c, "drop", 0, FALSE) /\ UNCHANGED entry
  /\ UNCHANGED <<erased, hot, redis, purge, eraser, drain, requests, outages, gens, gone,
                 sourced>>

DropHot(c) ==
  /\ At(c, "drop")
  /\ hot' = IF redis THEN NoHot ELSE hot
  /\ Goto(c, "read")
  /\ UNCHANGED <<entry, erased, redis, purge, eraser, drain, requests, outages, gens,
                 gone, sourced>>

Read(c) ==
  /\ At(c, "read") /\ Unlocked(c)
  /\ IF Guarded(c) /\ entry.status = "ready"
       THEN /\ entry' = Attached(entry, Refs(c))
            /\ Take(c, "fill", entry.gen, Attached(entry, Refs(c)).prov)
       ELSE Goto(c, IF Leading(c) THEN "claim" ELSE "miss") /\ UNCHANGED entry
  /\ UNCHANGED <<erased, hot, redis, purge, eraser, drain, requests, outages, gens, gone,
                 sourced>>

(* Mutant: the flag is what this request names, as after a publication.    *)
FillAsAsked(c) ==
  /\ At(c, "fill")
  /\ HotSet(caller[c].gen, Refs(c) # {})
  /\ Take(c, "served", caller[c].gen, FALSE)
  /\ UNCHANGED <<entry, erased, redis, purge, eraser, drain, requests, outages, gens,
                 gone, sourced>>

(* _fill_hot *)
Fill(c) ==
  /\ At(c, "fill")
  /\ HotSet(caller[c].gen, caller[c].prov)
  /\ Take(c, "served", caller[c].gen, FALSE)
  /\ UNCHANGED <<entry, erased, redis, purge, eraser, drain, requests, outages, gens,
                 gone, sourced>>

-----------------------------------------------------------------------------
(* LLMGateway._execute: one task per identity and process asks the         *)
(* provider; a request that finds one running in its process waits for it. *)
(* The task looks in the cache once more before it claims.                 *)

Lead(c) ==
  /\ At(c, "miss")
  /\ caller' = [caller EXCEPT ![c].phase = "lookup", ![c].lead = TRUE]
  /\ UNCHANGED <<entry, erased, hot, redis, purge, eraser, drain, requests, outages, gens,
                 gone, sourced>>

Join(c) ==
  /\ At(c, "miss")
  /\ \E d \in Callers :
       /\ Leading(d)
       /\ caller' = [caller EXCEPT ![c].phase = "join", ![c].leader = d]
  /\ UNCHANGED <<entry, erased, hot, redis, purge, eraser, drain, requests, outages, gens,
                 gone, sourced>>

(* The task of c ends; those who joined it are given its result.           *)
End(c) ==
  caller' = [x \in Callers |->
               IF x = c THEN NoRequest
               ELSE IF caller[x].leader = c
                 THEN [caller[x] EXCEPT !.phase = "shared", !.leader = NoCaller,
                                        !.gen = caller[c].gen]
               ELSE caller[x]]

-----------------------------------------------------------------------------
(* LLMCacheStore.claim and the leader's work.                              *)

ClaimBlocked(c) ==
  /\ At(c, "claim") /\ Unlocked(c)
  /\ ~Guarded(c)
  /\ Goto(c, "bypass")
  /\ UNCHANGED <<entry, erased, hot, redis, purge, eraser, drain, requests, outages, gens,
                 gone, sourced>>

ClaimHit(c) ==
  /\ At(c, "claim") /\ Unlocked(c) /\ Guarded(c)
  /\ entry.status = "ready"
  /\ entry' = Attached(entry, Refs(c))
  /\ Take(c, "fill", entry.gen, Attached(entry, Refs(c)).prov)
  /\ UNCHANGED <<erased, hot, redis, purge, eraser, drain, requests, outages, gens, gone,
                 sourced>>

(* Another caller's lease is running: wait, and claim again.               *)
ClaimFollow(c) ==
  /\ At(c, "claim") /\ Unlocked(c) /\ Guarded(c)
  /\ entry.status = "pending" /\ entry.ttl > 0
  /\ entry' = Attached(entry, Refs(c))
  /\ UNCHANGED <<erased, hot, redis, purge, eraser, drain, caller, requests, outages,
                 gens, gone, sourced>>

(* Mutant: a dead leader's lease is never taken over.                      *)
FreeUnlessPending == entry.status = "expired"

Free == \/ entry.status = "expired"
        \/ entry.status = "pending" /\ entry.ttl = 0

ClaimInsert(c) ==
  /\ At(c, "claim") /\ Unlocked(c) /\ Guarded(c)
  /\ entry.status = "none"
  /\ entry' = [NoRow EXCEPT !.id = entry.id + 1, !.status = "pending", !.token = c,
                            !.ttl = LeaseTTL, !.refs = Refs(c), !.prov = Refs(c) # {}]
  /\ Goto(c, "call")
  /\ UNCHANGED <<erased, hot, redis, purge, eraser, drain, requests, outages, gens, gone,
                 sourced>>

(* The row of a dead leader, or of a value whose time is up, is read       *)
(* without a lock, and then taken over by an UPDATE that asks whether it   *)
(* is still such a row, and writes what was read of the flag.              *)
ClaimRead(c) ==
  /\ At(c, "claim") /\ Unlocked(c) /\ Guarded(c)
  /\ Free
  /\ caller' = [caller EXCEPT ![c].phase = "reclaim", ![c].row = entry.id,
                              ![c].prov = entry.prov]
  /\ UNCHANGED <<entry, erased, hot, redis, purge, eraser, drain, requests, outages, gens,
                 gone, sourced>>

LetGo(c, phase) ==
  caller' = [caller EXCEPT ![c].phase = phase, ![c].row = 0, ![c].prov = FALSE]

(* A row that is another's by now is claimed again; a claim that does not  *)
(* converge is given up.                                                   *)
Reclaim(c) ==
  /\ At(c, "reclaim")
  /\ IF Free /\ entry.id = caller[c].row
       THEN /\ entry' = [entry EXCEPT !.status = "pending", !.token = c, !.ttl = LeaseTTL,
                                      !.refs = entry.refs \cup Refs(c), !.gen = 0, !.origin = {},
                                      !.prov = caller[c].prov \/ Refs(c) # {}]
            /\ LetGo(c, "call")
       ELSE /\ LetGo(c, "claim") \/ LetGo(c, "bypass")
            /\ UNCHANGED entry
  /\ UNCHANGED <<erased, hot, redis, purge, eraser, drain, requests, outages, gens, gone,
                 sourced>>

Owns(c) == entry.status = "pending" /\ entry.token = c

(* The provider answers, or it fails or answers something invalid.         *)
Provide(c) ==
  /\ At(c, "call")
  /\ \/ Goto(c, "publish")
     \/ Goto(c, "release")
  /\ UNCHANGED <<entry, erased, hot, redis, purge, eraser, drain, requests, outages, gens,
                 gone, sourced>>

Bypass(c) ==
  /\ At(c, "bypass")
  /\ End(c)
  /\ UNCHANGED <<entry, erased, hot, redis, purge, eraser, drain, requests, outages, gens,
                 gone, sourced>>

(* _lease_heartbeat_loop: runs beside the provider call; an expired lease  *)
(* nobody has taken over is revived.                                       *)
Renew(c) ==
  /\ At(c, "call")
  /\ Owns(c)
  /\ entry' = [entry EXCEPT !.ttl = LeaseTTL]
  /\ UNCHANGED <<erased, hot, redis, purge, eraser, drain, caller, requests, outages,
                 gens, gone, sourced>>

(* Mutant: the row is found by its address, whoever owns its lease.        *)
PublishUnfenced(c) ==
  /\ At(c, "publish")
  /\ IF entry.status # "none"
       THEN /\ gens' = gens + 1
            /\ entry' = [entry EXCEPT !.status = "ready", !.token = NoCaller, !.ttl = 0,
                                      !.gen = gens + 1, !.origin = Refs(c)]
            /\ sourced' = IF Refs(c) # {} THEN sourced \cup {gens + 1} ELSE sourced
            /\ Take(c, "sethot", gens + 1, Refs(c) # {})
       ELSE /\ End(c)
            /\ UNCHANGED <<entry, gens, sourced>>
  /\ UNCHANGED <<erased, hot, redis, purge, eraser, drain, requests, outages, gone>>

(* A leader whose lease is over, or whose row an erasure deleted, returns  *)
(* the provider's answer without publishing it.                            *)
Publish(c) ==
  /\ At(c, "publish")
  /\ IF Owns(c) /\ entry.ttl > 0
       THEN /\ gens' = gens + 1
            /\ entry' = [entry EXCEPT !.status = "ready", !.token = NoCaller, !.ttl = 0,
                                      !.gen = gens + 1, !.origin = Refs(c)]
            /\ sourced' = IF Refs(c) # {} THEN sourced \cup {gens + 1} ELSE sourced
            /\ Take(c, "sethot", gens + 1, Refs(c) # {})
       ELSE /\ End(c)
            /\ UNCHANGED <<entry, gens, sourced>>
  /\ UNCHANGED <<erased, hot, redis, purge, eraser, drain, requests, outages, gone>>

SetHot(c) ==
  /\ At(c, "sethot")
  /\ HotSet(caller[c].gen, caller[c].prov)
  /\ End(c)
  /\ UNCHANGED <<entry, erased, redis, purge, eraser, drain, requests, outages, gens,
                 gone, sourced>>

Release(c) ==
  /\ At(c, "release")
  /\ entry' = IF Owns(c) THEN Deleted ELSE entry
  /\ End(c)
  /\ UNCHANGED <<erased, hot, redis, purge, eraser, drain, requests, outages, gens, gone,
                 sourced>>

(* The value from the cache is handed to whoever asked.                    *)
Return(c) ==
  /\ At(c, "served") \/ At(c, "shared")
  /\ End(c)
  /\ UNCHANGED <<entry, erased, hot, redis, purge, eraser, drain, requests, outages, gens,
                 gone, sourced>>

(* A process dies, with the requests that wait for its task; or a request  *)
(* that leads nobody is cancelled.                                         *)
Crash(c) ==
  /\ ~At(c, "idle")
  /\ caller' = [x \in Callers |->
                  IF x = c \/ caller[x].leader = c THEN NoRequest ELSE caller[x]]
  /\ UNCHANGED <<entry, erased, hot, redis, purge, eraser, drain, requests, outages, gens,
                 gone, sourced>>

-----------------------------------------------------------------------------
(* Erasure of a source: delete_by_provenance, then the hot cache, then the *)
(* acknowledgement of the purge.                                           *)

(* The tombstone, the deletion and the purge request are one transaction.  *)
Erase(s) ==
  /\ eraser[s] = "none"
  /\ \A c \in Callers : ~LockedBy(c, {s})
  /\ erased' = erased \cup {s}
  /\ IF s \in entry.refs
       THEN /\ entry' = Deleted
            /\ purge' = TRUE
            /\ eraser' = [eraser EXCEPT ![s] = "hot"]
            /\ gone' = gone \cup ({entry.gen} \ {0})
       ELSE /\ eraser' = [eraser EXCEPT ![s] = "done"]
            /\ UNCHANGED <<entry, purge, gone, sourced>>
  /\ UNCHANGED <<hot, redis, drain, caller, requests, outages, gens, sourced>>

(* Redis must confirm, else the purge stays queued for drain_pending.      *)
EraseHot(s) ==
  /\ eraser[s] = "hot"
  /\ IF redis THEN hot' = NoHot /\ eraser' = [eraser EXCEPT ![s] = "ack"]
              ELSE eraser' = [eraser EXCEPT ![s] = "done"] /\ UNCHANGED hot
  /\ UNCHANGED <<entry, erased, redis, purge, drain, caller, requests, outages, gens,
                 gone, sourced>>

EraseAck(s) ==
  /\ eraser[s] = "ack"
  /\ purge' = FALSE
  /\ eraser' = [eraser EXCEPT ![s] = "done"]
  /\ UNCHANGED <<entry, erased, hot, redis, drain, caller, requests, outages, gens, gone,
                 sourced>>

(* The eraser dies after its transaction.                                  *)
EraserCrash(s) ==
  /\ eraser[s] \in {"hot", "ack"}
  /\ eraser' = [eraser EXCEPT ![s] = "done"]
  /\ UNCHANGED <<entry, erased, hot, redis, purge, drain, caller, requests, outages, gens,
                 gone, sourced>>

DrainHot ==
  /\ purge /\ redis /\ ~drain
  /\ hot' = NoHot
  /\ drain' = TRUE
  /\ UNCHANGED <<entry, erased, redis, purge, eraser, caller, requests, outages, gens,
                 gone, sourced>>

(* Mutant: the purge is left in the queue.                                 *)
DrainForgets ==
  /\ drain
  /\ drain' = FALSE
  /\ UNCHANGED <<entry, erased, hot, redis, purge, eraser, caller, requests, outages,
                 gens, gone, sourced>>

DrainAck ==
  /\ drain
  /\ purge' = FALSE
  /\ drain' = FALSE
  /\ UNCHANGED <<entry, erased, hot, redis, eraser, caller, requests, outages, gens, gone,
                 sourced>>

-----------------------------------------------------------------------------
(* Time, housekeeping and outages.                                         *)

(* Mutant: the countdown runs past zero.                                   *)
TickPastZero ==
  /\ entry.status = "pending"
  /\ entry' = [entry EXCEPT !.ttl = entry.ttl - 1]
  /\ UNCHANGED <<erased, hot, redis, purge, eraser, drain, caller, requests, outages,
                 gens, gone, sourced>>

Tick ==
  /\ entry.status = "pending" /\ entry.ttl > 0
  /\ entry' = [entry EXCEPT !.ttl = entry.ttl - 1]
  /\ UNCHANGED <<erased, hot, redis, purge, eraser, drain, caller, requests, outages,
                 gens, gone, sourced>>

Expire ==
  /\ entry.status = "ready"
  /\ entry' = [entry EXCEPT !.status = "expired"]
  /\ UNCHANGED <<erased, hot, redis, purge, eraser, drain, caller, requests, outages,
                 gens, gone, sourced>>

(* cleanup: rows whose time is up, and ready rows beyond the budget.       *)
Cleanup ==
  /\ entry.status # "none"
  /\ entry.status = "pending" => entry.ttl = 0
  /\ entry' = Deleted
  /\ UNCHANGED <<erased, hot, redis, purge, eraser, drain, caller, requests, outages,
                 gens, gone, sourced>>

HotExpire ==
  /\ hot.gen # 0
  /\ hot' = NoHot
  /\ UNCHANGED <<entry, erased, redis, purge, eraser, drain, caller, requests, outages,
                 gens, gone, sourced>>

RedisDown ==
  /\ redis /\ outages < MaxOutages
  /\ redis' = FALSE
  /\ outages' = outages + 1
  /\ UNCHANGED <<entry, erased, hot, purge, eraser, drain, caller, requests, gens, gone,
                 sourced>>

RedisUp ==
  /\ ~redis
  /\ redis' = TRUE
  /\ UNCHANGED <<entry, erased, hot, purge, eraser, drain, caller, requests, outages,
                 gens, gone, sourced>>

-----------------------------------------------------------------------------
Step(c) ==
  \/ HotGet(c) \/ Validate(c) \/ DropHot(c) \/ Read(c) \/ Fill(c) \/ Lead(c) \/ Join(c)
  \/ ClaimBlocked(c) \/ ClaimHit(c) \/ ClaimFollow(c) \/ ClaimInsert(c)
  \/ ClaimRead(c) \/ Reclaim(c)
  \/ Provide(c) \/ Bypass(c) \/ Publish(c) \/ SetHot(c) \/ Release(c) \/ Return(c)

Next ==
  \/ \E c \in Callers : Step(c) \/ Renew(c) \/ Crash(c)
  \/ \E c \in Callers, refs \in RefSets : Begin(c, refs)
  \/ \E s \in Sources : Erase(s) \/ EraseHot(s) \/ EraseAck(s) \/ EraserCrash(s)
  \/ DrainHot \/ DrainAck
  \/ Tick \/ Expire \/ Cleanup \/ HotExpire \/ RedisDown \/ RedisUp

Spec == Init /\ [][Next]_vars

(* Tasks are scheduled, provider calls end by their timeouts, the clock    *)
(* runs, the purge loop runs, and Redis comes back.                        *)
FairSpec ==
  /\ Spec
  /\ \A c \in Callers : WF_vars(Step(c))
  /\ WF_vars(Tick) /\ WF_vars(RedisUp)
  /\ WF_vars(DrainHot) /\ WF_vars(DrainAck)

-----------------------------------------------------------------------------
(* A payload in the durable cache can always be reached by the erasure of  *)
(* the source it was made from, and none of its sources has been erased:   *)
(* erasure, guard rows and leases leave no order of events in which the    *)
(* result of an erased source is published or stays published.             *)
DurableIsErasable ==
  /\ entry.status \in {"ready", "expired"} => entry.origin \subseteq entry.refs
  /\ entry.refs \cap erased = {}

(* A hot copy of a payload that was made from sources says so, whoever     *)
(* wrote it and however late: every request that finds it asks the durable *)
(* row before it uses it.  A takeover may write a flag that is out of date *)
(* (Reclaim), but never one that hides the sources of its own leader.      *)
HotCopiesAreChecked == hot.gen \in sourced => hot.prov

(* A published payload is never replaced by another leader's while it is   *)
(* valid.                                                                  *)
ReadyIsImmutable ==
  [][entry.status = "ready" /\ entry'.status = "ready" => entry'.gen = entry.gen]_entry

(* No request waits for ever, whatever leaders die or are fenced off.      *)
RequestsEnd == \A c \in Callers : At(c, "lookup") ~> At(c, "idle")

(* Every purge is carried out once Redis is back.                          *)
PurgesEnd == purge ~> ~purge

(* A payload given to a request is registered under the request's sources, *)
(* so that their erasure will find it.                                     *)
ReuseIsReferenced ==
  \A c \in Callers :
    (At(c, "served") \/ At(c, "shared")) /\ caller[c].gen # 0 /\ entry.gen = caller[c].gen
      => Refs(c) \subseteq entry.refs

(* A request that begins after a payload was erased is not given that      *)
(* payload from the cache.                                                 *)
ErasedIsUnreachable ==
  \A c \in Callers : At(c, "served") => caller[c].gen \notin caller[c].before
=============================================================================
