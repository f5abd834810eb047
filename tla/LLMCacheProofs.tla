---------------------------- MODULE LLMCacheProofs ----------------------------
(***************************************************************************)
(* Theorems about LLMCache for any callers, sources, provenance, lease     *)
(* length and number of requests and outages.                              *)
(***************************************************************************)
EXTENDS LLMCache, TLAPS

-----------------------------------------------------------------------------
(* What the helpers return.                                                *)

(* Attaching a request's references leaves a well-formed row.              *)
LEMMA AttachedType ==
  ASSUME NEW row \in Rows, NEW refs \in SUBSET Sources
  PROVE  Attached(row, refs) \in Rows
<1>1. row.refs \cup refs \in SUBSET Sources /\ (row.prov \/ refs # {}) \in BOOLEAN
  BY DEF Rows
<1>2. QED
  BY <1>1 DEF Attached, Rows

(* Attaching changes references and flag only.                             *)
LEMMA AttachedFields ==
  ASSUME NEW row \in Rows, NEW refs \in SUBSET Sources
  PROVE  /\ Attached(row, refs).refs = row.refs \cup refs
         /\ Attached(row, refs).prov = (row.prov \/ refs # {})
         /\ Attached(row, refs).status = row.status
         /\ Attached(row, refs).token = row.token
         /\ Attached(row, refs).origin = row.origin
BY DEF Attached, Rows

(* The payload stays, and a flag is never taken away.                      *)
LEMMA AttachedKeeps ==
  ASSUME NEW row \in Rows, NEW refs
  PROVE  /\ Attached(row, refs).gen = row.gen
         /\ row.prov => Attached(row, refs).prov
BY DEF Attached, Rows

(* A missing row and an idle caller are well formed.                       *)
LEMMA NothingType ==
  NoRow \in Rows /\ NoHot \in HotValues /\ NoRequest \in Requests
BY CacheConstants
   DEF NoRow, NoHot, NoRequest, Rows, HotValues, Requests, RowStatuses, Phases, Gens

(* So is the row after a deletion: the missing row, but for its id.        *)
LEMMA DeletedType ==
  ASSUME entry \in Rows
  PROVE  /\ Deleted \in Rows /\ Deleted.status = "none" /\ Deleted.token = NoCaller
         /\ Deleted.refs = {} /\ Deleted.origin = {} /\ Deleted.gen = 0
<1>1. NoRow \in Rows /\ entry.id \in Nat
  BY NothingType DEF Rows
<1>2. QED
  BY <1>1 DEF Deleted, NoRow, Rows

(* A caller that moves on keeps a well-formed request.                     *)
LEMMA GotoType ==
  ASSUME TypeOK, NEW c \in Callers, NEW phase \in Phases, Goto(c, phase)
  PROVE  caller' \in [Callers -> Requests]
BY DEF TypeOK, Goto, Requests

(* So does one that takes a payload.                                       *)
LEMMA TakeType ==
  ASSUME TypeOK, NEW c \in Callers, NEW phase \in Phases, NEW gen \in Gens,
         NEW prov \in BOOLEAN, Take(c, phase, gen, prov)
  PROVE  caller' \in [Callers -> Requests]
<1>1. caller[c] \in Requests
  BY DEF TypeOK
<1>2. [[[caller[c] EXCEPT !.phase = phase] EXCEPT !.gen = gen] EXCEPT !.prov = prov]
        \in Requests
  BY <1>1 DEF Requests
<1>3. QED
  BY <1>2 DEF Take, TypeOK

(* And one that forgets the row it has read.                               *)
LEMMA LetGoType ==
  ASSUME TypeOK, NEW c \in Callers, NEW phase \in Phases, LetGo(c, phase)
  PROVE  caller' \in [Callers -> Requests]
<1>1. caller[c] \in Requests
  BY DEF TypeOK
<1>2. [[[caller[c] EXCEPT !.phase = phase] EXCEPT !.row = 0] EXCEPT !.prov = FALSE]
        \in Requests
  BY <1>1 DEF Requests
<1>3. QED
  BY <1>2 DEF LetGo, TypeOK

(* And so do those who are given the result of the task they joined.       *)
LEMMA EndType ==
  ASSUME TypeOK, NEW c \in Callers, End(c)
  PROVE  caller' \in [Callers -> Requests]
<1>1. ASSUME NEW x \in Callers
      PROVE  [caller[x] EXCEPT !.phase = "shared", !.leader = NoCaller,
                               !.gen = caller[c].gen] \in Requests
  <2>1. caller[x] \in Requests /\ caller[c].gen \in Gens /\ "shared" \in Phases
    BY DEF TypeOK, Requests, Phases
  <2>2. QED
    BY <2>1 DEF Requests
<1>2. QED
  BY <1>1, NothingType DEF End, TypeOK

(* A hot-cache write leaves a well-formed value.                           *)
LEMMA HotSetType ==
  ASSUME TypeOK, NEW gen \in Gens, NEW prov \in BOOLEAN, HotSet(gen, prov)
  PROVE  hot' \in HotValues
BY DEF TypeOK, HotSet, HotValues

-----------------------------------------------------------------------------
(* Type correctness.                                                       *)

(* An empty cache.                                                         *)
LEMMA TypeInit == Init => TypeOK
<1> SUFFICES ASSUME Init PROVE TypeOK
  OBVIOUS
<1>1. 0 \in 0..MaxRequests /\ 0 \in 0..MaxOutages
  BY CacheConstants
<1>2. entry \in Rows /\ hot \in HotValues /\ caller \in [Callers -> Requests]
  BY NothingType DEF Init
<1>3. eraser \in [Sources -> {"none", "hot", "ack", "done"}]
  BY DEF Init
<1>4. QED
  BY <1>1, <1>2, <1>3 DEF Init, TypeOK, Gens

(* Every transaction, hot-cache call, erasure step and outage keeps the    *)
(* row, the hot value and the requests well formed.                        *)
LEMMA TypeStep == TypeOK /\ [Next]_vars => TypeOK'
<1> SUFFICES ASSUME TypeOK, [Next]_vars PROVE TypeOK'
  OBVIOUS
<1> USE CacheConstants
<1>0. /\ entry \in Rows /\ caller \in [Callers -> Requests]
      /\ \A c \in Callers : /\ Refs(c) \in SUBSET Sources /\ caller[c].gen \in Gens
                            /\ caller[c].prov \in BOOLEAN
      /\ entry.gen \in Gens /\ entry.prov \in BOOLEAN /\ hot.gen \in Gens
      /\ hot.prov \in BOOLEAN
  BY DEF TypeOK, Rows, Requests, HotValues, Refs
<1>1. CASE UNCHANGED vars
  BY <1>1 DEF vars, TypeOK
<1>2. ASSUME NEW c \in Callers, NEW refs \in RefSets, Begin(c, refs) PROVE TypeOK'
  <2>1. [NoRequest EXCEPT !.phase = "lookup", !.refs = refs, !.before = gone] \in Requests
    <3>1. refs \in SUBSET Sources /\ gone \in SUBSET Gens /\ "lookup" \in Phases
      BY DEF TypeOK, Phases
    <3>2. QED
      BY <3>1, NothingType DEF Requests
  <2>2. caller' \in [Callers -> Requests]
    BY <1>2, <2>1 DEF Begin, TypeOK
  <2>3. requests' \in 0..MaxRequests
    BY <1>2 DEF Begin, TypeOK
  <2>4. QED
    BY <1>2, <2>2, <2>3 DEF Begin, TypeOK
<1>3. ASSUME NEW c \in Callers, HotGet(c) PROVE TypeOK'
  <2>1. caller' \in [Callers -> Requests]
    <3>1. CASE redis /\ hot.gen # 0
      BY <1>0, <1>3, <3>1, TakeType DEF HotGet, Phases
    <3>2. CASE ~(redis /\ hot.gen # 0)
      BY <1>3, <3>2, GotoType DEF HotGet, Phases
    <3>3. QED
      BY <3>1, <3>2
  <2>2. QED
    BY <1>3, <2>1 DEF HotGet, TypeOK
<1>4. ASSUME NEW c \in Callers, Validate(c) PROVE TypeOK'
  <2>1. entry' \in Rows /\ caller' \in [Callers -> Requests]
    <3>1. CASE Guarded(c) /\ entry.status = "ready"
      BY <1>0, <1>4, <3>1, TakeType, AttachedType DEF Validate, Phases
    <3>2. CASE ~(Guarded(c) /\ entry.status = "ready")
      BY <1>0, <1>4, <3>2, TakeType DEF Validate, Phases, Gens
    <3>3. QED
      BY <3>1, <3>2
  <2>2. QED
    BY <1>4, <2>1 DEF Validate, TypeOK
<1>5. ASSUME NEW c \in Callers, DropHot(c) PROVE TypeOK'
  <2>1. caller' \in [Callers -> Requests]
    BY <1>5, GotoType DEF DropHot, Phases
  <2>2. hot' \in HotValues
    BY <1>5, NothingType DEF DropHot, TypeOK
  <2>3. QED
    BY <1>5, <2>1, <2>2 DEF DropHot, TypeOK
<1>6. ASSUME NEW c \in Callers, Read(c) PROVE TypeOK'
  <2>1. entry' \in Rows /\ caller' \in [Callers -> Requests]
    <3>1. CASE Guarded(c) /\ entry.status = "ready"
      <4>1. Attached(entry, Refs(c)) \in Rows
        BY <1>0, AttachedType
      <4>2. Attached(entry, Refs(c)).prov \in BOOLEAN
        BY <4>1 DEF Rows
      <4>3. "fill" \in Phases
        BY DEF Phases
      <4>4. QED
        BY <1>0, <1>6, <3>1, <4>1, <4>2, <4>3, TakeType DEF Read
    <3>2. CASE ~(Guarded(c) /\ entry.status = "ready")
      BY <1>0, <1>6, <3>2, GotoType DEF Read, Phases
    <3>3. QED
      BY <3>1, <3>2
  <2>2. QED
    BY <1>6, <2>1 DEF Read, TypeOK
<1>7. ASSUME NEW c \in Callers, Fill(c) PROVE TypeOK'
  <2>1. caller' \in [Callers -> Requests]
    BY <1>0, <1>7, TakeType DEF Fill, Phases
  <2>2. hot' \in HotValues
    BY <1>0, <1>7, HotSetType DEF Fill
  <2>3. QED
    BY <1>7, <2>1, <2>2 DEF Fill, TypeOK
<1>8. ASSUME NEW c \in Callers, Lead(c) PROVE TypeOK'
  <2>1. [[caller[c] EXCEPT !.phase = "lookup"] EXCEPT !.lead = TRUE] \in Requests
    <3>1. caller[c] \in Requests /\ "lookup" \in Phases
      BY <1>0 DEF Phases
    <3>2. QED
      BY <3>1 DEF Requests
  <2>2. caller' \in [Callers -> Requests]
    BY <1>0, <1>8, <2>1 DEF Lead
  <2>3. QED
    BY <1>8, <2>2 DEF Lead, TypeOK
<1>9. ASSUME NEW c \in Callers, Join(c) PROVE TypeOK'
  <2>1. caller' \in [Callers -> Requests]
    <3>1. PICK d \in Callers :
            caller' = [caller EXCEPT ![c].phase = "join", ![c].leader = d]
      BY <1>9 DEF Join
    <3>2. caller[c] \in Requests /\ "join" \in Phases
      BY <1>0 DEF Phases
    <3>3. [[caller[c] EXCEPT !.phase = "join"] EXCEPT !.leader = d] \in Requests
      BY <3>2 DEF Requests
    <3>4. QED
      BY <1>0, <3>1, <3>3
  <2>2. QED
    BY <1>9, <2>1 DEF Join, TypeOK
<1>10. ASSUME NEW c \in Callers, ClaimBlocked(c) PROVE TypeOK'
  <2>1. caller' \in [Callers -> Requests]
    BY <1>10, GotoType DEF ClaimBlocked, Phases
  <2>2. QED
    BY <1>10, <2>1 DEF ClaimBlocked, TypeOK
<1>11. ASSUME NEW c \in Callers, ClaimHit(c) PROVE TypeOK'
  <2>1. Attached(entry, Refs(c)) \in Rows
    BY <1>0, AttachedType
  <2>2. Attached(entry, Refs(c)).prov \in BOOLEAN /\ "fill" \in Phases
    BY <2>1 DEF Rows, Phases
  <2>3. caller' \in [Callers -> Requests]
    BY <1>0, <1>11, <2>2, TakeType DEF ClaimHit
  <2>4. QED
    BY <1>11, <2>1, <2>3 DEF ClaimHit, TypeOK
<1>12. ASSUME NEW c \in Callers, ClaimFollow(c) PROVE TypeOK'
  <2>1. entry' \in Rows
    BY <1>0, <1>12, AttachedType DEF ClaimFollow
  <2>2. QED
    BY <1>12, <2>1 DEF ClaimFollow, TypeOK
<1>13. ASSUME NEW c \in Callers, ClaimInsert(c) PROVE TypeOK'
  <2>1. entry' \in Rows
    <3>1. /\ LeaseTTL \in 0..LeaseTTL /\ "pending" \in RowStatuses /\ entry.id + 1 \in Nat
          /\ (Refs(c) # {}) \in BOOLEAN
      BY <1>0 DEF RowStatuses, Rows
    <3>2. QED
      BY <1>0, <1>13, <3>1, NothingType DEF ClaimInsert, Rows
  <2>2. caller' \in [Callers -> Requests]
    BY <1>13, GotoType DEF ClaimInsert, Phases
  <2>3. QED
    BY <1>13, <2>1, <2>2 DEF ClaimInsert, TypeOK
<1>35. ASSUME NEW c \in Callers, ClaimRead(c) PROVE TypeOK'
  <2>1. [[[caller[c] EXCEPT !.phase = "reclaim"] EXCEPT !.row = entry.id]
           EXCEPT !.prov = entry.prov] \in Requests
    <3>1. entry.id \in Nat /\ "reclaim" \in Phases /\ caller[c] \in Requests
      BY <1>0 DEF Rows, Phases
    <3>2. QED
      BY <1>0, <3>1 DEF Requests
  <2>2. caller' \in [Callers -> Requests]
    BY <1>0, <1>35, <2>1 DEF ClaimRead
  <2>3. QED
    BY <1>35, <2>2 DEF ClaimRead, TypeOK
<1>36. ASSUME NEW c \in Callers, Reclaim(c) PROVE TypeOK'
  <2>1. caller' \in [Callers -> Requests]
    BY <1>36, LetGoType DEF Reclaim, Phases
  <2>2. entry' \in Rows
    <3>1. /\ LeaseTTL \in 0..LeaseTTL /\ 0 \in Gens /\ "pending" \in RowStatuses
          /\ (caller[c].prov \/ Refs(c) # {}) \in BOOLEAN
          /\ entry.refs \cup Refs(c) \in SUBSET Sources
      BY <1>0 DEF Gens, RowStatuses, Rows
    <3>2. CASE UNCHANGED entry
      BY <1>0, <3>2
    <3>3. CASE entry' = [entry EXCEPT !.status = "pending", !.token = c, !.ttl = LeaseTTL,
                                      !.refs = entry.refs \cup Refs(c), !.gen = 0,
                                      !.origin = {},
                                      !.prov = caller[c].prov \/ Refs(c) # {}]
      BY <1>0, <3>1, <3>3 DEF Rows
    <3>4. QED
      BY <1>36, <3>2, <3>3 DEF Reclaim
  <2>3. QED
    BY <1>36, <2>1, <2>2 DEF Reclaim, TypeOK
<1>14. ASSUME NEW c \in Callers, Provide(c) PROVE TypeOK'
  <2>1. caller' \in [Callers -> Requests]
    BY <1>14, GotoType DEF Provide, Phases
  <2>2. QED
    BY <1>14, <2>1 DEF Provide, TypeOK
<1>15. ASSUME NEW c \in Callers, Bypass(c) PROVE TypeOK'
  <2>1. caller' \in [Callers -> Requests]
    BY <1>15, EndType DEF Bypass
  <2>2. QED
    BY <1>15, <2>1 DEF Bypass, TypeOK
<1>16. ASSUME NEW c \in Callers, Publish(c) PROVE TypeOK'
  <2>1. /\ entry' \in Rows /\ caller' \in [Callers -> Requests] /\ gens' \in Gens
        /\ sourced' \in SUBSET Gens
    <3>1. CASE Owns(c) /\ entry.ttl > 0
      <4>1. gens + 1 \in Gens
        BY DEF TypeOK, Gens
      <4>2. entry' \in Rows
        <5>1. /\ entry' = [entry EXCEPT !.status = "ready", !.token = NoCaller, !.ttl = 0,
                                        !.gen = gens + 1, !.origin = Refs(c)]
          BY <1>16, <3>1 DEF Publish
        <5>2. 0 \in 0..LeaseTTL /\ "ready" \in RowStatuses
          BY DEF RowStatuses
        <5>3. QED
          BY <1>0, <4>1, <5>1, <5>2 DEF Rows
      <4>3. caller' \in [Callers -> Requests]
        <5>1. (Refs(c) # {}) \in BOOLEAN /\ "sethot" \in Phases
          BY DEF Phases
        <5>2. QED
          BY <1>16, <3>1, <4>1, <5>1, TakeType DEF Publish
      <4>4. QED
        BY <1>16, <3>1, <4>1, <4>2, <4>3 DEF Publish, TypeOK
    <3>2. CASE ~(Owns(c) /\ entry.ttl > 0)
      BY <1>0, <1>16, <3>2, EndType DEF Publish, TypeOK
    <3>3. QED
      BY <3>1, <3>2
  <2>2. QED
    BY <1>16, <2>1 DEF Publish, TypeOK
<1>17. ASSUME NEW c \in Callers, SetHot(c) PROVE TypeOK'
  <2>1. caller' \in [Callers -> Requests]
    BY <1>17, EndType DEF SetHot
  <2>2. hot' \in HotValues
    BY <1>0, <1>17, HotSetType DEF SetHot
  <2>3. QED
    BY <1>17, <2>1, <2>2 DEF SetHot, TypeOK
<1>18. ASSUME NEW c \in Callers, Release(c) PROVE TypeOK'
  <2>1. caller' \in [Callers -> Requests]
    BY <1>18, EndType DEF Release
  <2>2. entry' \in Rows
    BY <1>0, <1>18, DeletedType DEF Release
  <2>3. QED
    BY <1>18, <2>1, <2>2 DEF Release, TypeOK
<1>19. ASSUME NEW c \in Callers, Return(c) PROVE TypeOK'
  <2>1. caller' \in [Callers -> Requests]
    BY <1>19, EndType DEF Return
  <2>2. QED
    BY <1>19, <2>1 DEF Return, TypeOK
<1>20. ASSUME NEW c \in Callers, Renew(c) PROVE TypeOK'
  <2>1. entry' \in Rows
    BY <1>0, <1>20 DEF Renew, Rows
  <2>2. QED
    BY <1>20, <2>1 DEF Renew, TypeOK
<1>21. ASSUME NEW c \in Callers, Crash(c) PROVE TypeOK'
  <2>1. caller' \in [Callers -> Requests]
    BY <1>0, <1>21, NothingType DEF Crash
  <2>2. QED
    BY <1>21, <2>1 DEF Crash, TypeOK
<1>22. ASSUME NEW s \in Sources, Erase(s) PROVE TypeOK'
  <2>1. /\ erased' \in SUBSET Sources
        /\ eraser' \in [Sources -> {"none", "hot", "ack", "done"}]
    BY <1>22 DEF Erase, TypeOK
  <2>2. entry' \in Rows /\ purge' \in BOOLEAN /\ gone' \in SUBSET Gens
    <3>1. {entry.gen} \ {0} \in SUBSET Gens /\ gone \in SUBSET Gens /\ purge \in BOOLEAN
      BY <1>0 DEF TypeOK
    <3>2. entry' \in {entry, Deleted} /\ gone' \in {gone, gone \cup ({entry.gen} \ {0})}
          /\ purge' \in {purge, TRUE}
      BY <1>22 DEF Erase
    <3>3. QED
      BY <1>0, <3>1, <3>2, DeletedType
  <2>3. QED
    BY <1>22, <2>1, <2>2 DEF Erase, TypeOK
<1>23. ASSUME NEW s \in Sources, EraseHot(s) PROVE TypeOK'
  BY <1>23, NothingType DEF EraseHot, TypeOK
<1>24. ASSUME NEW s \in Sources, EraseAck(s) PROVE TypeOK'
  BY <1>24 DEF EraseAck, TypeOK
<1>25. ASSUME NEW s \in Sources, EraserCrash(s) PROVE TypeOK'
  BY <1>25 DEF EraserCrash, TypeOK
<1>26. CASE DrainHot
  BY <1>26, NothingType DEF DrainHot, TypeOK
<1>27. CASE DrainAck
  BY <1>27 DEF DrainAck, TypeOK
<1>28. CASE Tick
  <2>1. entry' \in Rows
    BY <1>0, <1>28 DEF Tick, Rows
  <2>2. QED
    BY <1>28, <2>1 DEF Tick, TypeOK
<1>29. CASE Expire
  <2>1. entry' \in Rows
    BY <1>0, <1>29 DEF Expire, Rows, RowStatuses
  <2>2. QED
    BY <1>29, <2>1 DEF Expire, TypeOK
<1>30. CASE Cleanup
  BY <1>0, <1>30, DeletedType DEF Cleanup, TypeOK
<1>31. CASE HotExpire
  BY <1>31, NothingType DEF HotExpire, TypeOK
<1>32. CASE RedisDown
  <2>1. outages' \in 0..MaxOutages
    BY <1>32 DEF RedisDown, TypeOK
  <2>2. QED
    BY <1>32, <2>1 DEF RedisDown, TypeOK
<1>33. CASE RedisUp
  BY <1>33 DEF RedisUp, TypeOK
<1>34. QED
  BY <1>1, <1>2, <1>3, <1>4, <1>5, <1>6, <1>7, <1>8, <1>9, <1>10, <1>11, <1>12, <1>13,
     <1>14, <1>15, <1>16, <1>17, <1>18, <1>19, <1>20, <1>21, <1>22, <1>23, <1>24, <1>25,
     <1>26, <1>27, <1>28, <1>29, <1>30, <1>31, <1>32, <1>33, <1>35, <1>36 DEF Next, Step

(* The row, the hot value and the requests are always well formed.         *)
THEOREM CacheTypeCorrect == Spec => []TypeOK
<1>1. Init => TypeOK
  BY TypeInit
<1>2. TypeOK /\ [Next]_vars => TypeOK'
  BY TypeStep
<1>3. QED
  BY <1>1, <1>2, PTL DEF Spec

-----------------------------------------------------------------------------
(* Erasure reaches every durable payload.                                  *)
(*                                                                         *)
(* DurableIsErasable is not inductive: it says nothing of the leader that  *)
(* is about to publish.  What makes its publication safe is that the claim *)
(* attached its references and that nothing but the deletion of the row,   *)
(* which ends the lease, takes references away.  A takeover has two steps: *)
(* the guard rows it has locked keep its sources from being erased between *)
(* them.  The flag is no part of this: a takeover may write an old one.    *)

LeaderIsReferenced ==
  \A c \in Callers :
    caller[c].phase \in {"call", "publish", "release"} /\ Owns(c)
      => Refs(c) \subseteq entry.refs /\ (Refs(c) # {} => entry.prov)

TakeoverIsGuarded ==
  \A c \in Callers : caller[c].phase = "reclaim" => Refs(c) \cap erased = {}

ErasureInv == DurableIsErasable /\ LeaderIsReferenced /\ TakeoverIsGuarded

(* A transaction that attaches the references of a request which is not of *)
(* an erased source, and no more, keeps the invariant.                     *)
LEMMA AttachStep ==
  ASSUME TypeOK, ErasureInv, NEW c \in Callers, Guarded(c),
         entry' = Attached(entry, Refs(c)), UNCHANGED erased,
         \A x \in Callers : /\ Refs(x)' = Refs(x)
                            /\ caller'[x].phase \in {"call", "publish", "release", "reclaim"}
                                 => caller[x].phase = caller'[x].phase
  PROVE  ErasureInv'
<1>1. entry \in Rows /\ Refs(c) \in SUBSET Sources
  BY DEF TypeOK, Requests, Refs
<1>2. /\ entry'.refs = entry.refs \cup Refs(c)
      /\ entry'.prov = (entry.prov \/ Refs(c) # {})
      /\ entry'.status = entry.status /\ entry'.token = entry.token
      /\ entry'.origin = entry.origin
  BY <1>1, AttachedFields
<1>3. DurableIsErasable'
  BY <1>2 DEF ErasureInv, DurableIsErasable, Guarded
<1>4. LeaderIsReferenced'
  BY <1>2 DEF ErasureInv, LeaderIsReferenced, Owns
<1>5. TakeoverIsGuarded'
  BY DEF ErasureInv, TakeoverIsGuarded
<1>6. QED
  BY <1>3, <1>4, <1>5 DEF ErasureInv

(* A step that leaves the row's references, status and lease alone, or     *)
(* deletes the row, and that makes nobody a leader, keeps it too.          *)
LEMMA KeepStep ==
  ASSUME TypeOK, ErasureInv, UNCHANGED erased,
         \/ entry' = Deleted
         \/ /\ entry'.refs = entry.refs /\ entry'.prov = entry.prov
            /\ entry'.token = entry.token /\ entry'.origin = entry.origin
            /\ \/ entry'.status = entry.status
               \/ entry.status = "ready" /\ entry'.status = "expired",
         \A x \in Callers :
           /\ caller'[x].phase \in {"call", "publish", "release"}
                => /\ caller[x].phase \in {"call", "publish", "release"}
                   /\ Refs(x)' = Refs(x)
           /\ caller'[x].phase = "reclaim"
                => caller[x].phase = "reclaim" /\ Refs(x)' = Refs(x)
  PROVE  ErasureInv'
<1>1. TakeoverIsGuarded'
  BY DEF ErasureInv, TakeoverIsGuarded
<1>2. CASE entry' = Deleted
  <2>1. entry'.status = "none" /\ entry'.refs = {} /\ entry'.token = NoCaller
    BY <1>2, DeletedType DEF TypeOK
  <2>2. QED
    BY <1>1, <2>1 DEF ErasureInv, DurableIsErasable, LeaderIsReferenced, Owns
<1>3. CASE entry' # Deleted
  BY <1>1, <1>3 DEF ErasureInv, DurableIsErasable, LeaderIsReferenced, Owns, Refs
<1>4. QED
  BY <1>2, <1>3

(* A caller that moves on keeps its references, and only it changes phase. *)
LEMMA GotoKeeps ==
  ASSUME TypeOK, NEW c \in Callers, NEW phase \in Phases, Goto(c, phase)
  PROVE  \A x \in Callers :
           /\ Refs(x)' = Refs(x)
           /\ caller'[x].phase = IF x = c THEN phase ELSE caller[x].phase
BY DEF TypeOK, Goto, Refs, Requests

(* The same of one that takes a payload.                                   *)
LEMMA TakeKeeps ==
  ASSUME TypeOK, NEW c \in Callers, NEW phase \in Phases, NEW gen, NEW prov,
         Take(c, phase, gen, prov)
  PROVE  \A x \in Callers :
           /\ Refs(x)' = Refs(x)
           /\ caller'[x].phase = IF x = c THEN phase ELSE caller[x].phase
<1> SUFFICES ASSUME NEW x \in Callers
             PROVE  /\ Refs(x)' = Refs(x)
                    /\ caller'[x].phase = IF x = c THEN phase ELSE caller[x].phase
  OBVIOUS
<1>1. caller[x] \in Requests
  BY DEF TypeOK
<1>2. CASE x # c
  BY <1>2 DEF Take, Refs, TypeOK
<1>3. CASE x = c
  BY <1>1, <1>3 DEF Take, Refs, TypeOK, Requests
<1>4. QED
  BY <1>2, <1>3

(* When a task ends, those who still lead are those who did.               *)
LEMMA EndKeeps ==
  ASSUME TypeOK, NEW c \in Callers, End(c)
  PROVE  \A x \in Callers :
           caller'[x].phase \in {"call", "publish", "release", "reclaim"}
             => caller'[x] = caller[x]
<1> SUFFICES ASSUME NEW x \in Callers,
                    caller'[x].phase \in {"call", "publish", "release", "reclaim"}
             PROVE  caller'[x] = caller[x]
  OBVIOUS
<1>1. x # c
  BY DEF End, NoRequest
<1>2. caller[x].leader # c
  BY <1>1 DEF End, TypeOK, Requests
<1>3. QED
  BY <1>1, <1>2 DEF End

(* One that forgets the row it has read.                                   *)
LEMMA LetGoKeeps ==
  ASSUME TypeOK, NEW c \in Callers, NEW phase \in Phases, LetGo(c, phase)
  PROVE  \A x \in Callers :
           /\ Refs(x)' = Refs(x)
           /\ caller'[x].phase = IF x = c THEN phase ELSE caller[x].phase
<1> SUFFICES ASSUME NEW x \in Callers
             PROVE  /\ Refs(x)' = Refs(x)
                    /\ caller'[x].phase = IF x = c THEN phase ELSE caller[x].phase
  OBVIOUS
<1>1. caller[x] \in Requests
  BY DEF TypeOK
<1>2. CASE x # c
  BY <1>2 DEF LetGo, Refs, TypeOK
<1>3. CASE x = c
  BY <1>1, <1>3 DEF LetGo, Refs, TypeOK, Requests
<1>4. QED
  BY <1>2, <1>3

(* No operation of the store, the gateway, the eraser or the clock breaks  *)
(* the invariant.                                                          *)
LEMMA ErasureStep == TypeOK /\ ErasureInv /\ [Next]_vars => ErasureInv'
<1> SUFFICES ASSUME TypeOK, ErasureInv, [Next]_vars PROVE ErasureInv'
  OBVIOUS
<1> USE CacheConstants
<1>0. entry \in Rows /\ \A c \in Callers : caller[c] \in Requests
  BY DEF TypeOK
<1>1. CASE UNCHANGED vars
  BY <1>1, KeepStep DEF vars, Refs
<1>2. ASSUME NEW c \in Callers, NEW refs \in RefSets, Begin(c, refs) PROVE ErasureInv'
  <2>1. \A x \in Callers : caller'[x].phase \in {"call", "publish", "release", "reclaim"}
                            => caller'[x] = caller[x]
    BY <1>2 DEF Begin, NoRequest
  <2>2. QED
    BY <1>2, <2>1, KeepStep DEF Begin, Refs
<1>3. ASSUME NEW c \in Callers, HotGet(c) PROVE ErasureInv'
  <2>1. CASE redis /\ hot.gen # 0
    BY <1>3, <2>1, TakeKeeps, KeepStep DEF HotGet, At, Phases
  <2>2. CASE ~(redis /\ hot.gen # 0)
    BY <1>3, <2>2, GotoKeeps, KeepStep DEF HotGet, At, Phases
  <2>3. QED
    BY <2>1, <2>2
<1>4. ASSUME NEW c \in Callers, Validate(c) PROVE ErasureInv'
  <2>1. CASE Guarded(c) /\ entry.status = "ready"
    <3>1. /\ Take(c, "served", caller[c].gen, FALSE) /\ "served" \in Phases
          /\ entry' = Attached(entry, Refs(c)) /\ UNCHANGED erased
      BY <1>4, <2>1 DEF Validate, Phases
    <3>2. \A x \in Callers :
            /\ Refs(x)' = Refs(x)
            /\ caller'[x].phase = IF x = c THEN "served" ELSE caller[x].phase
      BY <3>1, TakeKeeps
    <3>3. QED
      BY <2>1, <3>1, <3>2, AttachStep
  <2>2. CASE ~(Guarded(c) /\ entry.status = "ready")
    <3>1. Take(c, "drop", 0, FALSE) /\ "drop" \in Phases /\ UNCHANGED <<entry, erased>>
      BY <1>4, <2>2 DEF Validate, Phases
    <3>2. \A x \in Callers :
            /\ Refs(x)' = Refs(x)
            /\ caller'[x].phase = IF x = c THEN "drop" ELSE caller[x].phase
      BY <3>1, TakeKeeps
    <3>3. QED
      BY <3>1, <3>2, KeepStep
  <2>3. QED
    BY <2>1, <2>2
<1>5. ASSUME NEW c \in Callers, DropHot(c) PROVE ErasureInv'
  BY <1>5, GotoKeeps, KeepStep DEF DropHot, Phases
<1>6. ASSUME NEW c \in Callers, Read(c) PROVE ErasureInv'
  <2>1. CASE Guarded(c) /\ entry.status = "ready"
    BY <1>6, <2>1, TakeKeeps, AttachStep DEF Read, Phases
  <2>2. CASE ~(Guarded(c) /\ entry.status = "ready")
    BY <1>6, <2>2, GotoKeeps, KeepStep DEF Read, Phases
  <2>3. QED
    BY <2>1, <2>2
<1>7. ASSUME NEW c \in Callers, Fill(c) PROVE ErasureInv'
  <2>1. /\ Take(c, "served", caller[c].gen, FALSE) /\ "served" \in Phases
        /\ UNCHANGED <<entry, erased>>
    BY <1>7 DEF Fill, Phases
  <2>2. \A x \in Callers :
          /\ Refs(x)' = Refs(x)
          /\ caller'[x].phase = IF x = c THEN "served" ELSE caller[x].phase
    BY <2>1, TakeKeeps
  <2>3. QED
    BY <2>1, <2>2, KeepStep
<1>8. ASSUME NEW c \in Callers, Lead(c) PROVE ErasureInv'
  <2>1. \A x \in Callers : caller'[x].phase \in {"call", "publish", "release", "reclaim"}
                            => caller'[x] = caller[x]
    BY <1>0, <1>8 DEF Lead, TypeOK, Requests
  <2>2. QED
    BY <1>8, <2>1, KeepStep DEF Lead, Refs
<1>9. ASSUME NEW c \in Callers, Join(c) PROVE ErasureInv'
  <2>1. \A x \in Callers : caller'[x].phase \in {"call", "publish", "release", "reclaim"}
                            => caller'[x] = caller[x]
    BY <1>0, <1>9 DEF Join, TypeOK, Requests
  <2>2. QED
    BY <1>9, <2>1, KeepStep DEF Join, Refs
<1>10. ASSUME NEW c \in Callers, ClaimBlocked(c) PROVE ErasureInv'
  BY <1>10, GotoKeeps, KeepStep DEF ClaimBlocked, Phases
<1>11. ASSUME NEW c \in Callers, ClaimHit(c) PROVE ErasureInv'
  BY <1>11, TakeKeeps, AttachStep DEF ClaimHit, Phases
<1>12. ASSUME NEW c \in Callers, ClaimFollow(c) PROVE ErasureInv'
  BY <1>12, AttachStep DEF ClaimFollow, Refs
<1>13. ASSUME NEW c \in Callers, ClaimInsert(c) PROVE ErasureInv'
  <2>1. /\ entry'.refs = Refs(c) /\ entry'.prov = (Refs(c) # {})
        /\ entry'.status = "pending" /\ entry'.token = c
    BY <1>0, <1>13 DEF ClaimInsert, Rows
  <2>2. \A x \in Callers : /\ Refs(x)' = Refs(x)
                            /\ caller'[x].phase = IF x = c THEN "call" ELSE caller[x].phase
    BY <1>13, GotoKeeps DEF ClaimInsert, Phases
  <2>3. DurableIsErasable'
    BY <1>13, <2>1 DEF DurableIsErasable, Guarded, ClaimInsert
  <2>4. LeaderIsReferenced'
    BY <2>1, <2>2 DEF LeaderIsReferenced, Owns
  <2>5. TakeoverIsGuarded'
    BY <1>13, <2>2 DEF ErasureInv, TakeoverIsGuarded, ClaimInsert
  <2>6. QED
    BY <2>3, <2>4, <2>5 DEF ErasureInv
<1>29. ASSUME NEW c \in Callers, ClaimRead(c) PROVE ErasureInv'
  <2>1. \A x \in Callers :
          /\ Refs(x)' = Refs(x)
          /\ caller'[x].phase = IF x = c THEN "reclaim" ELSE caller[x].phase
    <3>1. caller' = [caller EXCEPT ![c].phase = "reclaim", ![c].row = entry.id,
                                   ![c].prov = entry.prov]
      BY <1>29 DEF ClaimRead
    <3>2. ASSUME NEW x \in Callers
          PROVE  /\ Refs(x)' = Refs(x)
                 /\ caller'[x].phase = IF x = c THEN "reclaim" ELSE caller[x].phase
      <4>1. CASE x # c
        BY <3>1, <4>1 DEF Refs, TypeOK
      <4>2. CASE x = c
        BY <1>0, <3>1, <4>2 DEF Refs, TypeOK, Requests
      <4>3. QED
        BY <4>1, <4>2
    <3>3. QED
      BY <3>2
  <2>2. DurableIsErasable' /\ LeaderIsReferenced'
    <3>1. UNCHANGED <<entry, erased>>
      BY <1>29 DEF ClaimRead
    <3>2. DurableIsErasable'
      BY <3>1 DEF ErasureInv, DurableIsErasable
    <3>3. LeaderIsReferenced'
      BY <2>1, <3>1 DEF ErasureInv, LeaderIsReferenced, Owns
    <3>4. QED
      BY <3>2, <3>3
  <2>3. TakeoverIsGuarded'
    BY <1>29, <2>1 DEF ErasureInv, TakeoverIsGuarded, ClaimRead, Guarded
  <2>4. QED
    BY <2>2, <2>3 DEF ErasureInv
<1>30. ASSUME NEW c \in Callers, Reclaim(c) PROVE ErasureInv'
  <2>1. CASE Free /\ entry.id = caller[c].row
    <3>1. /\ entry'.refs = entry.refs \cup Refs(c)
          /\ entry'.prov = (caller[c].prov \/ Refs(c) # {})
          /\ entry'.status = "pending" /\ entry'.token = c
      BY <1>0, <1>30, <2>1 DEF Reclaim, Rows
    <3>2. \A x \in Callers :
            /\ Refs(x)' = Refs(x)
            /\ caller'[x].phase = IF x = c THEN "call" ELSE caller[x].phase
      BY <1>30, <2>1, LetGoKeeps DEF Reclaim, Phases
    <3>3. Refs(c) \cap erased = {} /\ UNCHANGED erased
      BY <1>30 DEF ErasureInv, TakeoverIsGuarded, Reclaim, At
    <3>4. DurableIsErasable'
      BY <3>1, <3>3 DEF ErasureInv, DurableIsErasable
    <3>5. LeaderIsReferenced'
      BY <3>1, <3>2 DEF LeaderIsReferenced, Owns
    <3>6. TakeoverIsGuarded'
      BY <3>2, <3>3 DEF ErasureInv, TakeoverIsGuarded
    <3>7. QED
      BY <3>4, <3>5, <3>6 DEF ErasureInv
  <2>2. CASE ~(Free /\ entry.id = caller[c].row)
    <3>1. /\ UNCHANGED <<entry, erased>>
          /\ LetGo(c, "claim") \/ LetGo(c, "bypass")
      BY <1>30, <2>2 DEF Reclaim
    <3>2. \A x \in Callers :
            /\ Refs(x)' = Refs(x)
            /\ caller'[x].phase = caller[x].phase \/ caller'[x].phase \in {"claim", "bypass"}
      BY <3>1, LetGoKeeps DEF Phases
    <3>3. QED
      BY <3>1, <3>2, KeepStep
  <2>3. QED
    BY <2>1, <2>2
<1>14. ASSUME NEW c \in Callers, Provide(c) PROVE ErasureInv'
  BY <1>14, GotoKeeps, KeepStep DEF Provide, At, Phases
<1>15. ASSUME NEW c \in Callers, Bypass(c) PROVE ErasureInv'
  BY <1>15, EndKeeps, KeepStep DEF Bypass, Refs
<1>16. ASSUME NEW c \in Callers, Publish(c) PROVE ErasureInv'
  <2>1. CASE Owns(c) /\ entry.ttl > 0
    <3>1. /\ entry'.refs = entry.refs /\ entry'.prov = entry.prov
          /\ entry'.status = "ready" /\ entry'.origin = Refs(c)
      <4>1. entry' = [entry EXCEPT !.status = "ready", !.token = NoCaller, !.ttl = 0,
                                   !.gen = gens + 1, !.origin = Refs(c)]
        BY <1>16, <2>1 DEF Publish
      <4>2. QED
        BY <1>0, <4>1 DEF Rows
    <3>2. Refs(c) \subseteq entry.refs
      BY <1>16, <2>1 DEF ErasureInv, LeaderIsReferenced, Publish, At
    <3>3. DurableIsErasable' /\ TakeoverIsGuarded'
      <4>1. Take(c, "sethot", gens + 1, Refs(c) # {}) /\ "sethot" \in Phases
        BY <1>16, <2>1 DEF Publish, Phases
      <4>2. \A x \in Callers :
              /\ Refs(x)' = Refs(x)
              /\ caller'[x].phase = IF x = c THEN "sethot" ELSE caller[x].phase
        BY <4>1, TakeKeeps
      <4>3. UNCHANGED erased
        BY <1>16 DEF Publish
      <4>4. QED
        BY <3>1, <3>2, <4>2, <4>3 DEF ErasureInv, DurableIsErasable, TakeoverIsGuarded
    <3>4. LeaderIsReferenced'
      BY <3>1 DEF LeaderIsReferenced, Owns
    <3>5. QED
      BY <3>3, <3>4 DEF ErasureInv
  <2>2. CASE ~(Owns(c) /\ entry.ttl > 0)
    BY <1>16, <2>2, EndKeeps, KeepStep DEF Publish, Refs
  <2>3. QED
    BY <2>1, <2>2
<1>17. ASSUME NEW c \in Callers, SetHot(c) PROVE ErasureInv'
  BY <1>17, EndKeeps, KeepStep DEF SetHot, Refs
<1>18. ASSUME NEW c \in Callers, Release(c) PROVE ErasureInv'
  BY <1>18, EndKeeps, KeepStep DEF Release, Refs
<1>19. ASSUME NEW c \in Callers, Return(c) PROVE ErasureInv'
  BY <1>19, EndKeeps, KeepStep DEF Return, Refs
<1>20. ASSUME NEW c \in Callers, Renew(c) PROVE ErasureInv'
  <2>1. /\ entry'.refs = entry.refs /\ entry'.prov = entry.prov
        /\ entry'.token = entry.token /\ entry'.origin = entry.origin
        /\ entry'.status = entry.status
    BY <1>0, <1>20 DEF Renew, Rows
  <2>2. QED
    BY <1>20, <2>1, KeepStep DEF Renew, Refs
<1>21. ASSUME NEW c \in Callers, Crash(c) PROVE ErasureInv'
  <2>1. \A x \in Callers : caller'[x].phase \in {"call", "publish", "release", "reclaim"}
                            => caller'[x] = caller[x]
    BY <1>21 DEF Crash, NoRequest
  <2>2. QED
    BY <1>21, <2>1, KeepStep DEF Crash, Refs
<1>22. ASSUME NEW s \in Sources, Erase(s) PROVE ErasureInv'
  <2>1. TakeoverIsGuarded'
    BY <1>22 DEF Erase, ErasureInv, TakeoverIsGuarded, LockedBy, At, Refs
  <2>2. CASE s \in entry.refs
    <3>1. entry'.status = "none" /\ entry'.refs = {} /\ entry'.token = NoCaller
      BY <1>0, <1>22, <2>2, DeletedType DEF Erase
    <3>2. QED
      BY <2>1, <3>1, <1>22 DEF ErasureInv, DurableIsErasable, LeaderIsReferenced, Owns
  <2>3. CASE s \notin entry.refs
    BY <1>22, <2>1, <2>3 DEF Erase, ErasureInv, DurableIsErasable, LeaderIsReferenced,
                             Owns, Refs
  <2>4. QED
    BY <2>2, <2>3
<1>23. ASSUME NEW s \in Sources, EraseHot(s) \/ EraseAck(s) \/ EraserCrash(s)
       PROVE  ErasureInv'
  BY <1>23, KeepStep DEF EraseHot, EraseAck, EraserCrash, Refs
<1>24. CASE DrainHot \/ DrainAck \/ HotExpire \/ RedisDown \/ RedisUp
  BY <1>24, KeepStep DEF DrainHot, DrainAck, HotExpire, RedisDown, RedisUp, Refs
<1>25. CASE Tick
  <2>1. /\ entry'.refs = entry.refs /\ entry'.prov = entry.prov
        /\ entry'.token = entry.token /\ entry'.origin = entry.origin
        /\ entry'.status = entry.status
    BY <1>0, <1>25 DEF Tick, Rows
  <2>2. QED
    BY <1>25, <2>1, KeepStep DEF Tick, Refs
<1>26. CASE Expire
  <2>1. /\ entry'.refs = entry.refs /\ entry'.prov = entry.prov
        /\ entry'.token = entry.token /\ entry'.origin = entry.origin
        /\ entry.status = "ready" /\ entry'.status = "expired"
    BY <1>0, <1>26 DEF Expire, Rows
  <2>2. QED
    BY <1>26, <2>1, KeepStep DEF Expire, Refs
<1>27. CASE Cleanup
  BY <1>27, KeepStep DEF Cleanup, Refs
<1>28. QED
  BY <1>1, <1>2, <1>3, <1>4, <1>5, <1>6, <1>7, <1>8, <1>9, <1>10, <1>11, <1>12, <1>13,
     <1>14, <1>15, <1>16, <1>17, <1>18, <1>19, <1>20, <1>21, <1>22, <1>23, <1>24, <1>25,
     <1>26, <1>27, <1>29, <1>30 DEF Next, Step

(* An erasure that commits finds every durable payload that was made from  *)
(* its source, and no durable row refers to an erased source: guard rows,  *)
(* references attached by every reuse, and the lease fence of publish.     *)
THEOREM ErasureReachesDurable == Spec => []DurableIsErasable
<1>1. Init => ErasureInv
  BY DEF Init, NoRow, NoRequest, ErasureInv, DurableIsErasable, LeaderIsReferenced,
         TakeoverIsGuarded, Owns
<1>2. Init => TypeOK
  BY TypeInit
<1>3. TypeOK /\ ErasureInv /\ [Next]_vars => TypeOK' /\ ErasureInv'
  BY TypeStep, ErasureStep
<1>4. ErasureInv => DurableIsErasable
  BY DEF ErasureInv
<1>5. QED
  BY <1>1, <1>2, <1>3, <1>4, PTL DEF Spec

-----------------------------------------------------------------------------
(* No hot copy hides that its payload was made from sources.               *)
(*                                                                         *)
(* A payload is on its way to the hot cache in the hands of its leader and *)
(* of readers (Carried), and waits in the row (Flagged): wherever it is,   *)
(* the flag goes with it.  Payloads are numbered as they are published, so *)
(* nobody holds the next one yet (Published).                              *)

Flagged == entry.gen \in sourced => entry.prov

Carried ==
  \A c \in Callers :
    caller[c].phase \in {"fill", "sethot"} /\ caller[c].gen \in sourced => caller[c].prov

Published ==
  /\ \A g \in sourced : 1 <= g /\ g <= gens
  /\ entry.gen <= gens /\ hot.gen <= gens
  /\ \A c \in Callers : caller[c].gen <= gens

HotInv == HotCopiesAreChecked /\ Flagged /\ Carried /\ Published

(* A step that publishes nothing and puts nothing into the hot cache keeps *)
(* it, if the row keeps its payload with its flag, or loses it, and nobody *)
(* takes a payload but from the row or the hot cache.                      *)
LEMMA HotKeepStep ==
  ASSUME TypeOK, HotInv, UNCHANGED <<gens, sourced>>,
         hot' = hot \/ hot' = NoHot,
         \/ entry'.gen = 0
         \/ entry'.gen = entry.gen /\ (entry.prov => entry'.prov),
         \A x \in Callers :
           \/ caller'[x].gen = 0
           \/ caller'[x].gen = caller[x].gen /\ caller'[x].prov = caller[x].prov
              /\ (caller'[x].phase \in {"fill", "sethot"} => caller[x].phase = caller'[x].phase)
           \/ /\ caller'[x].phase \notin {"fill", "sethot"}
              /\ caller'[x].gen \in {entry.gen, hot.gen} \cup {caller[y].gen : y \in Callers}
           \/ caller'[x].gen = entry.gen /\ (entry.prov => caller'[x].prov)
  PROVE  HotInv'
<1>0. /\ gens \in Nat /\ 0 \notin sourced /\ entry.gen <= gens /\ hot.gen <= gens
      /\ \A y \in Callers : caller[y].gen <= gens
      /\ 0 <= gens
  BY DEF TypeOK, Gens, HotInv, Published
<1>1. HotCopiesAreChecked'
  BY <1>0 DEF HotInv, HotCopiesAreChecked, NoHot
<1>2. Flagged'
  BY <1>0 DEF HotInv, Flagged
<1>3. Carried'
  BY <1>0 DEF HotInv, Carried, Flagged
<1>4. Published'
  <2>1. hot'.gen <= gens /\ entry'.gen <= gens
    BY <1>0 DEF NoHot
  <2>2. \A x \in Callers : caller'[x].gen <= gens
    BY <1>0
  <2>3. QED
    BY <2>1, <2>2 DEF HotInv, Published
<1>5. QED
  BY <1>1, <1>2, <1>3, <1>4 DEF HotInv

(* What a caller that takes a payload holds, and what the others do.       *)
LEMMA TakeHolds ==
  ASSUME TypeOK, NEW c \in Callers, NEW phase \in Phases, NEW gen, NEW prov,
         Take(c, phase, gen, prov)
  PROVE  /\ caller'[c].phase = phase /\ caller'[c].gen = gen /\ caller'[c].prov = prov
         /\ \A x \in Callers : x # c => caller'[x] = caller[x]
<1>1. caller[c] \in Requests
  BY DEF TypeOK
<1>2. QED
  BY <1>1 DEF Take, TypeOK, Requests

(* One that moves on holds what it held.                                   *)
LEMMA GotoHolds ==
  ASSUME TypeOK, NEW c \in Callers, NEW phase \in Phases, Goto(c, phase)
  PROVE  \A x \in Callers :
           /\ caller'[x].gen = caller[x].gen /\ caller'[x].prov = caller[x].prov
           /\ caller'[x].phase = IF x = c THEN phase ELSE caller[x].phase
BY DEF TypeOK, Goto, Requests

(* When a task ends it holds nothing, and who joined it holds what it had. *)
LEMMA EndHolds ==
  ASSUME TypeOK, NEW c \in Callers, End(c)
  PROVE  \A x \in Callers :
           \/ caller'[x] = NoRequest
           \/ caller'[x].phase = "shared" /\ caller'[x].gen = caller[c].gen
           \/ caller'[x] = caller[x]
<1> SUFFICES ASSUME NEW x \in Callers
             PROVE  \/ caller'[x] = NoRequest
                    \/ caller'[x].phase = "shared" /\ caller'[x].gen = caller[c].gen
                    \/ caller'[x] = caller[x]
  OBVIOUS
<1>1. caller[x] \in Requests
  BY DEF TypeOK
<1>2. QED
  BY <1>1 DEF End, Requests

(* Every way a payload takes keeps the flag with it.                       *)
LEMMA HotStep == TypeOK /\ ErasureInv /\ HotInv /\ [Next]_vars => HotInv'
<1> SUFFICES ASSUME TypeOK, ErasureInv, HotInv, [Next]_vars PROVE HotInv'
  OBVIOUS
<1>0. /\ entry \in Rows /\ \A c \in Callers : caller[c] \in Requests
      /\ gens \in Nat /\ sourced \in SUBSET Nat
  BY DEF TypeOK, Gens
<1>1. CASE UNCHANGED vars
  BY <1>1, HotKeepStep DEF vars
<1>2. ASSUME NEW c \in Callers, NEW refs \in RefSets, Begin(c, refs) PROVE HotInv'
  <2>1. \A x \in Callers : caller'[x].gen = 0 \/ caller'[x] = caller[x]
    BY <1>2 DEF Begin, NoRequest, TypeOK
  <2>2. QED
    BY <1>2, <2>1, HotKeepStep DEF Begin
<1>3. ASSUME NEW c \in Callers, HotGet(c) PROVE HotInv'
  <2>0. UNCHANGED <<entry, hot, gens, sourced>>
    BY <1>3 DEF HotGet
  <2>1. CASE redis /\ hot.gen # 0
    <3>1. PICK phase \in {"validate", "served"} : Take(c, phase, hot.gen, hot.prov)
      BY <1>3, <2>1 DEF HotGet
    <3>2. \A x \in Callers :
            IF x = c
              THEN caller'[x].phase = phase /\ caller'[x].gen = hot.gen
              ELSE caller'[x] = caller[x]
      BY <3>1, TakeHolds DEF Phases
    <3>3. QED
      BY <2>0, <3>2, HotKeepStep
  <2>2. CASE ~(redis /\ hot.gen # 0)
    <3>1. Goto(c, "read") /\ "read" \in Phases
      BY <1>3, <2>2 DEF HotGet, Phases
    <3>2. QED
      BY <2>0, <3>1, GotoHolds, HotKeepStep
  <2>3. QED
    BY <2>1, <2>2
<1>4. ASSUME NEW c \in Callers, Validate(c) PROVE HotInv'
  <2>0. UNCHANGED <<hot, gens, sourced>>
    BY <1>4 DEF Validate
  <2>1. CASE Guarded(c) /\ entry.status = "ready"
    <3>1. /\ Take(c, "served", caller[c].gen, FALSE) /\ "served" \in Phases
          /\ entry' = Attached(entry, Refs(c))
      BY <1>4, <2>1 DEF Validate, Phases
    <3>2. \A x \in Callers :
            IF x = c
              THEN caller'[x].phase = "served" /\ caller'[x].gen = caller[c].gen
              ELSE caller'[x] = caller[x]
      BY <3>1, TakeHolds
    <3>3. QED
      BY <1>0, <2>0, <3>1, <3>2, AttachedKeeps, HotKeepStep
  <2>2. CASE ~(Guarded(c) /\ entry.status = "ready")
    <3>1. Take(c, "drop", 0, FALSE) /\ "drop" \in Phases /\ UNCHANGED entry
      BY <1>4, <2>2 DEF Validate, Phases
    <3>2. \A x \in Callers :
            caller'[x].gen = 0 \/ caller'[x] = caller[x]
      <4>1. /\ caller'[c].gen = 0
            /\ \A x \in Callers : x # c => caller'[x] = caller[x]
        BY <3>1, TakeHolds
      <4>2. QED
        BY <4>1
    <3>3. QED
      BY <2>0, <3>1, <3>2, HotKeepStep
  <2>3. QED
    BY <2>1, <2>2
<1>5. ASSUME NEW c \in Callers, DropHot(c) PROVE HotInv'
  BY <1>5, GotoHolds, HotKeepStep DEF DropHot, Phases
<1>6. ASSUME NEW c \in Callers, Read(c) \/ ClaimHit(c) PROVE HotInv'
  <2>0. UNCHANGED <<hot, gens, sourced>>
    BY <1>6 DEF Read, ClaimHit
  <2>1. CASE /\ entry' = Attached(entry, Refs(c))
             /\ Take(c, "fill", entry.gen, Attached(entry, Refs(c)).prov)
    <3>1. \A x \in Callers :
            IF x = c
              THEN /\ caller'[x].gen = entry.gen
                   /\ caller'[x].prov = Attached(entry, Refs(c)).prov
              ELSE caller'[x] = caller[x]
      BY <2>1, TakeHolds DEF Phases
    <3>2. /\ Attached(entry, Refs(c)).gen = entry.gen
          /\ entry.prov => Attached(entry, Refs(c)).prov
      BY <1>0, AttachedKeeps
    <3>3. QED
      BY <2>0, <2>1, <3>1, <3>2, HotKeepStep
  <2>2. CASE UNCHANGED entry /\ \E phase \in {"claim", "miss"} : Goto(c, phase)
    BY <2>0, <2>2, GotoHolds, HotKeepStep DEF Phases
  <2>3. QED
    BY <1>6, <2>1, <2>2 DEF Read, ClaimHit
<1>7. ASSUME NEW c \in Callers, Fill(c) PROVE HotInv'
  <2>1. /\ Take(c, "served", caller[c].gen, FALSE) /\ "served" \in Phases
        /\ UNCHANGED <<entry, gens, sourced>> /\ At(c, "fill")
        /\ HotSet(caller[c].gen, caller[c].prov)
    BY <1>7 DEF Fill, Phases
  <2>2. \A x \in Callers :
          IF x = c
            THEN caller'[x].phase = "served" /\ caller'[x].gen = caller[c].gen
            ELSE caller'[x] = caller[x]
    BY <2>1, TakeHolds
  <2>3. HotCopiesAreChecked' /\ hot'.gen <= gens
    BY <2>1 DEF HotSet, HotInv, HotCopiesAreChecked, Carried, Published, At
  <2>4. Flagged' /\ Carried' /\ Published'
    BY <2>1, <2>2, <2>3 DEF HotInv, Flagged, Carried, Published
  <2>5. QED
    BY <2>3, <2>4 DEF HotInv
<1>8. ASSUME NEW c \in Callers, Lead(c) \/ Join(c) PROVE HotInv'
  <2>1. \A x \in Callers :
          /\ caller'[x].gen = caller[x].gen /\ caller'[x].prov = caller[x].prov
          /\ caller'[x].phase \in {"lookup", "join"} \/ caller'[x].phase = caller[x].phase
    BY <1>0, <1>8 DEF Lead, Join, TypeOK, Requests
  <2>2. QED
    BY <1>8, <2>1, HotKeepStep DEF Lead, Join
<1>9. ASSUME NEW c \in Callers, ClaimBlocked(c) \/ Provide(c) PROVE HotInv'
  <2>1. PICK phase \in {"bypass", "publish", "release"} : Goto(c, phase)
    BY <1>9 DEF ClaimBlocked, Provide
  <2>2. UNCHANGED <<entry, hot, gens, sourced>>
    BY <1>9 DEF ClaimBlocked, Provide
  <2>3. QED
    BY <2>1, <2>2, GotoHolds, HotKeepStep DEF Phases
<1>10. ASSUME NEW c \in Callers, ClaimFollow(c) PROVE HotInv'
  <2>1. entry'.gen = entry.gen /\ (entry.prov => entry'.prov)
    BY <1>0, <1>10, AttachedKeeps DEF ClaimFollow
  <2>2. QED
    BY <1>10, <2>1, HotKeepStep DEF ClaimFollow
<1>11. ASSUME NEW c \in Callers, ClaimInsert(c) PROVE HotInv'
  <2>1. entry'.gen = 0
    BY <1>0, <1>11, NothingType DEF ClaimInsert, Rows, NoRow
  <2>2. QED
    BY <1>11, <2>1, GotoHolds, HotKeepStep DEF ClaimInsert, Phases
<1>12. ASSUME NEW c \in Callers, ClaimRead(c) PROVE HotInv'
  <2>1. \A x \in Callers :
          /\ caller'[x].gen = caller[x].gen
          /\ caller'[x] = caller[x] \/ caller'[x].phase = "reclaim"
    BY <1>0, <1>12 DEF ClaimRead, TypeOK, Requests
  <2>2. QED
    BY <1>12, <2>1, HotKeepStep DEF ClaimRead
<1>13. ASSUME NEW c \in Callers, Reclaim(c) PROVE HotInv'
  <2>1. \A x \in Callers :
          /\ caller'[x].gen = caller[x].gen
          /\ caller'[x] = caller[x] \/ caller'[x].phase \in {"call", "claim", "bypass"}
    BY <1>0, <1>13 DEF Reclaim, LetGo, TypeOK, Requests
  <2>2. UNCHANGED entry \/ entry'.gen = 0
    BY <1>0, <1>13 DEF Reclaim, Rows
  <2>3. QED
    BY <1>13, <2>1, <2>2, HotKeepStep DEF Reclaim
<1>14. ASSUME NEW c \in Callers, Bypass(c) \/ Release(c) \/ Return(c) PROVE HotInv'
  <2>1. End(c) /\ UNCHANGED <<hot, gens, sourced>>
    BY <1>14 DEF Bypass, Release, Return
  <2>2. UNCHANGED entry \/ entry'.gen = 0
    BY <1>0, <1>14, DeletedType DEF Bypass, Release, Return
  <2>3. QED
    BY <2>1, <2>2, EndHolds, HotKeepStep DEF NoRequest
<1>15. ASSUME NEW c \in Callers, Publish(c) PROVE HotInv'
  <2>1. CASE Owns(c) /\ entry.ttl > 0
    <3>1. /\ entry'.gen = gens + 1 /\ entry'.prov = entry.prov /\ gens' = gens + 1
          /\ hot' = hot
          /\ sourced' = IF Refs(c) # {} THEN sourced \cup {gens + 1} ELSE sourced
      <4>1. entry' = [entry EXCEPT !.status = "ready", !.token = NoCaller, !.ttl = 0,
                                   !.gen = gens + 1, !.origin = Refs(c)]
        BY <1>15, <2>1 DEF Publish
      <4>2. QED
        BY <1>0, <1>15, <2>1, <4>1 DEF Publish, Rows
    <3>2. \A x \in Callers :
            IF x = c
              THEN caller'[x].gen = gens + 1 /\ caller'[x].prov = (Refs(c) # {})
              ELSE caller'[x] = caller[x]
      BY <1>15, <2>1, TakeHolds DEF Publish, Phases
    <3>3. Refs(c) # {} => entry.prov
      BY <1>15, <2>1 DEF ErasureInv, LeaderIsReferenced, Publish, At
    <3>4. gens + 1 \notin sourced /\ hot.gen # gens + 1
          /\ \A x \in Callers : caller[x].gen # gens + 1
      <4>1. /\ \A g \in sourced : g <= gens
            /\ hot.gen \in Nat /\ hot.gen <= gens
            /\ \A x \in Callers : caller[x].gen \in Nat /\ caller[x].gen <= gens
        BY <1>0 DEF HotInv, Published, TypeOK, HotValues, Requests, Gens
      <4>2. QED
        BY <1>0, <4>1
    <3>5. HotCopiesAreChecked' /\ Flagged'
      BY <3>1, <3>3, <3>4 DEF HotInv, HotCopiesAreChecked, Flagged
    <3>6. Carried'
      BY <3>1, <3>2, <3>4 DEF HotInv, Carried
    <3>7. Published'
      <4>1. /\ \A g \in sourced' : 1 <= g /\ g <= gens'
            /\ entry'.gen <= gens' /\ hot'.gen <= gens'
        BY <1>0, <3>1 DEF HotInv, Published, TypeOK, HotValues, Gens
      <4>2. \A x \in Callers : caller'[x].gen <= gens'
        BY <1>0, <3>1, <3>2 DEF HotInv, Published, Requests, Gens
      <4>3. QED
        BY <4>1, <4>2 DEF Published
    <3>8. QED
      BY <3>5, <3>6, <3>7 DEF HotInv
  <2>2. CASE ~(Owns(c) /\ entry.ttl > 0)
    <3>1. End(c) /\ UNCHANGED <<entry, hot, gens, sourced>>
      BY <1>15, <2>2 DEF Publish
    <3>2. QED
      BY <3>1, EndHolds, HotKeepStep DEF NoRequest
  <2>3. QED
    BY <2>1, <2>2
<1>16. ASSUME NEW c \in Callers, SetHot(c) PROVE HotInv'
  <2>1. /\ At(c, "sethot") /\ HotSet(caller[c].gen, caller[c].prov) /\ End(c)
        /\ UNCHANGED <<entry, gens, sourced>>
    BY <1>16 DEF SetHot
  <2>2. \A x \in Callers :
          \/ caller'[x] = NoRequest
          \/ caller'[x].phase = "shared" /\ caller'[x].gen = caller[c].gen
          \/ caller'[x] = caller[x]
    BY <2>1, EndHolds
  <2>3. HotCopiesAreChecked' /\ hot'.gen <= gens
    BY <2>1 DEF HotSet, HotInv, HotCopiesAreChecked, Carried, Published, At
  <2>4. Flagged' /\ Carried'
    BY <2>1, <2>2 DEF HotInv, Flagged, Carried, NoRequest
  <2>5. Published'
    BY <1>0, <2>1, <2>2, <2>3 DEF HotInv, Published, NoRequest
  <2>6. QED
    BY <2>3, <2>4, <2>5 DEF HotInv
<1>17. ASSUME NEW c \in Callers, Renew(c) PROVE HotInv'
  <2>1. entry'.gen = entry.gen /\ entry'.prov = entry.prov
    BY <1>0, <1>17 DEF Renew, Rows
  <2>2. QED
    BY <1>17, <2>1, HotKeepStep DEF Renew
<1>18. ASSUME NEW c \in Callers, Crash(c) PROVE HotInv'
  <2>1. \A x \in Callers : caller'[x].gen = 0 \/ caller'[x] = caller[x]
    BY <1>18 DEF Crash, NoRequest
  <2>2. QED
    BY <1>18, <2>1, HotKeepStep DEF Crash
<1>19. ASSUME NEW s \in Sources, Erase(s) PROVE HotInv'
  <2>1. UNCHANGED entry \/ entry'.gen = 0
    BY <1>0, <1>19, DeletedType DEF Erase
  <2>2. QED
    BY <1>19, <2>1, HotKeepStep DEF Erase
<1>20. ASSUME NEW s \in Sources, EraseHot(s) \/ EraseAck(s) \/ EraserCrash(s)
       PROVE  HotInv'
  BY <1>20, HotKeepStep DEF EraseHot, EraseAck, EraserCrash
<1>21. CASE DrainHot \/ DrainAck \/ HotExpire \/ RedisDown \/ RedisUp
  BY <1>21, HotKeepStep DEF DrainHot, DrainAck, HotExpire, RedisDown, RedisUp
<1>22. CASE Tick \/ Expire \/ Cleanup
  <2>1. \/ entry'.gen = 0
        \/ entry'.gen = entry.gen /\ entry'.prov = entry.prov
    BY <1>0, <1>22, DeletedType DEF Tick, Expire, Cleanup, Rows
  <2>2. QED
    BY <1>22, <2>1, HotKeepStep DEF Tick, Expire, Cleanup
<1>23. QED
  BY <1>1, <1>2, <1>3, <1>4, <1>5, <1>6, <1>7, <1>8, <1>9, <1>10, <1>11, <1>12, <1>13,
     <1>14, <1>15, <1>16, <1>17, <1>18, <1>19, <1>20, <1>21, <1>22 DEF Next, Step

(* Whatever leaders are overtaken, readers delayed and sources erased, no  *)
(* hot copy of a payload made from sources is taken for one that needs no  *)
(* look at the row.                                                        *)
THEOREM HotCopiesAreAlwaysChecked == Spec => []HotCopiesAreChecked
<1>1. Init => TypeOK /\ ErasureInv /\ HotInv
  <2>1. Init => ErasureInv
    BY DEF Init, NoRow, NoRequest, ErasureInv, DurableIsErasable, LeaderIsReferenced,
           TakeoverIsGuarded, Owns
  <2>2. Init => HotInv
    BY DEF Init, NoRow, NoHot, NoRequest, HotInv, HotCopiesAreChecked, Flagged, Carried,
           Published
  <2>3. QED
    BY <2>1, <2>2, TypeInit
<1>2. TypeOK /\ ErasureInv /\ HotInv /\ [Next]_vars => TypeOK' /\ ErasureInv' /\ HotInv'
  BY TypeStep, ErasureStep, HotStep
<1>3. HotInv => HotCopiesAreChecked
  BY DEF HotInv
<1>4. QED
  BY <1>1, <1>2, <1>3, PTL DEF Spec

(* While a published payload is valid no other leader replaces it: whoever *)
(* publishes holds the lease of a pending row.                             *)
THEOREM PublishedOnce == Spec => ReadyIsImmutable
<1> DEFINE Keeps == entry.status = "ready" /\ entry'.status = "ready"
                      => entry'.gen = entry.gen
<1>1. TypeOK /\ [Next]_vars => [Keeps]_entry
  <2> SUFFICES ASSUME TypeOK, [Next]_vars, entry.status = "ready",
                      entry'.status = "ready"
               PROVE  entry'.gen = entry.gen
    OBVIOUS
  <2>0. entry \in Rows
    BY DEF TypeOK
  <2>1. \/ UNCHANGED entry
        \/ \E c \in Callers : entry' = Attached(entry, Refs(c))
    <3>1. ASSUME NEW c \in Callers, Step(c) PROVE  UNCHANGED entry \/ \E d \in Callers : entry' = Attached(entry, Refs(d))
      BY <3>1, <2>0 DEF Step, HotGet, Validate, DropHot, Read, Fill, Lead, Join,
         ClaimBlocked, ClaimHit, ClaimFollow, ClaimInsert, ClaimRead, Reclaim, Free,
         Provide, Bypass, Publish, Owns, SetHot, Release, Return
    <3>2. ASSUME NEW c \in Callers, Renew(c) \/ Crash(c) PROVE UNCHANGED entry
      BY <3>2 DEF Renew, Crash, Owns
    <3>3. ASSUME NEW s \in Sources, Erase(s) \/ EraseHot(s) \/ EraseAck(s) \/ EraserCrash(s)
          PROVE  UNCHANGED entry
      BY <3>3, <2>0, DeletedType DEF Erase, EraseHot, EraseAck, EraserCrash
    <3>4. CASE DrainHot \/ DrainAck \/ Tick \/ Expire \/ Cleanup \/ HotExpire
               \/ RedisDown \/ RedisUp
      <4>1. ~Expire
        BY <2>0 DEF Expire, Rows
      <4>2. QED
        BY <3>4, <4>1, <2>0, DeletedType
           DEF DrainHot, DrainAck, Tick, Cleanup, HotExpire, RedisDown, RedisUp
    <3>5. ASSUME NEW c \in Callers, NEW refs \in RefSets, Begin(c, refs)
          PROVE  UNCHANGED entry
      BY <3>5 DEF Begin
    <3>6. QED
      BY <3>1, <3>2, <3>3, <3>4, <3>5 DEF Next, vars
  <2>2. ASSUME NEW c \in Callers, entry' = Attached(entry, Refs(c))
        PROVE  entry'.gen = entry.gen
    BY <2>0, <2>2 DEF Attached, Rows
  <2>3. QED
    BY <2>1, <2>2
<1>2. Spec => []TypeOK
  BY CacheTypeCorrect
<1>3. QED
  BY <1>1, <1>2, PTL DEF Spec, ReadyIsImmutable

=============================================================================
