---------------------------- MODULE AnswerProofs ----------------------------
(***************************************************************************)
(* Proofs about what clients are answered from: the query engine and its   *)
(* cache (Resolver), and the cache that is restored from disk              *)
(* (CachePersist).                                                         *)
(***************************************************************************)
EXTENDS Resolver, CachePersist, TLAPS

(***************************************************************************)
(* Resolver: safety of the query engine for any number of requests, keys,  *)
(* outcomes and any configuration.                                         *)
(*                                                                         *)
(* The inductive invariant.  What the cache holds is sound only if what a  *)
(* revalidation is about to write back is, and an answer is sound because  *)
(* the item it was made from was; a caller inside single-flight shares a   *)
(* cell, whose value is therefore a result.                                *)
(***************************************************************************)
Sound(e) ==
  /\ e.msg.status \in {"Secure", "InsecureUnsigned"}
  /\ e.msg.status = "Secure" => e.cached_at + e.min_ttl <= e.msg.sigexp
  /\ e.min_ttl <= e.msg.ttl

SoundCache == \A k \in Keys : cache[k] # NoEntry => Sound(cache[k])

SoundTasks ==
  \A t \in Revalidations : reval[t].pc = "touching" =>
    reval[t].existing \in CacheEntry /\ Sound(reval[t].existing)

\* What AuthenticAnswers, BogusOnlyToCheckingDisabled and TtlAged say of the
\* answer a to a request with the flags f that read the clock at t.
SoundAnswer(a, f, t) ==
  a # NoResponse /\ a.outcome = "Success" =>
    /\ a.ad => /\ a.item.msg.status = "Secure"
               /\ f.ad /\ ~f.cd
               /\ a.from = "cache" => t < a.item.msg.sigexp
    /\ DnssecEnforce /\ a.item.msg.status = "Bogus" => f.cd /\ a.from # "cache"
    /\ a.freshness = "Fresh" =>
         /\ a.from = "cache" => a.ttl > 0
         /\ a.ttl > 0 => t + a.ttl <= a.item.cached_at + a.item.msg.ttl

SoundAnswers == \A r \in Requests : SoundAnswer(resp[r], flags[r], at[r])

NewUnanswered == \A r \in Requests : stage[r] = "new" => resp[r] = NoResponse

CellsKnown ==
  \A c \in Callers : pc[c] \in {"waiting", "running"} => cell[c] \in Callers

EngineTypeOK ==
  /\ enabled \in CacheModes
  /\ now \in 0..MaxTime
  /\ cache \in [Keys -> CacheEntry \cup {NoEntry}]
  /\ in_flight \in SUBSET Keys
  /\ reval \in [Revalidations -> Task]
  /\ warm \in [Keys -> {"todo", "resolving", "done"}]
  /\ scheduled \in SUBSET Prefetches

RequestTypeOK ==
  /\ stage \in [Requests -> Stages]
  /\ flags \in [Requests -> Flags]
  /\ at \in [Requests -> 0..MaxTime]
  /\ resp \in [Requests -> Answers \cup Refusals \cup {NoResponse}]

EngineInv == EngineTypeOK /\ SoundCache /\ SoundTasks
RequestInv == RequestTypeOK /\ SoundAnswers /\ NewUnanswered
FlightInv == SF!FlightTypeOK /\ CellsKnown
IInv == EngineInv /\ RequestInv /\ FlightInv

(***************************************************************************)
(* What the engine's operators return.                                     *)
(***************************************************************************)
\* An effective TTL is a TTL, no longer than the message's, and for Secure
\* data ends with the signatures.
LEMMA EffectiveTtl ==
  ASSUME NEW o \in Outcomes, NEW t \in Nat
  PROVE  LET x == calculate_cache_ttl(o, t) IN
         /\ x \in Nat
         /\ x <= o.ttl
         /\ o.status = "Secure" /\ x > 0 => t + x <= o.sigexp
<1>1. o \in [rcode : Rcode, status : Status, ttl : Nat, sigexp : Nat]
  BY OutcomesAssumption, Zenon
<1> QED
  BY <1>1 DEF calculate_cache_ttl, Monus

\* Store keeps the cache well typed and sound.
LEMMA StoreSound ==
  ASSUME EngineInv, NEW k \in Keys, NEW o \in Outcomes
  PROVE  /\ Store(k, o) \in [Keys -> CacheEntry \cup {NoEntry}]
         /\ \A j \in Keys : Store(k, o)[j] # NoEntry => Sound(Store(k, o)[j])
<1> USE DEF EngineInv, EngineTypeOK
<1>1. now \in Nat
  BY BoundsAssumption
<1>2. CASE Store(k, o) = cache
  BY <1>2, Zenon DEF SoundCache
<1>3. CASE /\ is_cacheable_dnssec(o)
           /\ calculate_cache_ttl(o, now) > 0
           /\ Store(k, o) = [cache EXCEPT ![k] = NewEntry(o)]
  <2> DEFINE x == calculate_cache_ttl(o, now)
  <2>1. x \in Nat /\ x <= o.ttl /\ (o.status = "Secure" /\ x > 0 => now + x <= o.sigexp)
    BY <1>1, EffectiveTtl, Zenon
  <2>2. NewEntry(o) = [msg |-> o, min_ttl |-> x, cached_at |-> now,
                       last_revalidated_at |-> now]
    BY Zenon DEF NewEntry
  <2> HIDE DEF x
  <2>3. NewEntry(o) \in CacheEntry /\ Sound(NewEntry(o))
    BY <1>3, <2>1, <2>2 DEF CacheEntry, Sound, is_cacheable_dnssec, x
  <2> QED
    BY <1>3, <2>3, Zenon DEF SoundCache
<1> QED
  BY <1>2, <1>3, Zenon DEF Store

\* An answer made from the cache is sound.
LEMMA CacheAnswerSound ==
  ASSUME IInv, NEW r \in Requests, Usable(r)
  PROVE  LET e == cache[key[r]]
             a == construct_client_response(r, e, freshness_at(e, at[r]), "cache")
         IN  a \in Answers /\ SoundAnswer(a, flags[r], at[r])
<1> DEFINE e == cache[key[r]]
           f == freshness_at(e, at[r])
           a == construct_client_response(r, e, f, "cache")
<1>1. key[r] \in Keys
  BY Zenon DEF IInv, FlightInv, SF!FlightTypeOK, Callers
<1>2. e \in CacheEntry /\ Sound(e) /\ f # "Expired"
  BY <1>1, Zenon DEF IInv, EngineInv, EngineTypeOK, SoundCache, Usable
<1>3. at[r] \in Nat /\ at[r] \in 0..MaxTime /\ flags[r] \in [cd : BOOLEAN, ad : BOOLEAN]
  BY BoundsAssumption, FlagsAssumption DEF IInv, RequestInv, RequestTypeOK
<1> USE <1>2
<1>4. /\ e.msg \in [rcode : Rcode, status : Status, ttl : Nat, sigexp : Nat]
      /\ e.min_ttl \in Nat /\ e.cached_at \in Nat
  BY OutcomesAssumption, BoundsAssumption DEF CacheEntry
<1>5. /\ f \in {"Fresh", "Stale"}
      /\ f = "Fresh" => Monus(at[r], e.cached_at) < e.min_ttl
  BY <1>3, <1>4, BoundsAssumption, Zenon DEF freshness_at
<1> USE <1>5
<1>6. /\ compute_ttl(e, f, at[r]) \in Nat
      /\ f = "Fresh" => /\ compute_ttl(e, f, at[r]) > 0
                        /\ at[r] + compute_ttl(e, f, at[r]) <= e.cached_at + e.msg.ttl
                        /\ e.msg.status = "Secure" => at[r] < e.msg.sigexp
  <2> HIDE DEF e, f
  <2> QED
    BY <1>3, <1>4, BoundsAssumption DEF compute_ttl, Monus, Sound
<1> DEFINE x == compute_ttl(e, f, at[r])
           d == /\ e.msg.status = "Secure" /\ f = "Fresh"
                /\ flags[r].ad /\ ~flags[r].cd
<1>7. a = [outcome |-> "Success", from |-> "cache", freshness |-> f, item |-> e,
           ad |-> d, ttl |-> x]
  BY Zenon DEF construct_client_response
<1>8. d \in BOOLEAN
  BY Zenon
<1> HIDE DEF e, f, a, x
<1>9. a \in Answers
  BY <1>6, <1>7, <1>8, Zenon DEF Answers, x
<1>10. SoundAnswer(a, flags[r], at[r])
  BY <1>6, <1>7, Zenon DEF SoundAnswer, Sound, x
<1> QED
  BY <1>9, <1>10, Zenon DEF a, e, f

\* An answer made from a resolution is sound, if enforcement let it pass.
LEMMA ResolvedAnswerSound ==
  ASSUME RequestInv, NEW r \in Requests, NEW res \in Resolved,
         NEW from \in {"flight", "direct"},
         ~(res.msg.status = "Bogus" /\ DnssecEnforce /\ ~flags[r].cd)
  PROVE  LET a == construct_client_response(r, res, "Fresh", from)
         IN  a \in Answers /\ SoundAnswer(a, flags[r], at[r])
<1> DEFINE x == compute_ttl(res, "Fresh", at[r])
           d == /\ res.msg.status = "Secure" /\ "Fresh" = "Fresh"
                /\ flags[r].ad /\ ~flags[r].cd
           a == construct_client_response(r, res, "Fresh", from)
<1>1. at[r] \in Nat /\ flags[r] \in [cd : BOOLEAN, ad : BOOLEAN]
  BY BoundsAssumption, FlagsAssumption DEF RequestInv, RequestTypeOK
<1>2. /\ res.msg \in [rcode : Rcode, status : Status, ttl : Nat, sigexp : Nat]
      /\ res.cached_at \in Nat
  BY OutcomesAssumption, BoundsAssumption DEF Resolved
<1>3. x \in Nat /\ (x > 0 => at[r] + x <= res.cached_at + res.msg.ttl)
  BY <1>1, <1>2 DEF compute_ttl, Monus
<1>4. a = [outcome |-> "Success", from |-> from, freshness |-> "Fresh", item |-> res,
           ad |-> d, ttl |-> x]
  BY Zenon DEF construct_client_response
<1>5. d \in BOOLEAN
  BY Zenon
<1> HIDE DEF x, a
<1>6. a \in Answers
  BY <1>3, <1>4, <1>5, Zenon DEF Answers
<1>7. SoundAnswer(a, flags[r], at[r])
  BY <1>1, <1>3, <1>4, Zenon DEF SoundAnswer
<1> QED
  BY <1>6, <1>7, Zenon DEF a

(***************************************************************************)
(* What the parts of an action do to the parts of the invariant.           *)
(***************************************************************************)
\* A refusal carries no data, so nothing can be wrong with it.
LEMMA RefusalSound ==
  ASSUME NEW o \in {"Malformed", "Dropped", "Truncated", "ServFail", "Geo"},
         NEW f, NEW t
  PROVE  Refuse(o) \in Refusals /\ SoundAnswer(Refuse(o), f, t)
BY Zenon DEF Refuse, Refusals, SoundAnswer

\* Replying with a sound answer, and moving on without one, keep RequestInv.
LEMMA ReplyKeeps ==
  ASSUME RequestInv, NEW r \in Requests, NEW a \in Answers \cup Refusals,
         SoundAnswer(a, flags[r], at[r]), Reply(r, a)
  PROVE  RequestInv'
<1> USE DEF RequestInv, Reply
<1>1. RequestTypeOK'
  BY Zenon DEF RequestTypeOK, Stages
<1>2. SoundAnswers'
  <2> SUFFICES ASSUME NEW s \in Requests
               PROVE  SoundAnswer(resp'[s], flags[s], at[s])
    BY Zenon DEF SoundAnswers
  <2>1. CASE s = r
    BY <2>1, Zenon DEF RequestTypeOK
  <2>2. CASE s # r
    BY <2>2, Zenon DEF RequestTypeOK, SoundAnswers
  <2> QED
    BY <2>1, <2>2, Zenon
<1>3. NewUnanswered'
  BY Zenon DEF NewUnanswered, RequestTypeOK
<1> QED
  BY <1>1, <1>2, <1>3, Zenon

\* A request that moves on without an answer keeps the requests' invariant.
LEMMA GotoKeeps ==
  ASSUME RequestInv, NEW r \in Requests, NEW s \in Stages \ {"new"}, Goto(r, s)
  PROVE  RequestInv'
BY Zenon DEF RequestInv, Goto, RequestTypeOK, SoundAnswers, NewUnanswered

\* An answer may be replaced by the TC=1 challenge for its size.
LEMMA DeliverKeeps ==
  ASSUME RequestInv, NEW r \in Requests, NEW a \in Answers,
         SoundAnswer(a, flags[r], at[r]), Deliver(r, a)
  PROVE  RequestInv'
<1>1. CASE Reply(r, a)
  BY <1>1, ReplyKeeps, Zenon
<1>2. CASE Reply(r, Refuse("Truncated"))
  BY <1>2, ReplyKeeps, RefusalSound, Zenon
<1> QED
  BY <1>1, <1>2, Zenon DEF Deliver

\* What is made of a resolution, enforcement included, is a sound answer.
LEMMA AdaptKeeps ==
  ASSUME RequestInv, NEW r \in Requests, NEW res \in Results,
         NEW from \in {"flight", "direct"}, Adapt(r, res, from)
  PROVE  RequestInv'
<1>1. CASE Reply(r, Refuse("ServFail"))
  BY <1>1, ReplyKeeps, RefusalSound, Zenon
<1>2. CASE /\ res # Failed
           /\ ~(res.msg.status = "Bogus" /\ DnssecEnforce /\ ~flags[r].cd)
           /\ Deliver(r, construct_client_response(r, res, "Fresh", from))
  <2>1. res \in Resolved
    BY <1>2, Zenon DEF Results
  <2> QED
    BY <1>2, <2>1, ResolvedAnswerSound, DeliverKeeps, Zenon
<1> QED
  BY <1>1, <1>2, Zenon DEF Adapt

\* The steps of single-flight keep FlightInv.
LEMMA EnterKeeps ==
  ASSUME FlightInv, NEW c \in Callers, SF!Enter(c)
  PROVE  FlightInv'
BY DEF FlightInv, SF!FlightTypeOK, SF!PC, CellsKnown, SF!Enter

\* Taking the permit of get_or_init keeps the calls in known cells.
LEMMA AcquireKeeps ==
  ASSUME FlightInv, NEW c \in Callers, SF!Acquire(c)
  PROVE  FlightInv'
BY Zenon DEF FlightInv, SF!FlightTypeOK, SF!PC, CellsKnown, SF!Acquire

\* Initializing a cell with a result keeps the calls in known cells.
LEMMA FinishKeeps ==
  ASSUME FlightInv, NEW c \in Callers, NEW v \in Results, SF!Finish(c, v)
  PROVE  FlightInv'
BY Zenon DEF FlightInv, SF!FlightTypeOK, SF!PC, CellsKnown, SF!Finish

\* Returning from run keeps the calls in known cells.
LEMMA ReturnKeeps ==
  ASSUME FlightInv, NEW c \in Callers, SF!Return(c)
  PROVE  FlightInv'
BY Zenon DEF FlightInv, SF!FlightTypeOK, SF!PC, CellsKnown, SF!Return, SF!ReleaseGuard, SF!Leader

\* Dropping the future of run keeps the calls in known cells.
LEMMA DropKeeps ==
  ASSUME FlightInv, NEW c \in Callers, SF!Drop(c)
  PROVE  FlightInv'
BY Zenon DEF FlightInv, SF!FlightTypeOK, SF!PC, CellsKnown, SF!Drop, SF!ReleaseGuard, SF!Leader

\* A part of the invariant whose variables do not change is kept.
LEMMA FlightFrame == FlightInv /\ UNCHANGED sfVars => FlightInv'
BY Zenon DEF FlightInv, SF!FlightTypeOK, CellsKnown, sfVars

\* The requests' invariant depends on the requests' variables only.
LEMMA RequestFrame == RequestInv /\ UNCHANGED reqVars => RequestInv'
BY Zenon DEF RequestInv, RequestTypeOK, SoundAnswers, NewUnanswered, reqVars

engineVars == <<enabled, now, cache, in_flight, reval, warm, scheduled>>

\* The invariant of cache and tasks depends on their variables only.
LEMMA EngineFrame == EngineInv /\ UNCHANGED engineVars => EngineInv'
BY Zenon DEF EngineInv, EngineTypeOK, SoundCache, SoundTasks, engineVars

\* A write of sound entries to the cache alone keeps EngineInv.
LEMMA CacheWriteKeeps ==
  ASSUME EngineInv, cache' \in [Keys -> CacheEntry \cup {NoEntry}],
         \A k \in Keys : cache'[k] # NoEntry => Sound(cache'[k]),
         UNCHANGED <<enabled, now, in_flight, reval, warm, scheduled>>
  PROVE  EngineInv'
BY Zenon DEF EngineInv, EngineTypeOK, SoundCache, SoundTasks

\* resolve_and_validate writes nothing but sound entries.
LEMMA ResolveKeeps ==
  ASSUME IInv, NEW c \in Callers, NEW o \in Outcomes,
         cache' = resolve_and_validate(key[c], o),
         UNCHANGED <<enabled, now, in_flight, reval, warm, scheduled>>
  PROVE  EngineInv'
<1>1. key[c] \in Keys /\ o \in Outcomes
  BY Zenon DEF IInv, FlightInv, SF!FlightTypeOK
<1>2. CASE cache' = Store(key[c], o)
  BY <1>1, <1>2, StoreSound, CacheWriteKeeps, Zenon DEF IInv
<1>3. CASE cache' = cache
  BY <1>3, EngineFrame, Zenon DEF IInv, engineVars
<1> QED
  BY <1>2, <1>3, Zenon DEF resolve_and_validate

\* The resolver starts with an empty cache, no task and no request.
LEMMA InitIInv == Init => IInv
<1> SUFFICES ASSUME Init PROVE IInv
  BY Zenon
<1> USE DEF Init
<1>1. FlightInv
  BY Zenon DEF FlightInv, SF!FlightInit, SF!FlightTypeOK, SF!PC, CellsKnown
<1>2. RequestInv
  BY BoundsAssumption, SMTT(60), Zenon
  DEF RequestInv, RequestTypeOK, SoundAnswers, SoundAnswer, NewUnanswered, Stages
<1>3. EngineInv
  <2>1. \A t \in Revalidations : reval[t] \in Task
    BY KeysAssumption, Zenon DEF Idle, Task
  <2> QED
    BY <2>1, BoundsAssumption, SMTT(60), Zenon
    DEF EngineInv, EngineTypeOK, SoundCache, SoundTasks, Idle
<1> QED
  BY <1>1, <1>2, <1>3, Zenon DEF IInv

\* One step per action of process_dns_query.
LEMMA RequestStep ==
  ASSUME IInv, NEW r \in Requests, Request(r)
  PROVE  IInv'
<1> USE DEF IInv
<1>1. r \in Callers
  BY Zenon DEF Callers
<1>2. CASE Reject(r)
  <2>1. PICK o \in {"Malformed", "Dropped", "Truncated", "Geo"} : Reply(r, Refuse(o))
    BY <1>2, Zenon DEF Reject
  <2>2. RequestInv'
    BY <2>1, RefusalSound, ReplyKeeps, Zenon
  <2> QED
    BY <1>2, <2>2, FlightFrame, EngineFrame, Zenon DEF Reject, engineVars
<1>3. CASE Receive(r)
  <2> USE <1>3
  <2>1. RequestTypeOK'
    BY Zenon DEF Receive, RequestInv, RequestTypeOK, EngineInv, EngineTypeOK, Stages
  <2>2. SoundAnswers'
    <3> SUFFICES ASSUME NEW s \in Requests
                 PROVE  SoundAnswer(resp[s], flags[s], at'[s])
      BY Zenon DEF SoundAnswers, Receive
    <3>1. CASE s = r
      BY <3>1, Zenon DEF Receive, RequestInv, NewUnanswered, SoundAnswer
    <3>2. CASE s # r
      BY <3>2, Zenon DEF Receive, RequestInv, RequestTypeOK, SoundAnswers
    <3> QED
      BY <3>1, <3>2, Zenon
  <2>3. NewUnanswered'
    BY Zenon DEF Receive, RequestInv, RequestTypeOK, NewUnanswered
  <2> QED
    BY <2>1, <2>2, <2>3, FlightFrame, EngineFrame, Zenon DEF Receive, RequestInv, engineVars
<1>4. CASE Hit(r)
  <2> DEFINE e == cache[key[r]]
             f == freshness_at(e, at[r])
             a == construct_client_response(r, e, f, "cache")
  <2> USE <1>4
  <2>1. a \in Answers /\ SoundAnswer(a, flags[r], at[r])
    <3>1. Usable(r)
      BY Zenon DEF Hit
    <3> QED BY <3>1, CacheAnswerSound, Zenon
  <2>2. RequestInv'
    <3>1. CASE Goto(r, "missed")
      BY <3>1, GotoKeeps, Zenon DEF Stages
    <3>2. CASE Deliver(r, a)
      <4> HIDE DEF a
      <4> QED
        BY <2>1, <3>2, DeliverKeeps, Zenon
    <3> QED
      BY <3>1, <3>2, Zenon DEF Hit
  <2>3. key[r] \in Keys
    BY <1>1, SMTT(60), Zenon DEF FlightInv, SF!FlightTypeOK
  <2>4. EngineInv'
    <3>1. CASE UNCHANGED <<in_flight, reval>>
      BY <3>1, EngineFrame, ZenonT(60) DEF Hit, engineVars
    <3>2. CASE in_flight' = in_flight \cup {key[r]} /\ SpawnRevalidation(key[r])
      BY <2>3, <3>2, SMTT(60), Zenon DEF Hit, SpawnRevalidation, EngineInv, EngineTypeOK,
         SoundCache, SoundTasks, Task
    <3> QED
      BY <3>1, <3>2, SMTT(60), Zenon DEF Hit, Revalidate
  <2> QED
    BY <2>2, <2>4, FlightFrame, SMTT(60), Zenon DEF Hit
<1>5. CASE Miss(r)
  BY <1>5, GotoKeeps, FlightFrame, EngineFrame, Zenon DEF Miss, engineVars, Stages
<1>6. CASE EnterFlight(r)
  BY <1>1, <1>6, GotoKeeps, EnterKeeps, EngineFrame, Zenon DEF EnterFlight, engineVars, Stages
<1>7. CASE FlightReturns(r)
  <2>1. value[cell[r]] \in Results
    BY <1>1, <1>7, Zenon DEF FlightReturns, SF!Return, FlightInv, CellsKnown, SF!FlightTypeOK
  <2> QED
    BY <1>1, <1>7, <2>1, AdaptKeeps, ReturnKeeps, EngineFrame, Zenon DEF FlightReturns, engineVars
<1>8. CASE GoDirect(r)
  BY <1>8, GotoKeeps, FlightFrame, EngineFrame, Zenon DEF GoDirect, engineVars, Stages
<1>9. CASE DirectReturns(r)
  <2> USE <1>9
  <2>1. CASE Adapt(r, Failed, "direct") /\ UNCHANGED cache
    BY <2>1, AdaptKeeps, FlightFrame, EngineFrame, Zenon DEF DirectReturns, engineVars, Results
  <2>2. ASSUME NEW o \in Outcomes,
               Adapt(r, [msg |-> o, cached_at |-> now], "direct"),
               cache' = resolve_and_validate(key[r], o)
        PROVE  IInv'
    <3>1. [msg |-> o, cached_at |-> now] \in Results
      BY Zenon DEF Results, Resolved, EngineInv, EngineTypeOK
    <3>2. RequestInv'
      BY <2>2, <3>1, AdaptKeeps, Zenon
    <3>3. EngineInv'
      BY <1>1, <2>2, ResolveKeeps, Zenon DEF DirectReturns
    <3> QED
      BY <3>2, <3>3, FlightFrame, Zenon DEF DirectReturns
  <2> QED
    BY <2>1, <2>2, ZenonT(60) DEF DirectReturns
<1>10. CASE Disconnect(r)
  BY <1>1, <1>10, GotoKeeps, DropKeeps, FlightFrame, EngineFrame, Zenon
  DEF Disconnect, engineVars, Stages
<1> QED
  BY <1>2, <1>3, <1>4, <1>5, <1>6, <1>7, <1>8, <1>9, <1>10, Zenon DEF Request

\* The closure of single-flight, whoever runs it.
LEMMA FlightStep ==
  ASSUME IInv, NEW c \in Callers, StartResolving(c) \/ EndResolving(c)
  PROVE  IInv'
<1> USE DEF IInv
<1>1. CASE StartResolving(c)
  BY <1>1, AcquireKeeps, RequestFrame, EngineFrame, SMTT(60), Zenon DEF StartResolving, engineVars
<1>2. CASE EndResolving(c)
  <2> USE <1>2
  <2>1. CASE SF!Finish(c, Failed) /\ UNCHANGED cache
    BY <2>1, FinishKeeps, RequestFrame, EngineFrame, Zenon DEF EndResolving, engineVars, Results
  <2>2. ASSUME NEW o \in Outcomes,
               SF!Finish(c, [msg |-> o, cached_at |-> now]),
               cache' = resolve_and_validate(key[c], o)
        PROVE  IInv'
    <3>1. [msg |-> o, cached_at |-> now] \in Results
      BY Zenon DEF Results, Resolved, EngineInv, EngineTypeOK
    <3>2. FlightInv'
      BY <2>2, <3>1, FinishKeeps, Zenon
    <3>3. EngineInv'
      BY <2>2, ResolveKeeps, Zenon DEF EndResolving
    <3> QED
      BY <3>2, <3>3, RequestFrame, Zenon DEF EndResolving
  <2> QED
    BY <2>1, <2>2, ZenonT(60) DEF EndResolving
<1> QED
  BY <1>1, <1>2, Zenon

\* One step per action of a background revalidation.
LEMMA RevalidationStep ==
  ASSUME IInv, NEW t \in Revalidations,
         RevalidationResolves(t) \/ RevalidationTouches(t)
  PROVE  IInv'
<1> USE DEF IInv
<1> DEFINE k == reval[t].key
<1>1. k \in Keys /\ reval[t] \in Task
  BY Zenon DEF EngineInv, EngineTypeOK, Task
<1>2. Idle \in Task /\ Idle.pc = "free"
  BY KeysAssumption, Zenon DEF Idle, Task
<1>3. ASSUME TaskEnds(t), UNCHANGED <<enabled, now, warm, scheduled>>,
             cache' \in [Keys -> CacheEntry \cup {NoEntry}],
             \A j \in Keys : cache'[j] # NoEntry => Sound(cache'[j])
      PROVE  EngineInv'
  BY <1>1, <1>2, <1>3, Zenon DEF TaskEnds, EngineInv, EngineTypeOK, SoundCache, SoundTasks
<1>4. CASE RevalidationResolves(t)
  <2> USE <1>4
  <2>1. CASE UNCHANGED cache /\ TaskEnds(t)
    <3>1. /\ cache' \in [Keys -> CacheEntry \cup {NoEntry}]
          /\ \A j \in Keys : cache'[j] # NoEntry => Sound(cache'[j])
      BY <2>1, Zenon DEF EngineInv, EngineTypeOK, SoundCache
    <3>2. EngineInv'
      BY <1>3, <2>1, <3>1, Zenon DEF RevalidationResolves
    <3> QED
      BY <3>2, FlightFrame, RequestFrame, Zenon DEF RevalidationResolves
  <2>2. ASSUME NEW o \in Outcomes, cache' = Store(k, o), TaskEnds(t)
        PROVE  IInv'
    <3>1. EngineInv'
      BY <1>1, <1>3, <2>2, StoreSound, Zenon DEF RevalidationResolves
    <3> QED
      BY <3>1, FlightFrame, RequestFrame, SMTT(60), Zenon DEF RevalidationResolves
  <2>3. CASE /\ cache[k] # NoEntry
             /\ reval' = [reval EXCEPT ![t].pc = "touching", ![t].existing = cache[k]]
             /\ UNCHANGED <<cache, in_flight>>
    <3>1. cache[k] \in CacheEntry /\ Sound(cache[k])
      BY <1>1, <2>3, Zenon DEF EngineInv, EngineTypeOK, SoundCache
    <3> DEFINE n == [reval[t] EXCEPT !.pc = "touching", !.existing = cache[k]]
    <3>2. n \in Task /\ n.existing = cache[k]
      BY <1>1, <3>1, ZenonT(60) DEF Task
    <3>3. reval' = [reval EXCEPT ![t] = n]
      BY <1>1, <2>3, ZenonT(60) DEF EngineInv, EngineTypeOK
    <3> HIDE DEF n
    <3>4. EngineTypeOK' /\ SoundCache'
      BY <2>3, <3>2, <3>3, ZenonT(60) DEF RevalidationResolves, EngineInv, EngineTypeOK,
         SoundCache
    <3>5. SoundTasks'
      BY <3>1, <3>2, <3>3, Zenon DEF EngineInv, EngineTypeOK, SoundTasks
    <3>6. EngineInv'
      BY <3>4, <3>5, Zenon DEF EngineInv
    <3> QED
      BY <3>6, FlightFrame, RequestFrame, Zenon DEF RevalidationResolves
  <2> QED
    BY <2>1, <2>2, <2>3, Zenon DEF RevalidationResolves
<1>5. CASE RevalidationTouches(t)
  <2> DEFINE e == [reval[t].existing EXCEPT !.last_revalidated_at = now]
  <2> USE <1>5
  <2>1. reval[t].existing \in CacheEntry /\ Sound(reval[t].existing)
    BY Zenon DEF RevalidationTouches, EngineInv, SoundTasks
  <2>2. e \in CacheEntry /\ Sound(e)
    BY <2>1, Zenon DEF CacheEntry, Sound, EngineInv, EngineTypeOK
  <2>3. cache' = [cache EXCEPT ![k] = e]
    BY Zenon DEF RevalidationTouches
  <2> HIDE DEF e
  <2>4. /\ cache' \in [Keys -> CacheEntry \cup {NoEntry}]
        /\ \A j \in Keys : cache'[j] # NoEntry => Sound(cache'[j])
    BY <1>1, <2>2, <2>3, Zenon DEF EngineInv, EngineTypeOK, SoundCache
  <2> QED
    BY <1>3, <2>4, FlightFrame, RequestFrame, Zenon DEF RevalidationTouches
<1> QED
  BY <1>4, <1>5, Zenon

\* Prefetch, pre-warming, eviction and the clock.
LEMMA BackgroundStep ==
  ASSUME IInv,
         \/ \E p \in Prefetches : PrefetchPicks(p) \/ PrefetchEnters(p) \/ PrefetchReturns(p)
         \/ \E k \in Keys : WarmStarts(k) \/ WarmEnds(k) \/ Evict(k)
         \/ Tick
  PROVE  IInv'
<1> USE DEF IInv
<1>1. ASSUME NEW p \in Prefetches, PrefetchPicks(p)
      PROVE  IInv'
  <2>1. EngineInv'
    BY <1>1, ZenonT(60) DEF PrefetchPicks, EngineInv, EngineTypeOK, SoundCache, SoundTasks
  <2> QED
    BY <1>1, <2>1, FlightFrame, RequestFrame, ZenonT(60) DEF PrefetchPicks
<1>2. ASSUME NEW p \in Prefetches, PrefetchEnters(p)
      PROVE  IInv'
  <2>1. EngineInv'
    BY <1>2, Zenon DEF PrefetchEnters, EngineInv, EngineTypeOK, SoundCache, SoundTasks
  <2> QED
    BY <1>2, <2>1, EnterKeeps, RequestFrame, SMTT(60), Zenon DEF PrefetchEnters, Callers
<1>3. ASSUME NEW p \in Prefetches, PrefetchReturns(p)
      PROVE  IInv'
  BY <1>3, ReturnKeeps, RequestFrame, EngineFrame, Zenon DEF PrefetchReturns, Callers, engineVars
<1>4. ASSUME NEW k \in Keys, WarmStarts(k)
      PROVE  IInv'
  <2>1. EngineInv'
    BY <1>4, Zenon DEF WarmStarts, EngineInv, EngineTypeOK, SoundCache, SoundTasks
  <2> QED
    BY <1>4, <2>1, FlightFrame, RequestFrame, ZenonT(60) DEF WarmStarts
<1>5. ASSUME NEW k \in Keys, WarmEnds(k)
      PROVE  IInv'
  <2> USE <1>5
  <2>1. /\ cache' \in [Keys -> CacheEntry \cup {NoEntry}]
        /\ \A j \in Keys : cache'[j] # NoEntry => Sound(cache'[j])
    <3>1. CASE UNCHANGED cache
      BY <3>1, Zenon DEF EngineInv, EngineTypeOK, SoundCache
    <3>2. ASSUME NEW o \in Outcomes, cache' = Store(k, o)
          PROVE  /\ cache' \in [Keys -> CacheEntry \cup {NoEntry}]
                 /\ \A j \in Keys : cache'[j] # NoEntry => Sound(cache'[j])
      BY <3>2, StoreSound, SMTT(60), Zenon
    <3> QED
      BY <3>1, <3>2, Zenon DEF WarmEnds
  <2>2. EngineInv'
    BY <2>1, ZenonT(60) DEF WarmEnds, EngineInv, EngineTypeOK, SoundCache, SoundTasks
  <2> QED
    BY <2>2, FlightFrame, RequestFrame, Zenon DEF WarmEnds
<1>6. ASSUME NEW k \in Keys, Evict(k)
      PROVE  IInv'
  <2>1. EngineInv'
    BY <1>6, Zenon DEF Evict, EngineInv, EngineTypeOK, SoundCache, SoundTasks
  <2> QED
    BY <1>6, <2>1, FlightFrame, RequestFrame, ZenonT(60) DEF Evict
<1>7. CASE Tick
  <2>1. EngineInv'
    BY <1>7, BoundsAssumption, SMTT(60), Zenon DEF Tick, EngineInv, EngineTypeOK, SoundCache, SoundTasks
  <2> QED
    BY <1>7, <2>1, FlightFrame, RequestFrame, Zenon DEF Tick
<1> QED
  BY <1>1, <1>2, <1>3, <1>4, <1>5, <1>6, <1>7, Zenon

\* Every step of a request, a flight, a revalidation, a prefetch, pre-warming
\* and eviction preserves the inductive invariant.
THEOREM InductiveInvariant == Spec => []IInv
<1>1. IInv /\ [Next]_vars => IInv'
  <2> SUFFICES ASSUME IInv, [Next]_vars PROVE IInv'
    BY Zenon
  <2>1. CASE UNCHANGED vars
    BY <2>1, FlightFrame, RequestFrame, EngineFrame, Zenon DEF IInv, vars, engineVars
  <2> QED
    BY <2>1, RequestStep, FlightStep, RevalidationStep, BackgroundStep, Zenon DEF Next
<1> QED
  BY <1>1, InitIInv, PTL DEF Spec

\* The engine's variables keep their types on every path of process_dns_query
\* and of the background tasks.
THEOREM TypeCorrect == Spec => []TypeOK
<1>1. IInv => TypeOK
  BY Zenon DEF IInv, EngineInv, EngineTypeOK, RequestInv, RequestTypeOK, FlightInv, TypeOK
<1> QED
  BY <1>1, InductiveInvariant, PTL

\* No writer of the cache stores unvalidated data, or data that stays Fresh
\* longer than the RRSIGs that calculate_cache_ttl looked at.
THEOREM CacheOutlivesNoSignature == Spec => []FreshWithinSignature
<1>1. IInv => FreshWithinSignature
  BY Zenon DEF IInv, EngineInv, SoundCache, Sound, FreshWithinSignature
<1> QED
  BY <1>1, InductiveInvariant, PTL

\* construct_client_response sets AD only where it is justified.
THEOREM AdIsJustified == Spec => []AuthenticAnswers
<1>1. IInv => AuthenticAnswers
  BY Zenon DEF IInv, RequestInv, SoundAnswers, SoundAnswer, AuthenticAnswers, Answered
<1> QED
  BY <1>1, InductiveInvariant, PTL

\* DNSSEC enforcement cannot be bypassed through a shared flight or the cache.
THEOREM EnforcementHolds == Spec => []BogusOnlyToCheckingDisabled
<1>1. IInv => BogusOnlyToCheckingDisabled
  BY Zenon DEF IInv, RequestInv, SoundAnswers, SoundAnswer, BogusOnlyToCheckingDisabled, Answered
<1> QED
  BY <1>1, InductiveInvariant, PTL

\* compute_ttl never hands out more lifetime than the zone granted.
THEOREM TtlsAreAged == Spec => []TtlAged
<1>1. IInv => TtlAged
  BY Zenon DEF IInv, RequestInv, SoundAnswers, SoundAnswer, TtlAged, Answered
<1> QED
  BY <1>1, InductiveInvariant, PTL

\* The in_flight map gates stale revalidation: at most one task per key, and
\* the key is removed on every path by which the task ends.
THEOREM GateIsExact == Spec => []RevalidationGate
<1>1. Init => RevalidationGate
  BY SMTT(60) DEF Init, RevalidationGate, Busy, Idle
<1>2. IInv /\ RevalidationGate /\ [Next]_vars => RevalidationGate'
  <2> SUFFICES ASSUME IInv, RevalidationGate, [Next]_vars
               PROVE  RevalidationGate'
    BY Zenon
  <2>1. reval \in [Revalidations -> Task] /\ in_flight \in SUBSET Keys
    BY Zenon DEF IInv, EngineInv, EngineTypeOK
  <2>2. CASE UNCHANGED <<in_flight, reval>>
    BY <2>2, SMTT(60), Zenon DEF RevalidationGate, Busy
  <2>3. ASSUME NEW r \in Requests, Hit(r), ~UNCHANGED <<in_flight, reval>>
        PROVE  RevalidationGate'
    <3> DEFINE k == key[r]
    <3>1. /\ k \notin in_flight
          /\ in_flight' = in_flight \cup {k}
          /\ SpawnRevalidation(k)
      BY <2>3 DEF Hit, Revalidate
    <3> HIDE DEF k
    <3>2. PICK t \in Revalidations :
            /\ reval[t].pc = "free"
            /\ reval' = [reval EXCEPT ![t] = [pc |-> "resolving", key |-> k,
                                              existing |-> NoEntry]]
      BY <3>1, ZenonT(60) DEF SpawnRevalidation
    <3>3. /\ reval'[t].pc = "resolving" /\ reval'[t].key = k
          /\ \A u \in Revalidations : u # t => reval'[u] = reval[u]
      BY <2>1, <3>2, Zenon
    <3>4. Busy' = Busy \cup {t} /\ t \notin Busy
      BY <3>2, <3>3, Zenon DEF Busy
    <3> QED
      BY <3>1, <3>3, <3>4, SMTT(60), Zenon DEF RevalidationGate, Busy
  <2>4. ASSUME NEW t \in Revalidations, TaskEnds(t), t \in Busy
        PROVE  RevalidationGate'
    <3> USE <2>4
    <3>1. /\ reval'[t].pc = "free"
          /\ \A u \in Revalidations : u # t => reval'[u] = reval[u]
      BY <2>1, Zenon DEF TaskEnds, Idle
    <3>2. Busy' = Busy \ {t}
      BY <3>1, Zenon DEF Busy
    <3>3. \A u \in Busy : u # t => reval[u].key # reval[t].key
      BY Zenon DEF RevalidationGate
    <3> QED
      BY <3>1, <3>2, <3>3, SMTT(60), Zenon DEF RevalidationGate, TaskEnds, Busy
  <2>5. ASSUME NEW t \in Revalidations, reval[t].pc = "resolving", UNCHANGED in_flight,
               reval' = [reval EXCEPT ![t].pc = "touching",
                                      ![t].existing = cache[reval[t].key]]
        PROVE  RevalidationGate'
    <3>1. \A u \in Revalidations :
            reval'[u].key = reval[u].key /\ (reval'[u].pc # "free" <=> reval[u].pc # "free")
      BY <2>1, <2>5, Zenon DEF Task
    <3> USE <3>1
    <3>2. Busy' = Busy
      BY Zenon DEF Busy
    <3>3. Busy \subseteq Revalidations /\ in_flight' = in_flight
      BY <2>5, Zenon DEF Busy
    <3>4. {reval'[u].key : u \in Busy} = {reval[u].key : u \in Busy}
      BY <3>3, Zenon
    <3> QED
      BY <3>2, <3>3, <3>4, SMTT(60), Zenon DEF RevalidationGate
  <2>6. ASSUME NEW t \in Revalidations, RevalidationResolves(t) \/ RevalidationTouches(t)
        PROVE  RevalidationGate'
    <3>1. t \in Busy
      BY <2>6, SMTT(60), Zenon DEF RevalidationResolves, RevalidationTouches, Busy
    <3> QED
      BY <2>4, <2>5, <2>6, <3>1, Zenon DEF RevalidationResolves, RevalidationTouches
  <2> USE <2>2
  <2>7. ASSUME NEW r \in Requests, Request(r)
        PROVE  RevalidationGate'
    BY <2>3, <2>7, ZenonT(60) DEF Request, Reject, Receive, Miss, EnterFlight,
       FlightReturns, GoDirect, DirectReturns, Disconnect
  <2>8. CASE UNCHANGED vars
    BY <2>8, Zenon DEF vars
  <2> QED
    BY <2>6, <2>7, <2>8, ZenonT(60) DEF Next, StartResolving, EndResolving, PrefetchPicks,
       PrefetchEnters, PrefetchReturns, WarmStarts, WarmEnds, Evict, Tick
<1> QED
  BY <1>1, <1>2, InductiveInvariant, PTL DEF Spec

\* Requests and prefetches drive single-flight only by the steps of run: the
\* engine implements SingleFlight with its own calls as the callers.
THEOREM EngineUsesSingleFlight == Spec => UsesSingleFlight
<1>1. Init => SF!FlightInit
  BY Zenon DEF Init
<1>2. IInv /\ [Next]_vars => [SF!FlightNext]_(SF!sfVars)
  <2> SUFFICES ASSUME IInv, [Next]_vars, ~UNCHANGED sfVars
               PROVE  SF!FlightNext
    BY Zenon DEF sfVars, SF!sfVars
  <2>1. Requests \subseteq Callers /\ Prefetches \subseteq Callers
    BY Zenon DEF Callers
  <2>2. ASSUME NEW r \in Requests, Request(r)
        PROVE  SF!FlightNext
    <3>1. SF!Enter(r) \/ SF!Return(r) \/ SF!Drop(r)
      BY <2>2, ZenonT(60) DEF Request, Reject, Receive, Hit, Miss, EnterFlight, FlightReturns,
                  GoDirect, DirectReturns, Disconnect
    <3> QED
      BY <2>1, <3>1, Zenon DEF SF!FlightNext
  <2>3. ASSUME NEW c \in Callers, StartResolving(c) \/ EndResolving(c)
        PROVE  SF!FlightNext
    <3>1. Failed \in Results
      BY Zenon DEF Results
    <3>2. \A o \in Outcomes : [msg |-> o, cached_at |-> now] \in Results
      BY Zenon DEF Results, Resolved, IInv, EngineInv, EngineTypeOK
    <3>3. ASSUME NEW v \in Results, SF!Finish(c, v)
          PROVE  SF!FlightNext
      BY <3>3, Zenon DEF SF!FlightNext
    <3>4. CASE SF!Acquire(c)
      BY <3>4, Zenon DEF SF!FlightNext
    <3> QED
      BY <2>3, <3>1, <3>2, <3>3, <3>4, ZenonT(60) DEF StartResolving, EndResolving
  <2>4. ASSUME NEW p \in Prefetches,
               PrefetchPicks(p) \/ PrefetchEnters(p) \/ PrefetchReturns(p)
        PROVE  SF!FlightNext
    <3>1. SF!Enter(p) \/ SF!Return(p)
      BY <2>4, Zenon DEF PrefetchPicks, PrefetchEnters, PrefetchReturns
    <3> QED
      BY <2>1, <3>1, SMTT(60), Zenon DEF SF!FlightNext
  <2> QED
    BY <2>2, <2>3, <2>4, ZenonT(60)
    DEF Next, vars, RevalidationResolves, RevalidationTouches, WarmStarts, WarmEnds,
        Evict, Tick
<1> QED
  BY <1>1, <1>2, InductiveInvariant, PTL DEF Spec, UsesSingleFlight, SF!FlightSpec

(***************************************************************************)
(* CachePersist: what one saver at a time leaves behind, for any number of *)
(* inodes, of chunks and of changes, whichever calls fail and wherever the *)
(* process stops.  (CachePersist_two shows that two savers do not keep     *)
(* this.)                                                                  *)
(***************************************************************************)
OneSaver == \A s, u \in Savers : s = u

(***************************************************************************)
(* The inductive invariant: the saver writes, chunk by chunk, to the inode *)
(* linked as the temporary file, which is never the one linked as the      *)
(* cache file; and the cache file holds the version it was renamed with,   *)
(* but for its last chunk.                                                 *)
(***************************************************************************)
\* Inode i holds version v, apart possibly from the last chunk.
Holds(i, v) ==
  \A p \in 1..Chunks : disk[i][p] = v \/ (p = Chunks /\ disk[i][p] = Hole)

Saving(s) ==
  saver[s].at # "idle" =>
    /\ tmp # NoInode /\ saver[s].ino = tmp
    /\ saver[s].at = "collect" => saver[s].pos = 0
    /\ saver[s].at = "writing" =>
         /\ saver[s].pos <= Chunks - 1
         /\ \A p \in 1..saver[s].pos : disk[tmp][p] = saver[s].version
         /\ \A p \in (saver[s].pos + 1)..Chunks : disk[tmp][p] = Hole
    /\ saver[s].at = "collect" => \A p \in 1..Chunks : disk[tmp][p] = Hole
    /\ saver[s].at = "rename" => Holds(tmp, saver[s].version)

PersistInv ==
  /\ PersistTypeOK
  /\ tmp # NoInode => tmp # path
  /\ path # NoInode => Holds(path, saved)
  /\ \A s \in Savers : Saving(s)

\* At the start there are no files and no save.
LEMMA InitPersistInv == PersistInit => PersistInv
BY ChunksAssumption
   DEF PersistInit, PersistInv, PersistTypeOK, Saving, Holds, Quiet, Blank, Empty, Hole

\* Create starts over on the temporary file, or on an inode in no use.
LEMMA CreateKeeps ==
  ASSUME OneSaver, PersistInv, NEW s \in Savers, Create(s)
  PROVE  PersistInv'
<1> USE ChunksAssumption, NoInodeAssumption
<1>1. CASE UNCHANGED <<tmp, disk, saver>>
  BY <1>1 DEF Create, PersistInv, PersistTypeOK, Saving, Holds
<1>2. ASSUME NEW i \in IF tmp = NoInode THEN Inodes \ InUse ELSE {tmp},
             tmp' = i, disk' = [disk EXCEPT ![i] = Blank],
             saver' = [saver EXCEPT ![s] = Opened(i)]
      PROVE  PersistInv'
  <2> USE <1>2
  <2>1. i \in Inodes /\ i # path
    BY Zenon DEF PersistInv, PersistTypeOK, InUse
  <2> USE <2>1
  <2>2. PersistTypeOK'
    BY DEF Create, PersistInv, PersistTypeOK, Opened, Blank, Empty, Hole
  <2>3. \A u \in Savers : Saving(u)'
    BY Zenon DEF OneSaver, PersistInv, PersistTypeOK, Saving, Holds, Opened, Blank
  <2> QED
    BY <2>2, <2>3, Zenon DEF Create, PersistInv, PersistTypeOK, Holds
<1> QED
  BY <1>1, <1>2, Zenon DEF Create

\* A chunk is written within the file.
LEMMA PutTyped ==
  ASSUME PersistTypeOK, NEW s \in Savers, saver[s].ino \in Inodes, Put(s)
  PROVE  disk' \in [Inodes -> [1..Chunks -> Nat \cup {Hole}]]
<1> DEFINE i == saver[s].ino
           row == [disk[i] EXCEPT ![saver[s].pos + 1] = saver[s].version]
<1>1. saver[s].version \in Nat /\ disk[i] \in [1..Chunks -> Nat \cup {Hole}]
  BY Zenon DEF PersistTypeOK
<1>2. row \in [1..Chunks -> Nat \cup {Hole}]
  BY <1>1, ZenonT(60)
<1>3. disk' = [disk EXCEPT ![i] = row]
  BY Zenon DEF Put
<1> QED
  BY <1>2, <1>3, Zenon DEF PersistTypeOK

\* Writes go to the temporary file, in order.
LEMMA WriteKeeps ==
  ASSUME OneSaver, PersistInv, NEW s \in Savers, Collect(s) \/ Write(s) \/ Close(s)
  PROVE  PersistInv'
<1> USE ChunksAssumption, NoInodeAssumption
<1>1. tmp \in Inodes /\ tmp # path /\ saver[s].ino = tmp /\ Saving(s)
  BY Zenon DEF PersistInv, PersistTypeOK, Saving, Collect, Write, Close
<1>2. CASE Collect(s)
  <2> USE <1>2
  <2>1. PersistTypeOK'
    BY ZenonT(60) DEF Collect, PersistInv, PersistTypeOK
  <2>2. \A u \in Savers : Saving(u)'
    BY <1>1, SMTT(60), Zenon DEF Collect, OneSaver, PersistInv, PersistTypeOK, Saving
  <2> QED
    BY <2>1, <2>2, Zenon DEF Collect, PersistInv, Holds
<1>3. CASE Write(s) /\ Put(s) /\ saver' = [saver EXCEPT ![s].pos = @ + 1]
  <2> USE <1>3
  <2>1. PersistTypeOK'
    <3>1. disk' \in [Inodes -> [1..Chunks -> Nat \cup {Hole}]]
      BY <1>1, PutTyped, Zenon DEF PersistInv
    <3>2. saver[s].pos + 1 \in 0..Chunks
      BY DEF Write, PersistInv, PersistTypeOK
    <3>3. saver' = [saver EXCEPT ![s] = [saver[s] EXCEPT !.pos = saver[s].pos + 1]]
      BY Zenon
    <3>4. saver' \in [Savers -> [at : {"idle", "collect", "writing", "rename"},
                                 ino : Inodes \cup {NoInode}, version : Nat, pos : 0..Chunks]]
      BY <3>2, <3>3, ZenonT(60) DEF PersistInv, PersistTypeOK
    <3>5. UNCHANGED <<alive, content, newest, tmp, path, saved>>
      BY Zenon DEF Write
    <3> QED
      BY <3>1, <3>4, <3>5, Zenon DEF PersistInv, PersistTypeOK
  <2>2. \A u \in Savers : Saving(u)'
    BY <1>1 DEF Write, Put, OneSaver, PersistInv, PersistTypeOK, Saving
  <2> QED
    BY <1>1, <2>1, <2>2, SMTT(60), Zenon DEF Write, Put, PersistInv, PersistTypeOK, Holds
<1>4. CASE Write(s) /\ Fails(s) /\ UNCHANGED disk
  BY <1>4, SMTT(60), Zenon DEF Write, Fails, OneSaver, PersistInv, PersistTypeOK, Saving, Holds, Quiet, Empty
<1>5. CASE Close(s)
  <2> USE <1>1, <1>5
  <2>1. PersistTypeOK'
    <3>1. disk' \in [Inodes -> [1..Chunks -> Nat \cup {Hole}]]
      BY PutTyped, Zenon DEF PersistInv, PersistTypeOK, Close
    <3> QED
      BY <3>1 DEF Close, PersistInv, PersistTypeOK
  <2>2. \A u \in Savers : Saving(u)'
    <3>1. /\ saver'[s].at = "rename" /\ saver'[s].ino = tmp
          /\ saver'[s].version = saver[s].version
      BY Zenon DEF Close, PersistInv, PersistTypeOK
    <3>2. ASSUME NEW p \in 1..Chunks
          PROVE  \/ disk'[tmp][p] = saver[s].version
                 \/ p = Chunks /\ disk'[tmp][p] = Hole
      BY DEF Close, Put, PersistInv, PersistTypeOK, Saving
    <3>3. tmp' = tmp
      BY Zenon DEF Close
    <3> QED
      BY <3>1, <3>2, <3>3, Zenon DEF OneSaver, Saving, Holds
  <2> QED
    BY <2>1, <2>2, SMTT(60), Zenon DEF Close, Put, PersistInv, PersistTypeOK, Holds
<1> QED
  BY <1>2, <1>3, <1>4, <1>5, Zenon DEF Write

\* A rename publishes what the save has written.
LEMMA RenameKeeps ==
  ASSUME OneSaver, PersistInv, NEW s \in Savers, Rename(s)
  PROVE  PersistInv'
<1> USE ChunksAssumption, NoInodeAssumption
<1>1. tmp \in Inodes /\ Holds(tmp, saver[s].version)
  BY Zenon DEF PersistInv, PersistTypeOK, Saving, Rename
<1>2. PersistTypeOK'
  BY DEF Rename, Fails, PersistInv, PersistTypeOK, Quiet, Empty
<1>3. \A u \in Savers : Saving(u)'
  BY Zenon DEF Rename, Fails, OneSaver, PersistInv, PersistTypeOK, Saving, Quiet
<1> QED
  BY <1>1, <1>2, <1>3, Zenon DEF Rename, PersistInv, Holds

\* Every step of a save, a change, a stop and a start keep the invariant.
THEOREM PersistInductive == OneSaver /\ PersistSpec => []PersistInv
<1>1. OneSaver /\ PersistInv /\ [PersistNext]_persistVars => PersistInv'
  <2> SUFFICES ASSUME OneSaver, PersistInv, [PersistNext]_persistVars PROVE PersistInv'
    BY Zenon
  <2> USE ChunksAssumption, NoInodeAssumption
  <2>1. CASE Change
    BY <2>1 DEF Change, PersistInv, PersistTypeOK, Saving, Holds
  <2>2. CASE Stop
    <3> USE <2>2
    <3>1. PersistTypeOK'
      <4>1. alive' \in BOOLEAN
        BY ZenonT(60) DEF Stop
      <4>2. Quiet \in [at : {"idle", "collect", "writing", "rename"},
                       ino : Inodes \cup {NoInode}, version : Nat, pos : 0..Chunks]
        BY DEF Quiet, Empty
      <4> QED
        BY <4>1, <4>2, Zenon DEF Stop, PersistInv, PersistTypeOK, Empty
    <3>2. \A u \in Savers : Saving(u)'
      BY Zenon DEF Stop, Saving, Quiet
    <3> QED
      BY <3>1, <3>2, Zenon DEF Stop, PersistInv, Holds
  <2>3. CASE Restart
    <3>1. path # NoInode /\ Whole(path) => disk[path][1] \in Nat
      BY DEF PersistInv, PersistTypeOK, Whole
    <3> QED
      BY <2>3, <3>1, Zenon DEF Restart, PersistInv, PersistTypeOK, Saving, Holds, Empty
  <2>4. CASE UNCHANGED persistVars
    BY <2>4, SMTT(60), Zenon DEF persistVars, PersistInv, PersistTypeOK, Saving, Holds
  <2> QED
    BY <2>1, <2>2, <2>3, <2>4, CreateKeeps, WriteKeeps, RenameKeeps, Zenon DEF PersistNext
<1>2. OneSaver => OneSaver'
  BY Zenon DEF OneSaver
<1> QED
  BY <1>1, <1>2, InitPersistInv, PTL DEF PersistSpec

\* With one saver the variables of persistence keep their types.
THEOREM PersistTypeCorrect == OneSaver /\ PersistSpec => []PersistTypeOK
<1>1. PersistInv => PersistTypeOK
  BY Zenon DEF PersistInv
<1> QED
  BY <1>1, PersistInductive, PTL

\* save_cache_to_disk publishes all of a save but, at worst, its last buffer.
THEOREM TailAloneIsLost == OneSaver /\ PersistSpec => []OnlyTailLost
<1>1. PersistInv => OnlyTailLost
  BY ChunksAssumption DEF PersistInv, PersistTypeOK, OnlyTailLost, Holds, Hole
<1> QED
  BY <1>1, PersistInductive, PTL

\* load_cache_from_disk restores the save that was last renamed, or nothing.
THEOREM RestoresWhatWasSaved == OneSaver /\ PersistSpec => RestoresLastSaveOrNothing
<1>1. PersistInv /\ [PersistNext]_persistVars => [~alive /\ alive' => content' \in {saved, Empty}]_persistVars
  <2> SUFFICES ASSUME PersistInv, PersistNext, ~alive, alive' PROVE content' \in {saved, Empty}
    BY Zenon
  <2>1. Restart
    BY ZenonT(60) DEF PersistNext, Create, Collect, Write, Close, Rename, Change, Stop
  <2>2. path # NoInode /\ Whole(path) => disk[path][1] = saved
    BY ChunksAssumption DEF PersistInv, PersistTypeOK, Holds, Whole, Hole
  <2> QED
    BY <2>1, <2>2, Zenon DEF Restart
<1> QED
  BY <1>1, PersistInductive, PTL DEF PersistSpec, RestoresLastSaveOrNothing
=============================================================================
