------------------------------ MODULE Resolver ------------------------------
(***************************************************************************)
(* The query engine (src/engine) over the answer cache (src/cache.rs):     *)
(* process_dns_query with its hit, stale and miss paths, the single-flight *)
(* gate of the miss path, the background revalidation of stale entries     *)
(* with its own gate, prefetch (src/prefetch.rs), pre-warming (src/main.rs)*)
(* and eviction, all of which read and write one cache.                    *)
(*                                                                         *)
(* A request is one call of process_dns_query.  What recursor.resolve and  *)
(* the DNSSEC validator make of a name is an outcome: the response code,   *)
(* the validator's verdict, the smallest TTL and the (absolute) expiration *)
(* of the RRSIGs.  The validator reads the clock before the engine does,   *)
(* so a Secure outcome may have expired by the time it is stamped.  Time   *)
(* is in seconds.                                                          *)
(***************************************************************************)
EXTENDS Integers

CONSTANTS
  Requests,       \* calls of process_dns_query
  DohRequests,    \* those whose future is dropped when the client goes away
  Flags,          \* [cd, ad]: checking disabled, the client asks for AD
  Prefetches,     \* refreshes the prefetch loop may spawn
  Revalidations,  \* slots for background revalidations
  Keys,           \* cache keys
  WarmKeys,       \* keys the pre-warming list names
  Outcomes,       \* [rcode, status, ttl, sigexp]
  Unreadable,     \* those whose cached wire does not decode, or encode, again
  Failed,         \* recursor.resolve returned an error
  CacheModes,     \* what CACHE_ENABLED may be
  DnssecEnforce,  \* DNSSEC_ENFORCE
  MaxStale,       \* MAX_STALE_SECS
  StaleServeTtl,  \* STALE_SERVE_TTL
  PrefetchPct,    \* CACHE_PREFETCH_THRESHOLD_PCT
  MaxTime,        \* bound on the clock
  NoCaller, NoValue, NoEntry, NoResponse

Status == {"Secure", "InsecureUnsigned", "InsecureUnknown", "Bogus"}
Rcode == {"NoError", "NXDomain", "YXDomain"}

ASSUME OutcomesAssumption ==
  Outcomes \subseteq [rcode : Rcode, status : Status, ttl : Nat, sigexp : Nat]
ASSUME UnreadableAssumption == Unreadable \subseteq Outcomes
ASSUME FlagsAssumption == Flags \subseteq [cd : BOOLEAN, ad : BOOLEAN]
ASSUME ActorsAssumption ==
  /\ DohRequests \subseteq Requests
  /\ Requests \cap Prefetches = {}
  /\ NoCaller \notin Requests \cup Prefetches
ASSUME KeysAssumption == WarmKeys \subseteq Keys /\ Keys # {}
ASSUME BoundsAssumption ==
  /\ MaxStale \in Nat /\ StaleServeTtl \in Nat
  /\ PrefetchPct \in 0..90 /\ MaxTime \in Nat
ASSUME ConfigAssumption == CacheModes \subseteq BOOLEAN /\ DnssecEnforce \in BOOLEAN

VARIABLES
  enabled,    \* cfg.enabled: is the cache used?
  now,        \* now_secs()
  cache,      \* cache[k]: the CacheEntry of k
  in_flight,  \* keys whose revalidation gate is taken
  reval,      \* reval[t]: a revalidation task
  warm,       \* warm[k]: progress of pre-warming on k
  scheduled,  \* prefetches spawned, sleeping off their jitter
  stage,      \* stage[r]: where request r is
  flags,      \* flags[r]: its CD and AD/DO bits
  at,         \* at[r]: its `now`, read before the cache lookup
  resp,       \* resp[r]: what it returned
  flights, permit, value, pc, key, cell  \* SingleFlight

sfVars == <<flights, permit, value, pc, key, cell>>
reqVars == <<stage, flags, at, resp>>
vars == <<enabled, now, cache, in_flight, reval, warm, scheduled, reqVars, sfVars>>

Callers == Requests \cup Prefetches

\* struct Resolved, or the None that stands for an error.
Resolved == [msg : Outcomes, cached_at : 0..MaxTime]
Results == Resolved \cup {Failed}

SF == INSTANCE SingleFlight WITH Cancellable <- DohRequests, Values <- Results

\* struct CacheEntry: the wire holds the message, dnssec_status its verdict.
CacheEntry == [msg : Outcomes, min_ttl : Nat, cached_at : 0..MaxTime,
               last_revalidated_at : 0..MaxTime]

Task == [pc : {"free", "resolving", "touching"}, key : Keys,
         existing : CacheEntry \cup {NoEntry}]

(***************************************************************************)
(* Pure parts: freshness, cacheability and effective TTL.                  *)
(***************************************************************************)
\* saturating_sub
Monus(a, b) == IF a > b THEN a - b ELSE 0

freshness_at(e, t) ==
  LET age == Monus(t, e.cached_at) IN
  IF age < e.min_ttl THEN "Fresh"
  ELSE IF age < e.min_ttl + MaxStale THEN "Stale"
  ELSE "Expired"

is_cacheable(o) == o.rcode \in {"NoError", "NXDomain"}
\* Variant of is_cacheable_dnssec: every verdict may be cached.
cacheable_any_status(o) == o.status \in Status

is_cacheable_dnssec(o) == o.status \in {"Secure", "InsecureUnsigned"}

\* min(RR TTL, remaining RRSIG validity) for Secure data, 0 once it expired.
calculate_cache_ttl(o, t) ==
  IF o.status = "Secure" /\ Monus(o.sigexp, t) < o.ttl
  THEN Monus(o.sigexp, t)
  ELSE o.ttl

NewEntry(o) ==
  [msg |-> o, min_ttl |-> calculate_cache_ttl(o, now), cached_at |-> now,
   last_revalidated_at |-> now]

\* The insert every resolving path ends with.  A message that does not encode
\* is not inserted, which Evict right after the insert amounts to.
Store(k, o) ==
  IF is_cacheable(o) /\ is_cacheable_dnssec(o) /\ calculate_cache_ttl(o, now) > 0
  THEN [cache EXCEPT ![k] = NewEntry(o)]
  ELSE cache

resolve_and_validate(k, o) == IF enabled THEN Store(k, o) ELSE cache

(***************************************************************************)
(* The answer a client gets: item is a CacheEntry or a Resolved.           *)
(***************************************************************************)
\* Variant of compute_ttl: the age of the item is forgotten.
ttl_not_aged(item, fresh, t) ==
  IF fresh = "Fresh" THEN item.msg.ttl ELSE StaleServeTtl

compute_ttl(item, fresh, t) ==
  IF fresh = "Fresh" THEN Monus(item.msg.ttl, Monus(t, item.cached_at))
                     ELSE StaleServeTtl

\* Variant of construct_client_response: AD is set on stale answers too.
response_ad_when_stale(r, item, fresh, from) ==
  [outcome |-> "Success", from |-> from, freshness |-> fresh, item |-> item,
   ad |-> item.msg.status = "Secure" /\ flags[r].ad /\ ~flags[r].cd,
   ttl |-> compute_ttl(item, fresh, at[r])]

construct_client_response(r, item, fresh, from) ==
  [outcome |-> "Success", from |-> from, freshness |-> fresh, item |-> item,
   ad |-> /\ item.msg.status = "Secure" /\ fresh = "Fresh"
          /\ flags[r].ad /\ ~flags[r].cd,
   ttl |-> compute_ttl(item, fresh, at[r])]

Answers ==
  [outcome : {"Success"}, from : {"cache", "flight", "direct"},
   freshness : {"Fresh", "Stale"}, item : CacheEntry \cup Resolved,
   ad : BOOLEAN, ttl : Nat]
Refusals == [outcome : {"Malformed", "Dropped", "Truncated", "ServFail", "Geo"}]
Refuse(o) == [outcome |-> o]

Stages == {"new", "parsed", "missed", "flight", "direct", "done", "gone"}

TypeOK ==
  /\ enabled \in CacheModes
  /\ now \in 0..MaxTime
  /\ cache \in [Keys -> CacheEntry \cup {NoEntry}]
  /\ in_flight \in SUBSET Keys
  /\ reval \in [Revalidations -> Task]
  /\ warm \in [Keys -> {"todo", "resolving", "done"}]
  /\ scheduled \in SUBSET Prefetches
  /\ stage \in [Requests -> Stages]
  /\ flags \in [Requests -> Flags]
  /\ at \in [Requests -> 0..MaxTime]
  /\ resp \in [Requests -> Answers \cup Refusals \cup {NoResponse}]
  /\ SF!FlightTypeOK

Idle == [pc |-> "free", key |-> CHOOSE k \in Keys : TRUE, existing |-> NoEntry]

Init ==
  /\ enabled \in CacheModes
  /\ now = 0
  /\ cache = [k \in Keys |-> NoEntry]
  /\ in_flight = {}
  /\ reval = [t \in Revalidations |-> Idle]
  /\ warm = [k \in Keys |-> IF k \in WarmKeys THEN "todo" ELSE "done"]
  /\ scheduled = {}
  /\ stage = [r \in Requests |-> "new"]
  /\ flags \in [Requests -> Flags]
  /\ at = [r \in Requests |-> 0]
  /\ resp = [r \in Requests |-> NoResponse]
  /\ SF!FlightInit

Reply(r, a) ==
  /\ resp' = [resp EXCEPT ![r] = a]
  /\ stage' = [stage EXCEPT ![r] = "done"]
  /\ UNCHANGED <<flags, at>>

Goto(r, s) ==
  /\ stage' = [stage EXCEPT ![r] = s]
  /\ UNCHANGED <<flags, at, resp>>

(***************************************************************************)
(* process_dns_query                                                       *)
(***************************************************************************)
\* Refused before the cache is looked at: malformed, rate limited (dropped or
\* challenged with TC=1), or answered by the geo-authoritative layer.
Reject(r) ==
  /\ stage[r] = "new"
  /\ \E o \in {"Malformed", "Dropped", "Truncated", "Geo"} : Reply(r, Refuse(o))
  /\ UNCHANGED <<enabled, now, cache, in_flight, reval, warm, scheduled, sfVars>>

\* Admitted; the clock is read once, here.
Receive(r) ==
  /\ stage[r] = "new"
  /\ stage' = [stage EXCEPT ![r] = "parsed"]
  /\ at' = [at EXCEPT ![r] = now]
  /\ UNCHANGED <<enabled, now, cache, in_flight, reval, warm, scheduled, flags, resp, sfVars>>

\* A response is returned as it is, or challenged over UDP for its size.
Deliver(r, a) == Reply(r, a) \/ Reply(r, Refuse("Truncated"))

SpawnRevalidation(k) ==
  \E t \in Revalidations :
    /\ reval[t].pc = "free"
    /\ reval' = [reval EXCEPT ![t] = [pc |-> "resolving", key |-> k, existing |-> NoEntry]]

\* Variant of Revalidate: the result of the gate's insert is not looked at.
RevalidateUngated(k) == in_flight' = in_flight \cup {k} /\ SpawnRevalidation(k)

\* The gate of stale revalidation: insert the key, spawn if it was vacant.
Revalidate(k) ==
  \/ k \in in_flight /\ UNCHANGED <<in_flight, reval>>
  \/ /\ k \notin in_flight
     /\ in_flight' = in_flight \cup {k}
     /\ SpawnRevalidation(k)

Usable(r) ==
  /\ enabled
  /\ cache[key[r]] # NoEntry
  /\ freshness_at(cache[key[r]], at[r]) # "Expired"

\* The hit path.  An entry whose wire does not decode falls through to a miss.
Hit(r) ==
  /\ stage[r] = "parsed"
  /\ Usable(r)
  /\ LET e == cache[key[r]]
         f == freshness_at(e, at[r])
     IN  /\ IF f = "Stale" THEN Revalidate(key[r]) ELSE UNCHANGED <<in_flight, reval>>
         /\ IF e.msg \in Unreadable
            THEN Goto(r, "missed")
            ELSE Deliver(r, construct_client_response(r, e, f, "cache"))
  /\ UNCHANGED <<enabled, now, cache, warm, scheduled, sfVars>>

Miss(r) ==
  /\ stage[r] = "parsed"
  /\ ~Usable(r)
  /\ Goto(r, "missed")
  /\ UNCHANGED <<enabled, now, cache, in_flight, reval, warm, scheduled, sfVars>>

\* The miss path: single-flight, or without the cache a resolution of its own.
EnterFlight(r) ==
  /\ stage[r] = "missed" /\ enabled
  /\ SF!Enter(r)
  /\ Goto(r, "flight")
  /\ UNCHANGED <<enabled, now, cache, in_flight, reval, warm, scheduled>>

GoDirect(r) ==
  /\ stage[r] = "missed" /\ ~enabled
  /\ Goto(r, "direct")
  /\ UNCHANGED <<enabled, now, cache, in_flight, reval, warm, scheduled, sfVars>>

\* From the resolution to the client: errors, DNSSEC enforcement, the answer.
Adapt(r, res, from) ==
  \/ res = Failed /\ Reply(r, Refuse("ServFail"))
  \/ /\ res # Failed
     /\ IF res.msg.status = "Bogus" /\ DnssecEnforce /\ ~flags[r].cd
        THEN Reply(r, Refuse("ServFail"))
        ELSE \/ Deliver(r, construct_client_response(r, res, "Fresh", from))
             \/ Reply(r, Refuse("ServFail"))  \* it does not encode

FlightReturns(r) ==
  /\ stage[r] = "flight"
  /\ SF!Return(r)
  /\ Adapt(r, value[cell[r]], "flight")
  /\ UNCHANGED <<enabled, now, cache, in_flight, reval, warm, scheduled>>

DirectReturns(r) ==
  /\ stage[r] = "direct"
  /\ \/ Adapt(r, Failed, "direct") /\ UNCHANGED cache
     \/ \E o \in Outcomes :
          /\ Adapt(r, [msg |-> o, cached_at |-> now], "direct")
          /\ cache' = resolve_and_validate(key[r], o)
  /\ UNCHANGED <<enabled, now, in_flight, reval, warm, scheduled, sfVars>>

\* The DoH client goes away while the handler awaits the resolution.
Disconnect(r) ==
  /\ r \in DohRequests
  /\ \/ stage[r] = "flight" /\ SF!Drop(r)
     \/ stage[r] = "direct" /\ UNCHANGED sfVars
  /\ Goto(r, "gone")
  /\ UNCHANGED <<enabled, now, cache, in_flight, reval, warm, scheduled>>

(***************************************************************************)
(* The closure of single-flight, whoever runs it.                          *)
(***************************************************************************)
StartResolving(c) ==
  /\ SF!Acquire(c)
  /\ UNCHANGED <<enabled, now, cache, in_flight, reval, warm, scheduled, reqVars>>

EndResolving(c) ==
  /\ \/ SF!Finish(c, Failed) /\ UNCHANGED cache
     \/ \E o \in Outcomes :
          /\ SF!Finish(c, [msg |-> o, cached_at |-> now])
          /\ cache' = resolve_and_validate(key[c], o)
  /\ UNCHANGED <<enabled, now, in_flight, reval, warm, scheduled, reqVars>>

(***************************************************************************)
(* Background work on the cache.                                           *)
(***************************************************************************)
\* Variant of TaskEnds: the key is left in in_flight.
TaskEndsGated(t) == reval' = [reval EXCEPT ![t] = Idle] /\ UNCHANGED in_flight

TaskEnds(t) ==
  /\ reval' = [reval EXCEPT ![t] = Idle]
  /\ in_flight' = in_flight \ {reval[t].key}

\* The revalidation's resolution ends.  A Bogus or failed one keeps the entry;
\* one that may not be cached reads the entry, to mark it as revalidated.
RevalidationResolves(t) ==
  /\ reval[t].pc = "resolving"
  /\ LET k == reval[t].key IN
     \/ UNCHANGED cache /\ TaskEnds(t)  \* recursor.resolve failed
     \/ \E o \in Outcomes :
          \/ /\ o.status = "Bogus"
             /\ UNCHANGED cache
             /\ TaskEnds(t)
          \/ /\ is_cacheable(o) /\ is_cacheable_dnssec(o)
             /\ cache' = Store(k, o)
             /\ TaskEnds(t)
          \/ /\ o.status # "Bogus" /\ ~(is_cacheable(o) /\ is_cacheable_dnssec(o))
             /\ UNCHANGED cache
             /\ IF cache[k] = NoEntry
                THEN TaskEnds(t)
                ELSE /\ reval' = [reval EXCEPT ![t].pc = "touching",
                                               ![t].existing = cache[k]]
                     /\ UNCHANGED in_flight
  /\ UNCHANGED <<enabled, now, warm, scheduled, reqVars, sfVars>>

\* Variant of RevalidationTouches: marking the entry makes it Fresh again.
TouchRenews(t) ==
  /\ reval[t].pc = "touching"
  /\ cache' = [cache EXCEPT ![reval[t].key] =
                 [reval[t].existing EXCEPT !.cached_at = now, !.last_revalidated_at = now]]
  /\ TaskEnds(t)
  /\ UNCHANGED <<enabled, now, warm, scheduled, reqVars, sfVars>>

\* It writes back what it read, whatever has been inserted in between.
RevalidationTouches(t) ==
  /\ reval[t].pc = "touching"
  /\ cache' = [cache EXCEPT ![reval[t].key] =
                 [reval[t].existing EXCEPT !.last_revalidated_at = now]]
  /\ TaskEnds(t)
  /\ UNCHANGED <<enabled, now, warm, scheduled, reqVars, sfVars>>

\* prefetch_loop picks a Fresh entry near its end; its hits are not modelled.
PrefetchPicks(p) ==
  /\ enabled
  /\ p \notin scheduled /\ pc[p] = "idle"
  /\ LET e == cache[key[p]] IN
     /\ e # NoEntry
     /\ freshness_at(e, now) = "Fresh"
     /\ Monus(e.min_ttl, Monus(now, e.cached_at)) <= (e.min_ttl * PrefetchPct) \div 100
  /\ scheduled' = scheduled \cup {p}
  /\ UNCHANGED <<enabled, now, cache, in_flight, reval, warm, reqVars, sfVars>>

\* Variant of PrefetchEnters: the refresh registers a flight of its own.
PrefetchBypasses(p) ==
  /\ p \in scheduled
  /\ pc' = [pc EXCEPT ![p] = "waiting"]
  /\ cell' = [cell EXCEPT ![p] = p]
  /\ flights' = [flights EXCEPT ![key[p]] = p]
  /\ scheduled' = scheduled \ {p}
  /\ UNCHANGED <<enabled, now, cache, in_flight, reval, warm, reqVars, permit, value, key>>

\* After its jitter the refresh goes through single-flight.
PrefetchEnters(p) ==
  /\ p \in scheduled
  /\ SF!Enter(p)
  /\ scheduled' = scheduled \ {p}
  /\ UNCHANGED <<enabled, now, cache, in_flight, reval, warm, reqVars>>

PrefetchReturns(p) ==
  /\ SF!Return(p)
  /\ UNCHANGED <<enabled, now, cache, in_flight, reval, warm, scheduled, reqVars>>

\* preload_domains: skip a key that is in the cache, else resolve it.
WarmStarts(k) ==
  /\ warm[k] = "todo"
  /\ warm' = [warm EXCEPT ![k] = IF cache[k] = NoEntry THEN "resolving" ELSE "done"]
  /\ UNCHANGED <<enabled, now, cache, in_flight, reval, scheduled, reqVars, sfVars>>

WarmEnds(k) ==
  /\ warm[k] = "resolving"
  /\ warm' = [warm EXCEPT ![k] = "done"]
  /\ UNCHANGED cache \/ \E o \in Outcomes : cache' = Store(k, o)
  /\ UNCHANGED <<enabled, now, in_flight, reval, scheduled, reqVars, sfVars>>

\* moka drops an entry when the cache is at its capacity.
Evict(k) ==
  /\ cache[k] # NoEntry
  /\ cache' = [cache EXCEPT ![k] = NoEntry]
  /\ UNCHANGED <<enabled, now, in_flight, reval, warm, scheduled, reqVars, sfVars>>

Tick ==
  /\ now < MaxTime
  /\ now' = now + 1
  /\ UNCHANGED <<enabled, cache, in_flight, reval, warm, scheduled, reqVars, sfVars>>

Request(r) ==
  \/ Reject(r) \/ Receive(r) \/ Hit(r) \/ Miss(r)
  \/ EnterFlight(r) \/ FlightReturns(r)
  \/ GoDirect(r) \/ DirectReturns(r)
  \/ Disconnect(r)

Next ==
  \/ \E r \in Requests : Request(r)
  \/ \E c \in Callers : StartResolving(c) \/ EndResolving(c)
  \/ \E t \in Revalidations : RevalidationResolves(t) \/ RevalidationTouches(t)
  \/ \E p \in Prefetches : PrefetchPicks(p) \/ PrefetchEnters(p) \/ PrefetchReturns(p)
  \/ \E k \in Keys : WarmStarts(k) \/ WarmEnds(k) \/ Evict(k)
  \/ Tick

Spec == Init /\ [][Next]_vars

(***************************************************************************)
(* The runtime polls every task that can run.  Clients need not come,      *)
(* clocks need not tick, and a resolution need not end: a retry over TCP   *)
(* reads without a timeout, and nothing around it has one.                 *)
(***************************************************************************)
Fairness ==
  /\ \A r \in Requests :
       WF_vars(Hit(r) \/ Miss(r) \/ EnterFlight(r) \/ GoDirect(r) \/ FlightReturns(r))
  /\ \A c \in Callers : WF_vars(StartResolving(c))
  /\ \A t \in Revalidations : WF_vars(RevalidationTouches(t))
  /\ \A p \in Prefetches : WF_vars(PrefetchEnters(p)) /\ WF_vars(PrefetchReturns(p))

FairSpec == Spec /\ Fairness

(***************************************************************************)
(* Properties                                                              *)
(***************************************************************************)
Answered(r) == resp[r] # NoResponse /\ resp[r].outcome = "Success"
Busy == {t \in Revalidations : reval[t].pc # "free"}

\* Whoever wrote it (a miss, a prefetch, a revalidation, its write-back, or
\* pre-warming), an entry holds data that was validated, and its Fresh period
\* ends no later than the signatures that authenticate it.
FreshWithinSignature ==
  \A k \in Keys : cache[k] # NoEntry =>
    LET e == cache[k] IN
    /\ e.msg.status \in {"Secure", "InsecureUnsigned"}
    /\ e.msg.status = "Secure" => e.cached_at + e.min_ttl <= e.msg.sigexp

\* AD=1 only to a client that asked for it with CD=0, only on Secure data, and
\* from the cache only while the signatures are valid: the status read from
\* the cache is not one that expired since it was established.
AuthenticAnswers ==
  \A r \in Requests : Answered(r) /\ resp[r].ad =>
    /\ resp[r].item.msg.status = "Secure"
    /\ flags[r].ad /\ ~flags[r].cd
    /\ resp[r].from = "cache" => at[r] < resp[r].item.msg.sigexp

\* Under enforcement Bogus data reaches only a client that set CD=1 itself,
\* though it shares its flight, and the cache, with clients that did not.
BogusOnlyToCheckingDisabled ==
  \A r \in Requests :
    DnssecEnforce /\ Answered(r) /\ resp[r].item.msg.status = "Bogus" =>
      flags[r].cd /\ resp[r].from # "cache"

\* A Fresh answer carries a positive TTL from the cache, and no answer lets a
\* client keep a record past the TTL its zone gave it, counted from the
\* moment it was resolved; the clock read may be older than the resolution.
TtlAged ==
  \A r \in Requests : Answered(r) /\ resp[r].freshness = "Fresh" =>
    /\ resp[r].from = "cache" => resp[r].ttl > 0
    /\ resp[r].ttl > 0 => at[r] + resp[r].ttl <= resp[r].item.cached_at + resp[r].item.msg.ttl

\* A key is in in_flight exactly while one task revalidates it: no two tasks
\* revalidate a key, and no key stays gated without a task to open it.
RevalidationGate ==
  /\ in_flight = {reval[t].key : t \in Busy}
  /\ \A t, u \in Busy : reval[t].key = reval[u].key => t = u

\* The engine's requests and prefetches use single-flight as it is meant to
\* be used: every step of theirs is a step of SingleFlight or leaves it alone.
UsesSingleFlight == SF!FlightSpec

\* r waits for a resolution: its own, or that of the flight it shares.
Awaits(r) == stage[r] = "direct" \/ (stage[r] = "flight" /\ SF!Resolving(cell[r]))

\* Every admitted request is answered unless its client goes away or the one
\* resolution it waits for never ends, whatever happens to the requests it
\* shares a flight with and to the resolutions of others.
RequestsAnswered ==
  \A r \in Requests :
    stage[r] \in {"parsed", "missed", "flight", "direct"}
      ~> (stage[r] \in {"done", "gone"} \/ []Awaits(r))

Revalidating(k) == \E t \in Revalidations : reval[t].key = k /\ reval[t].pc = "resolving"

\* A revalidation gate opens again, on every path of the revalidation, unless
\* the resolution of its own key never ends.
GatesReopen ==
  \A k \in Keys : k \in in_flight ~> (k \notin in_flight \/ []Revalidating(k))
=============================================================================
