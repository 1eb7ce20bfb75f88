------------------------------ MODULE Prefetch ------------------------------
(***************************************************************************)
(* Prefetching (src/prefetch.rs, src/hit_tracker.rs): queries that hit the *)
(* cache record their key, in a table of bounded size; a loop looks for    *)
(* popular keys that are about to expire and spawns a refresh for each,    *)
(* through the single flight that live misses use too.                     *)
(*                                                                         *)
(* A turn of the loop has no await and is one action.  record looks a key  *)
(* up and inserts it in two.  The unit of time is a turn of the loop.      *)
(***************************************************************************)
EXTENDS Integers, FiniteSets

CONSTANTS
  Keys,
  Workers,        \* queries that record a hit at the same time
  Slots,          \* permits: MAX_CONCURRENT_PREFETCH
  MaxEntries,     \* HIT_TRACKER_MAX_ENTRIES
  MinHits,        \* CACHE_PREFETCH_MIN_HITS
  Ttl, Threshold, \* of a cache entry: its TTL, and how late it is refreshed
  BackoffBase,    \* 60 seconds
  MaxBackoff,     \* 3600 seconds
  MaxShift,       \* 6
  MaxIdle,        \* TRACKER_IDLE_PRUNE_SECS
  MaxFailures,    \* where failures stop being counted
  MaxClock,        \* bound on the clock, which starts at 1
  NoInfo, NoTask, NoKey

ASSUME TablesAssumption ==
  /\ IsFiniteSet(Workers) /\ Workers # {} /\ MaxEntries \in Nat \ {0} /\ MinHits \in Nat
ASSUME TimesAssumption ==
  /\ Ttl \in Nat \ {0} /\ Threshold \in 0..Ttl /\ MaxClock \in Nat \ {0}
  /\ BackoffBase \in Nat \ {0} /\ MaxBackoff \in Nat /\ MaxShift \in Nat
  /\ MaxIdle \in Nat \ {0} /\ MaxFailures \in Nat /\ MaxFailures >= MaxShift

VARIABLES
  clock,
  entries,   \* entries[k]: the HitInfo of k
  inserts,   \* inserts[w]: the key w is about to insert, and its clock
  expires,   \* expires[k]: when the cache entry of k expires, 0: there is none
  task,      \* task[s]: the prefetch that holds permit s
  live,      \* live[k]: a live miss leads the flight of k
  failedAt,  \* failedAt[k]: when a prefetch of k last failed, 0: not since one
             \*   succeeded, or since the table forgot k (history)
  streak     \* streak[k]: and how many did (history)

prefetchVars == <<clock, entries, inserts, expires, task, live, failedAt, streak>>

Times == 0..MaxClock
HitInfo == [count : 0..MinHits, last_seen : Times, last_prefetch_attempt : Times,
            consecutive_failures : 0..MaxFailures]
Task == [key : Keys, spawned : Times, at : {"delay", "lead", "follow"}]

ASSUME SentinelsAssumption ==
  /\ NoInfo \notin HitInfo /\ NoTask \notin Task
  /\ NoKey \notin [key : Keys, at : Times]

PrefetchTypeOK ==
  /\ clock \in Times
  /\ entries \in [Keys -> HitInfo \cup {NoInfo}]
  /\ inserts \in [Workers -> [key : Keys, at : Times] \cup {NoKey}]
  /\ expires \in [Keys -> 0..MaxClock + Ttl]
  /\ task \in [Slots -> Task \cup {NoTask}]
  /\ live \in [Keys -> BOOLEAN]
  /\ failedAt \in [Keys -> Times]
  /\ streak \in [Keys -> 0..MaxFailures]

PrefetchInit ==
  /\ clock = 1
  /\ entries = [k \in Keys |-> NoInfo]
  /\ inserts = [w \in Workers |-> NoKey]
  /\ expires = [k \in Keys |-> 0]
  /\ task = [s \in Slots |-> NoTask]
  /\ live = [k \in Keys |-> FALSE]
  /\ failedAt = [k \in Keys |-> 0]
  /\ streak = [k \in Keys |-> 0]

Least(a, b) == IF a < b THEN a ELSE b
Tracked == {k \in Keys : entries[k] # NoInfo}
Fresh(k) == clock < expires[k]

(***************************************************************************)
(* HitTracker                                                              *)
(***************************************************************************)
\* Variant of Record: the table is not bounded.
RecordAlways(w, k) ==
  /\ inserts[w] = NoKey /\ expires[k] # 0
  /\ \/ /\ k \in Tracked
        /\ entries' = [entries EXCEPT ![k].count = Least(@ + 1, MinHits),
                                      ![k].last_seen = clock]
        /\ UNCHANGED inserts
     \/ /\ k \notin Tracked
        /\ inserts' = [inserts EXCEPT ![w] = [key |-> k, at |-> clock]]
        /\ UNCHANGED entries
  /\ UNCHANGED <<clock, expires, task, live, failedAt, streak>>

\* record: the lookup, and the check on the size of the table.  A hit, fresh or
\* stale; how long an entry is served stale is left open.
Record(w, k) ==
  /\ inserts[w] = NoKey /\ expires[k] # 0
  /\ \/ /\ k \in Tracked
        /\ entries' = [entries EXCEPT ![k].count = Least(@ + 1, MinHits),
                                      ![k].last_seen = clock]
        /\ UNCHANGED inserts
     \/ /\ k \notin Tracked /\ Cardinality(Tracked) < MaxEntries
        /\ inserts' = [inserts EXCEPT ![w] = [key |-> k, at |-> clock]]
        /\ UNCHANGED entries
  /\ UNCHANGED <<clock, expires, task, live, failedAt, streak>>

\* record: the insert, over what another query has inserted meanwhile.
InsertNew(w) ==
  /\ inserts[w] # NoKey
  /\ entries' = [entries EXCEPT ![inserts[w].key] =
       [count |-> Least(1, MinHits), last_seen |-> inserts[w].at, last_prefetch_attempt |-> 0,
        consecutive_failures |-> 0]]
  /\ failedAt' = [failedAt EXCEPT ![inserts[w].key] = 0]
  /\ streak' = [streak EXCEPT ![inserts[w].key] = 0]
  /\ inserts' = [inserts EXCEPT ![w] = NoKey]
  /\ UNCHANGED <<clock, expires, task, live>>

backoff_secs(failures) == Least(BackoffBase * 2 ^ Least(failures, MaxShift), MaxBackoff)

should_prefetch(i, t) ==
  /\ i.count >= MinHits
  /\ i.last_prefetch_attempt > 0 =>
       t - i.last_prefetch_attempt >= backoff_secs(i.consecutive_failures)

(***************************************************************************)
(* prefetch_loop                                                           *)
(***************************************************************************)
Free == {s \in Slots : task[s] = NoTask}

\* A turn, at time t: prune, reset what is not cached, spawn a random subset
\* of what is due, as far as there are permits.
Turn ==
  LET t == clock + 1
      idle == {k \in Tracked : t - entries[k].last_seen >= MaxIdle}
      kept == Tracked \ idle
      due == {k \in kept : /\ t < expires[k] /\ expires[k] - t <= Threshold
                           /\ should_prefetch(entries[k], t)}
  IN
  /\ clock < MaxClock /\ clock' = t
  /\ entries' = [k \in Keys |->
       IF k \notin kept THEN NoInfo
       ELSE IF expires[k] = 0 THEN [entries[k] EXCEPT !.count = 0] ELSE entries[k]]
  /\ failedAt' = [k \in Keys |-> IF k \in idle THEN 0 ELSE failedAt[k]]
  /\ streak' = [k \in Keys |-> IF k \in idle THEN 0 ELSE streak[k]]
  /\ \E S \in SUBSET Free : \E pick \in [S -> due] :
       /\ \A s, r \in S : s # r => pick[s] # pick[r]
       /\ task' = [s \in Slots |->
            IF s \in S THEN [key |-> pick[s], spawned |-> t, at |-> "delay"] ELSE task[s]]
  /\ UNCHANGED <<inserts, expires, live>>

InFlight(k) ==
  live[k] \/ \E s \in Slots : task[s] # NoTask /\ task[s].key = k /\ task[s].at = "lead"

\* After its delay the prefetch leads the flight of its key, or joins it.
Begin(s) ==
  /\ task[s] # NoTask /\ task[s].at = "delay"
  /\ task' = [task EXCEPT ![s].at = IF InFlight(task[s].key) THEN "follow" ELSE "lead"]
  /\ UNCHANGED <<clock, entries, inserts, expires, live, failedAt, streak>>

\* Variant of record_prefetch_failure: the time of the attempt is not stored.
record_failure_untimed(k) ==
  entries' = IF k \notin Tracked THEN entries ELSE
    [entries EXCEPT ![k].consecutive_failures = Least(@ + 1, MaxFailures)]

\* Variant: the count of failures does not saturate.
record_failure_wraps(k) ==
  entries' = IF k \notin Tracked THEN entries ELSE
    [entries EXCEPT ![k].last_prefetch_attempt = clock, ![k].consecutive_failures = @ + 1]

record_prefetch_failure(k) ==
  entries' = IF k \notin Tracked THEN entries ELSE
    [entries EXCEPT ![k].last_prefetch_attempt = clock,
                    ![k].consecutive_failures = Least(@ + 1, MaxFailures)]

record_prefetch_success(k) ==
  entries' = IF k \notin Tracked THEN entries ELSE
    [entries EXCEPT ![k].last_prefetch_attempt = clock,
                    ![k].consecutive_failures = 0, ![k].count = 0]

\* The flight the prefetch leads ends, and with it those who joined; the
\* leader alone records how.
Leave(k, s) ==
  task' = [r \in Slots |-> IF r = s \/ (task[r] # NoTask /\ task[r].key = k /\ task[r].at = "follow")
                           THEN NoTask ELSE task[r]]

\* A result, even one that is not cacheable, counts as a success.
Succeed(s) ==
  /\ task[s] # NoTask /\ task[s].at = "lead"
  /\ LET k == task[s].key IN
     /\ \/ expires' = [expires EXCEPT ![k] = clock + Ttl]
        \/ UNCHANGED expires
     /\ record_prefetch_success(k)
     /\ failedAt' = [failedAt EXCEPT ![k] = 0]
     /\ streak' = [streak EXCEPT ![k] = 0]
     /\ Leave(k, s)
  /\ UNCHANGED <<clock, inserts, live>>

Fail(s) ==
  /\ task[s] # NoTask /\ task[s].at = "lead"
  /\ LET k == task[s].key IN
     /\ record_prefetch_failure(k)
     /\ failedAt' = [failedAt EXCEPT ![k] = IF k \in Tracked THEN clock ELSE 0]
     /\ streak' = [streak EXCEPT ![k] = IF k \in Tracked THEN Least(@ + 1, MaxFailures) ELSE 0]
     /\ Leave(k, s)
  /\ UNCHANGED <<clock, inserts, expires, live>>

(***************************************************************************)
(* Live misses (Resolver has them in full), the cache's cleanup.           *)
(***************************************************************************)
Miss(k) ==
  /\ ~Fresh(k) /\ ~InFlight(k)
  /\ live' = [live EXCEPT ![k] = TRUE]
  /\ UNCHANGED <<clock, entries, inserts, expires, task, failedAt, streak>>

MissEnds(k) ==
  /\ live[k]
  /\ live' = [live EXCEPT ![k] = FALSE]
  /\ \/ expires' = [expires EXCEPT ![k] = clock + Ttl]
     \/ UNCHANGED expires
  /\ Leave(k, NoTask)
  /\ UNCHANGED <<clock, entries, inserts, failedAt, streak>>

\* By age; the cache's limit on its size, at which a fresh entry may go too, is
\* left out (Resolver has it).
Evict(k) ==
  /\ expires[k] # 0 /\ ~Fresh(k)
  /\ expires' = [expires EXCEPT ![k] = 0]
  /\ UNCHANGED <<clock, entries, inserts, task, live, failedAt, streak>>

PrefetchNext ==
  \/ \E w \in Workers : InsertNew(w) \/ \E k \in Keys : Record(w, k)
  \/ Turn
  \/ \E s \in Slots : Begin(s) \/ Succeed(s) \/ Fail(s)
  \/ \E k \in Keys : Miss(k) \/ MissEnds(k) \/ Evict(k)

PrefetchSpec == PrefetchInit /\ [][PrefetchNext]_prefetchVars

(***************************************************************************)
(* Properties                                                              *)
(***************************************************************************)
\* After failed prefetches in a row no other one resolves the key until the
\* backoff they call for is over, unless it was spawned before the last of
\* them failed, or the table has forgotten the key (it was idle, or inserted
\* again by a hit that had missed it).
BackoffHeld ==
  [][\A s \in Slots :
       task[s] # NoTask /\ task[s].at = "delay" /\ task'[s] # NoTask /\ task'[s].at = "lead" =>
         LET k == task[s].key
         IN  failedAt[k] > 0 => \/ task[s].spawned <= failedAt[k]
                                \/ clock - failedAt[k] >= backoff_secs(streak[k])]_prefetchVars

\* Queries that race past the check on the table's size exceed it by less than
\* their number.
TrackerBounded == Cardinality(Tracked) <= MaxEntries + Cardinality(Workers) - 1
=============================================================================
