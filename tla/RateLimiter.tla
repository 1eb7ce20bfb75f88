---------------------------- MODULE RateLimiter ----------------------------
(***************************************************************************)
(* The rate limiter (src/ratelimit.rs): a token bucket per client subnet,  *)
(* and response rate limiting (RRL) of duplicate UDP queries per subnet    *)
(* and name, with the periodic cleanup of both tables.                     *)
(*                                                                         *)
(* check_query keeps the reference to its subnet's bucket, and with it the *)
(* write lock of the bucket's shard, until it returns.  So the calls of    *)
(* one subnet are serialized, and with them those of one RRL key, while    *)
(* calls of different subnets interleave on the RRL table.                 *)
(*                                                                         *)
(* The clock is the system's: it may be set back, by at most MaxBack.      *)
(***************************************************************************)
EXTENDS Integers, FiniteSets

CONSTANTS
  Workers,      \* threads calling check_query
  Subnets, Names,
  Capacity,     \* RATE_LIMIT_BURST
  RefillPerSec, \* RATE_LIMIT_PER_SEC
  Millis,       \* clock units in a second
  PenaltySecs,  \* 3
  MaxTracked,   \* MAX_TRACKED_RRL_ENTRIES
  MaxAge,       \* the max_age of cleanup, in clock units
  MaxBack,      \* how far the clock may be set back
  MaxWait,      \* how long a check_query, or a cleanup, may take
  MaxTime,      \* bound on the clock
  Workloads,    \* which keys are asked for, and until when: one for each behaviour
  NoBucket

RrlKeys == Subnets \X Names
Secs == 0..(MaxTime \div Millis)
Bucket == [tokens : 0..Capacity, last_refill : 0..MaxTime, last_seen : 0..MaxTime]
DomainRateBucket == [epoch : Secs, count : Nat, penalized_until : Nat]

ASSUME BucketAssumption ==
  /\ Capacity \in Nat \ {0} /\ RefillPerSec \in Nat /\ Millis \in Nat \ {0}
  /\ MaxAge \in Nat /\ MaxBack \in Nat /\ MaxWait \in Nat
  /\ MaxTime \in Nat
ASSUME WorkloadsAssumption ==
  Workloads \subseteq [keys : SUBSET (Subnets \X Names), until : 0..MaxTime]
ASSUME RrlAssumption == PenaltySecs \in Nat /\ MaxTracked \in Nat
ASSUME SetsAssumption ==
  /\ Subnets # {} /\ Names # {} /\ Workers # {}
  /\ IsFiniteSet(Subnets) /\ IsFiniteSet(Names) /\ IsFiniteSet(Workers)
ASSUME NoBucketAssumption == NoBucket \notin Bucket \cup DomainRateBucket
\* A bucket that cleanup takes out would have been full again.
ASSUME IdleBucketIsFull ==
  Capacity * Millis <= RefillPerSec * (MaxAge - 2 * MaxBack - 2 * MaxWait)

VARIABLES
  load,     \* the workload
  now,      \* now_millis()
  top,      \* the latest time the clock has shown (history)
  buckets,  \* subnet_buckets
  rrl,      \* rrl_buckets, keyed by subnet and name
  call,     \* call[w]: the check_query w is in
  cleaner,  \* the cleanup pass
  granted,  \* granted[s]: tokens taken by s since the start (history)
  allows,   \* allows[k][e]: UDP queries for k allowed in second e (history)
  untracked \* the <<k, e>> with one allowed for want of room (history)

vars == <<load, now, top, buckets, rrl, call, cleaner, granted, allows, untracked>>

Calls == [at : {"idle", "subnet", "rrl", "entry"}, key : RrlKeys, ms : 0..MaxTime]

TypeOK ==
  /\ load \in Workloads
  /\ now \in 0..MaxTime /\ top \in 0..MaxTime
  /\ buckets \in [Subnets -> Bucket \cup {NoBucket}]
  /\ rrl \in [RrlKeys -> DomainRateBucket \cup {NoBucket}]
  /\ call \in [Workers -> Calls]
  /\ cleaner \in [at : {"idle", "subnets", "rrl"}, cutoff : Int,
                  todo : SUBSET (Subnets \cup RrlKeys)]
  /\ granted \in [Subnets -> Nat]
  /\ allows \in [RrlKeys -> [Secs -> Nat]]
  /\ untracked \subseteq RrlKeys \X Secs

Rest == [at |-> "idle", cutoff |-> 0, todo |-> {}]
NoCall == [at |-> "idle", key |-> CHOOSE k \in RrlKeys : TRUE, ms |-> 0]

Init ==
  /\ load \in Workloads
  /\ now = 0 /\ top = 0
  /\ buckets = [s \in Subnets |-> NoBucket]
  /\ rrl = [k \in RrlKeys |-> NoBucket]
  /\ call = [w \in Workers |-> NoCall]
  /\ cleaner = Rest
  /\ granted = [s \in Subnets |-> 0]
  /\ allows = [k \in RrlKeys |-> [e \in Secs |-> 0]]
  /\ untracked = {}

Locked(s) == \E w \in Workers : call[w].at \in {"rrl", "entry"} /\ call[w].key[1] = s
Tracked == {k \in RrlKeys : rrl[k] # NoBucket}

MinOf(a, b) == IF a < b THEN a ELSE b

\* Variant of Refill: the tokens are added, and the refill time is kept.
RefillKeepingTime(b, t) ==
  LET new_tokens == ((t - b.last_refill) * RefillPerSec) \div Millis IN
  IF t > b.last_refill /\ new_tokens > 0
  THEN [b EXCEPT !.tokens = MinOf(b.tokens + new_tokens, Capacity), !.last_seen = t]
  ELSE [b EXCEPT !.last_seen = t]

\* The refill of bucket b at time t.  Less than a token's time is kept for
\* later, a clock behind the last refill adds nothing.
Refill(b, t) ==
  LET new_tokens == ((t - b.last_refill) * RefillPerSec) \div Millis IN
  IF t > b.last_refill /\ new_tokens > 0
  THEN [tokens |-> MinOf(b.tokens + new_tokens, Capacity),
        last_refill |-> t, last_seen |-> t]
  ELSE [b EXCEPT !.last_seen = t]

Take(b) == [b EXCEPT !.tokens = IF b.tokens > 0 THEN b.tokens - 1 ELSE 0]

\* check_query for key k, a subnet and a name (with its type), reads the clock, and then
\* waits for the bucket.  Loopback clients and UDP ANY queries have been
\* answered before, and change nothing.
Arrive(w, k) ==
  /\ call[w].at = "idle"
  /\ call' = [call EXCEPT ![w] = [at |-> "subnet", key |-> k, ms |-> now]]
  /\ UNCHANGED <<load, now, top, buckets, rrl, cleaner, granted, allows, untracked>>

Leave(w) == call' = [call EXCEPT ![w] = NoCall]

\* The subnet's part of check_query, at the time the call has read.
CheckSubnet(w) ==
  /\ call[w].at = "subnet"
  /\ LET s == call[w].key[1]
         ms == call[w].ms
         fresh == [tokens |-> Capacity, last_refill |-> ms, last_seen |-> ms]
         b == Refill(IF buckets[s] = NoBucket THEN fresh ELSE buckets[s], ms)
     IN  /\ ~Locked(s)
         /\ buckets' = [buckets EXCEPT ![s] = Take(b)]
         /\ \/ b.tokens <= 0 /\ Leave(w) /\ UNCHANGED granted  \* Drop
            \/ /\ b.tokens > 0
               /\ granted' = [granted EXCEPT ![s] = granted[s] + 1]
               /\ \/ Leave(w)                                \* not UDP: Allow
                  \/ call' = [call EXCEPT ![w].at = "rrl"]
  /\ UNCHANGED <<load, now, top, rrl, cleaner, allows, untracked>>

\* Variant of CheckRoom: the size of the table is not looked at.
CheckNoRoom(w) ==
  /\ call[w].at = "rrl"
  /\ call' = [call EXCEPT ![w].at = "entry"]
  /\ UNCHANGED <<load, now, top, buckets, rrl, cleaner, granted, allows, untracked>>

Second(w) == call[w].ms \div Millis

AllowKey(k, e) == allows' = [allows EXCEPT ![k][e] = allows[k][e] + 1]

\* Is the key tracked, or is there room for it?  If not: Allow.
CheckRoom(w) ==
  /\ call[w].at = "rrl"
  /\ LET k == call[w].key IN
     IF rrl[k] = NoBucket /\ Cardinality(Tracked) >= MaxTracked
     THEN /\ Leave(w)
          /\ AllowKey(k, Second(w))
          /\ untracked' = untracked \cup {<<k, Second(w)>>}
     ELSE /\ call' = [call EXCEPT ![w].at = "entry"]
          /\ UNCHANGED <<allows, untracked>>
  /\ UNCHANGED <<load, now, top, buckets, rrl, cleaner, granted>>

\* Variant of Count: a second in the past begins a new count as well.
CountEverySecond(d, e) ==
  [d EXCEPT !.epoch = e, !.count = 1]

\* The packed state, updated by a query in second e.
Count(d, e) ==
  IF e > d.epoch
  THEN [epoch |-> e, count |-> 1, penalized_until |-> d.penalized_until]
  ELSE [d EXCEPT !.count = d.count + 1]

Penalize(k, d, e) ==
  /\ rrl' = [rrl EXCEPT ![k] = [d EXCEPT !.penalized_until = e + PenaltySecs]]
  /\ UNCHANGED allows

\* The key's part of check_query, at the time the call has read.
CountQuery(w) ==
  /\ call[w].at = "entry"
  /\ LET k == call[w].key
         e == Second(w)
         d == IF rrl[k] = NoBucket
              THEN [epoch |-> e, count |-> 0, penalized_until |-> 0]
              ELSE rrl[k]
         c == Count(d, e)
     IN  \/ e < d.penalized_until /\ Penalize(k, d, e)           \* Drop
         \/ /\ e >= d.penalized_until /\ c.count = 1             \* Allow
            /\ rrl' = [rrl EXCEPT ![k] = c]
            /\ AllowKey(k, e)
         \/ /\ e >= d.penalized_until /\ c.count = 2             \* Truncate
            /\ rrl' = [rrl EXCEPT ![k] = c]
            /\ UNCHANGED allows
         \/ e >= d.penalized_until /\ c.count > 2 /\ Penalize(k, c, e)  \* Drop
  /\ Leave(w)
  /\ UNCHANGED <<load, now, top, buckets, cleaner, granted, untracked>>

(***************************************************************************)
(* cleanup: retain on one table, then on the other, bucket by bucket.      *)
(***************************************************************************)
StartCleanup ==
  /\ cleaner.at = "idle"
  /\ cleaner' = [at |-> "subnets", cutoff |-> now - MaxAge,
                 todo |-> {k[1] : k \in load.keys}]
  /\ UNCHANGED <<load, now, top, buckets, rrl, call, granted, allows, untracked>>

Idle(s) == buckets[s] # NoBucket /\ buckets[s].last_seen < cleaner.cutoff

CleanSubnet(s) ==
  /\ cleaner.at = "subnets" /\ s \in cleaner.todo
  /\ ~Locked(s)
  /\ buckets' = IF Idle(s) THEN [buckets EXCEPT ![s] = NoBucket] ELSE buckets
  /\ cleaner' = IF cleaner.todo = {s}
                THEN [cleaner EXCEPT !.at = "rrl", !.todo = load.keys]
                ELSE [cleaner EXCEPT !.todo = @ \ {s}]
  /\ UNCHANGED <<load, now, top, rrl, call, granted, allows, untracked>>

CleanKey(k) ==
  /\ cleaner.at = "rrl" /\ k \in cleaner.todo
  /\ rrl' = IF rrl[k] # NoBucket /\ rrl[k].epoch < cleaner.cutoff \div Millis
            THEN [rrl EXCEPT ![k] = NoBucket] ELSE rrl
  /\ cleaner' = IF cleaner.todo = {k} THEN Rest ELSE [cleaner EXCEPT !.todo = @ \ {k}]
  /\ UNCHANGED <<load, now, top, buckets, call, granted, allows, untracked>>

\* Neither check_query nor cleanup waits for anything that lasts.
Prompt(t) ==
  /\ \A w \in Workers : call[w].at # "idle" => t - call[w].ms <= MaxWait
  /\ cleaner.at # "idle" => t - (cleaner.cutoff + MaxAge) <= MaxWait

Tick ==
  /\ now < load.until
  /\ Prompt(now + 1)
  /\ now' = now + 1
  /\ top' = IF now + 1 > top THEN now + 1 ELSE top
  /\ UNCHANGED <<load, buckets, rrl, call, cleaner, granted, allows, untracked>>

SetBack ==
  /\ \E t \in 0..(now - 1) : t >= top - MaxBack /\ now' = t
  /\ UNCHANGED <<load, top, buckets, rrl, call, cleaner, granted, allows, untracked>>

Next ==
  \/ \E w \in Workers :
       \/ \E k \in load.keys : Arrive(w, k)
       \/ CheckSubnet(w)
       \/ CheckRoom(w)
       \/ CountQuery(w)
  \/ StartCleanup
  \/ \E s \in Subnets : CleanSubnet(s)
  \/ \E k \in RrlKeys : CleanKey(k)
  \/ Tick
  \/ SetBack

Spec == Init /\ [][Next]_vars

(***************************************************************************)
(* Properties                                                              *)
(***************************************************************************)
\* A subnet is never granted more than its burst and what has been refilled
\* since the start, whatever the clock, the cleanup and the other callers do:
\* forgetting an idle bucket gives nothing away.
TokenBudget ==
  \A s \in Subnets : granted[s] * Millis <= Capacity * Millis + RefillPerSec * top

\* RRL allows one UDP query per subnet, name and second, across penalties, a
\* clock set back and the cleanup of its table.  The one exception: in a second
\* in which the table had no room for the key, the token bucket alone decides.
OneAllowPerSecond ==
  \A k \in RrlKeys, e \in Secs : allows[k][e] > 1 => <<k, e>> \in untracked

\* The room is checked before the entry is made, so the table can outgrow its
\* cap, but only by the calls that are in between.
OvershootBounded == Cardinality(Tracked) < MaxTracked + Cardinality(Workers)
=============================================================================
