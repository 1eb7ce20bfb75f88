-------------------------- MODULE BackgroundProofs --------------------------
(***************************************************************************)
(* Proofs about what runs beside the queries: the mesh and its probes,     *)
(* which decide what the GSLB answers (Geo), and the prefetches            *)
(* (Prefetch).                                                             *)
(***************************************************************************)
EXTENDS Geo, Prefetch, TLAPS

(***************************************************************************)
(* Geo: the mesh's verdicts, the hysteresis of the probes and the choice   *)
(* of nodes, for any nodes, any heartbeat interval and any delay.          *)
(*                                                                         *)
(* The inductive invariant.  The heartbeats of a peer are Interval apart,  *)
(* so only so many are under way at a time.  Counted in intervals, the     *)
(* silence of a peer that stayed up is the heartbeats lost, those under    *)
(* way and the one to come (Accounted, with the sizes of sets below).      *)
(***************************************************************************)
Spaced(p) ==
  /\ \A a \in flight[p] : a + timer[p] >= Interval
  /\ \A a, b \in flight[p] : a < b => b - a >= Interval

Dead(p) ==
  /\ up[p] => downFor[p] = 0
  /\ ~up[p] => out[p]
  /\ \A a \in flight[p] : downFor[p] <= a
  /\ downFor[p] <= silence[p] + MaxDelay

\* The counters of the probes are the run that is under way.
Counted(p) ==
  /\ run[p] >= 0 => succ[p] = run[p] /\ fail[p] = 0
  /\ run[p] <= 0 => fail[p] + run[p] = 0 /\ succ[p] = 0

GeoInv ==
  /\ GeoTypeOK
  /\ \A p \in Peers : Spaced(p) /\ Dead(p) /\ Counted(p)

\* No heartbeat is under way and no probe is done at the start.
LEMMA InitGeoInv == GeoInit => GeoInv
<1> SUFFICES ASSUME GeoInit PROVE GeoInv
  BY Zenon
<1> USE TimeAssumption
<1>1. GeoTypeOK
  BY NodesAssumption DEF GeoInit, GeoTypeOK, HealthState, Grace, MaxAge, MaxCount, MaxLost
<1>2. ASSUME NEW p \in Peers PROVE Spaced(p) /\ Dead(p) /\ Counted(p)
  <2>1. /\ flight[p] = {} /\ timer[p] = Interval /\ silence[p] = 0 /\ downFor[p] = 0
        /\ run[p] = 0 /\ succ[p] = 0 /\ fail[p] = 0
    BY Zenon DEF GeoInit
  <2>2. ~up[p] => out[p]
    BY ZenonT(60) DEF GeoInit
  <2> QED
    BY <2>1, <2>2 DEF Spaced, Dead, Counted
<1> QED
  BY <1>1, <1>2, Zenon DEF GeoInv

\* Every step of nodes, network and clock keeps the types.
LEMMA GeoTypeKept == GeoTypeOK /\ [GeoNext]_geoVars => GeoTypeOK'
<1> SUFFICES ASSUME GeoTypeOK, [GeoNext]_geoVars PROVE GeoTypeOK'
  BY Zenon
<1> USE TimeAssumption DEF GeoTypeOK, MaxAge, Grace, MaxCount, MaxLost
<1>1. ASSUME NEW p \in Peers, ProbeOk(p) PROVE GeoTypeOK'
  <2> USE <1>1
  <2>1. succ' \in [Peers -> 0..MaxCount] /\ fail' \in [Peers -> 0..MaxCount]
    BY DEF ProbeOk, record_success, Cap
  <2>2. state' \in [Peers -> HealthState]
    BY Zenon DEF ProbeOk, record_success, HealthState
  <2>3. run' \in [Peers -> -MaxCount..MaxCount]
    BY SMTT(60) DEF ProbeOk, Cap
  <2> QED
    BY <2>1, <2>2, <2>3, Zenon DEF ProbeOk, netVars
<1>2. ASSUME NEW p \in Peers, ProbeFails(p) PROVE GeoTypeOK'
  <2> USE <1>2
  <2>1. succ' \in [Peers -> 0..MaxCount] /\ fail' \in [Peers -> 0..MaxCount]
    BY DEF ProbeFails, record_failure, Cap
  <2>2. state' \in [Peers -> HealthState]
    BY Zenon DEF ProbeFails, record_failure, HealthState
  <2>3. run' \in [Peers -> -MaxCount..MaxCount]
    BY DEF ProbeFails, Cap
  <2> QED
    BY <2>1, <2>2, <2>3, Zenon DEF ProbeFails, netVars
<1>3. ASSUME NEW p \in Peers, Send(p) PROVE GeoTypeOK'
  BY <1>3 DEF Send, Beats, probeVars
<1>4. ASSUME NEW p \in Peers, apply_peer_heartbeat(p) PROVE GeoTypeOK'
  BY <1>4 DEF apply_peer_heartbeat, probeVars
<1>5. ASSUME NEW p \in Peers, Lose(p) PROVE GeoTypeOK'
  BY <1>5 DEF Lose, probeVars, Cap
<1>6. ASSUME NEW p \in Peers, Crash(p) PROVE GeoTypeOK'
  BY <1>6, Zenon DEF Crash, probeVars
<1>7. ASSUME NEW p \in Peers, RestartPeer(p) PROVE GeoTypeOK'
  BY <1>7 DEF RestartPeer, probeVars
<1>8. CASE RestartSelf
  BY <1>8 DEF RestartSelf, HealthState
<1>9. CASE GeoTick
  <2> USE <1>9
  <2>1. timer' \in [Peers -> 0..Interval]
    BY DEF GeoTick, Beats
  <2>2. flight' \in [Peers -> SUBSET (0..MaxDelay)]
    <3>1. \A p \in Peers : \A a \in flight[p] : a \in 0..MaxDelay /\ a # MaxDelay
      BY Zenon DEF GeoTick
    <3>2. \A p \in Peers : {a + 1 : a \in flight[p]} \subseteq 0..MaxDelay
      BY <3>1
    <3> QED
      BY <3>2, ZenonT(60) DEF GeoTick
  <2>3. silence' \in [Peers -> 0..MaxAge]
    BY DEF GeoTick, Cap
  <2>4. downFor' \in [Peers -> 0..MaxAge]
    BY DEF GeoTick, Cap
  <2> QED
    BY <2>1, <2>2, <2>3, <2>4, Zenon DEF GeoTick, probeVars
<1>10. CASE UNCHANGED geoVars
  BY <1>10, Zenon DEF geoVars, netVars, probeVars
<1> QED
  BY <1>1, <1>2, <1>3, <1>4, <1>5, <1>6, <1>7, <1>8, <1>9, <1>10, Zenon DEF GeoNext

\* What a step does to the heartbeats of one peer.
LEMMA SpacedKept ==
  ASSUME GeoTypeOK, NEW p \in Peers, Spaced(p), [GeoNext]_geoVars
  PROVE  Spaced(p)'
<1> USE TimeAssumption
<1>1. CASE UNCHANGED <<flight, timer>>
  BY <1>1, Zenon DEF Spaced
<1>2. ASSUME NEW q \in Peers, Send(q) PROVE Spaced(p)'
  BY <1>2 DEF Send, Beats, Spaced, GeoTypeOK
<1>3. ASSUME NEW q \in Peers, apply_peer_heartbeat(q) \/ Lose(q) PROVE Spaced(p)'
  BY <1>3 DEF apply_peer_heartbeat, Lose, Spaced, GeoTypeOK
<1>4. ASSUME NEW q \in Peers, RestartPeer(q) PROVE Spaced(p)'
  BY <1>4 DEF RestartPeer, Spaced, GeoTypeOK
<1>5. CASE GeoTick
  BY <1>5 DEF GeoTick, Beats, Spaced, GeoTypeOK
<1>6. ASSUME NEW q \in Peers, ProbeOk(q) \/ ProbeFails(q) \/ Crash(q)
      PROVE  UNCHANGED <<flight, timer>>
  BY <1>6, Zenon DEF ProbeOk, ProbeFails, Crash, netVars
<1>7. RestartSelf \/ UNCHANGED geoVars => UNCHANGED <<flight, timer>>
  BY Zenon DEF RestartSelf, geoVars, netVars
<1> QED
  BY <1>1, <1>2, <1>3, <1>4, <1>5, <1>6, <1>7, Zenon DEF GeoNext

\* A peer that died is silent: what is on its way, or was received, is no
\* younger than its death allows.
LEMMA DeadKept ==
  ASSUME GeoTypeOK, NEW p \in Peers, Dead(p), [GeoNext]_geoVars
  PROVE  Dead(p)'
<1> USE TimeAssumption DEF MaxAge, Grace
<1>1. CASE UNCHANGED netVars
  BY <1>1, Zenon DEF Dead, netVars
<1>2. ASSUME NEW q \in Peers, Send(q) PROVE Dead(p)'
  BY <1>2 DEF Send, Beats, Dead, GeoTypeOK
<1>3. ASSUME NEW q \in Peers, apply_peer_heartbeat(q) PROVE Dead(p)'
  BY <1>3 DEF apply_peer_heartbeat, Dead, GeoTypeOK
<1>4. ASSUME NEW q \in Peers, Lose(q) PROVE Dead(p)'
  BY <1>4, Zenon DEF Lose, Dead, GeoTypeOK
<1>5. ASSUME NEW q \in Peers, Crash(q) PROVE Dead(p)'
  BY <1>5, Zenon DEF Crash, Dead, GeoTypeOK
<1>6. ASSUME NEW q \in Peers, RestartPeer(q) PROVE Dead(p)'
  BY <1>6 DEF RestartPeer, Dead, GeoTypeOK
<1>7. CASE RestartSelf
  BY <1>7, SMTT(60), Zenon DEF RestartSelf, Dead, GeoTypeOK
<1>8. CASE GeoTick
  BY <1>8, SMTT(60), Zenon DEF GeoTick, Dead, GeoTypeOK, Cap
<1>9. ASSUME NEW q \in Peers, ProbeOk(q) \/ ProbeFails(q) PROVE UNCHANGED netVars
  BY <1>9, ZenonT(60) DEF ProbeOk, ProbeFails
<1> QED
  BY <1>1, <1>2, <1>3, <1>4, <1>5, <1>6, <1>7, <1>8, <1>9, Zenon DEF GeoNext, geoVars

\* The counters of a probed node are those of its last run of outcomes.
LEMMA CountedKept ==
  ASSUME GeoTypeOK, NEW p \in Peers, Counted(p), [GeoNext]_geoVars
  PROVE  Counted(p)'
<1> USE DEF GeoTypeOK, Counted, MaxCount, Cap
<1>1. CASE UNCHANGED probeVars
  BY <1>1, Zenon DEF probeVars
<1>2. ASSUME NEW q \in Peers, ProbeOk(q) PROVE Counted(p)'
  BY <1>2 DEF ProbeOk, record_success
<1>3. ASSUME NEW q \in Peers, ProbeFails(q) PROVE Counted(p)'
  BY <1>3 DEF ProbeFails, record_failure
<1>4. CASE RestartSelf
  <2>1. run'[p] = 0 /\ succ'[p] = 0 /\ fail'[p] = 0
    BY <1>4, Zenon DEF RestartSelf
  <2> QED
    BY ONLY <2>1 DEF Counted
<1>5. ASSUME NEW q \in Peers, Send(q) \/ apply_peer_heartbeat(q) \/ Lose(q) \/ Crash(q) \/ RestartPeer(q)
      PROVE  UNCHANGED probeVars
  BY <1>5, SMTT(60), Zenon DEF Send, apply_peer_heartbeat, Lose, Crash, RestartPeer
<1>6. GeoTick => UNCHANGED probeVars
  BY Zenon DEF GeoTick
<1> QED
  BY <1>1, <1>2, <1>3, <1>4, <1>5, <1>6, Zenon DEF GeoNext, geoVars

\* All of it, at every step.
THEOREM GeoInductive == GeoSpec => []GeoInv
<1>1. GeoInv /\ [GeoNext]_geoVars => GeoInv'
  BY GeoTypeKept, SpacedKept, DeadKept, CountedKept, Zenon DEF GeoInv
<1> QED
  BY <1>1, InitGeoInv, PTL DEF GeoSpec

\* The registry keeps its types and its bounds.
THEOREM GeoTypeCorrect == GeoSpec => []GeoTypeOK
<1>1. GeoInv => GeoTypeOK
  BY Zenon DEF GeoInv
<1> QED
  BY <1>1, GeoInductive, PTL

\* A peer that stays down is excluded after the grace period.
THEOREM DeadPeersAreExcluded == GeoSpec => []DeadPeerExcluded
<1>1. GeoInv => DeadPeerExcluded
  BY TimeAssumption
     DEF GeoInv, GeoTypeOK, Dead, DeadPeerExcluded, Excluded, excluded_by_peer_mesh, Peers,
         MaxAge, Grace
<1> QED
  BY <1>1, GeoInductive, PTL

\* record_failure and record_success change Unhealthy only after a run.
THEOREM ProbesHaveHysteresis == GeoSpec => ProbeHysteresis
<1> DEFINE A == \A p \in Peers :
       /\ state[p] # "Unhealthy" /\ state'[p] = "Unhealthy" => run'[p] <= -5
       /\ state[p] = "Unhealthy" /\ state'[p] # "Unhealthy" =>
            state'[p] = "Unknown" \/ (run'[p] >= 3 /\ state'[p] = "Degraded")
<1>1. GeoInv /\ [GeoNext]_geoVars => [A]_geoVars
  <2> SUFFICES ASSUME GeoInv, GeoNext, NEW p \in Peers
               PROVE /\ state[p] # "Unhealthy" /\ state'[p] = "Unhealthy" => run'[p] <= -5
                     /\ state[p] = "Unhealthy" /\ state'[p] # "Unhealthy" =>
                          state'[p] = "Unknown" \/ (run'[p] >= 3 /\ state'[p] = "Degraded")
    BY Zenon
  <2>1. GeoTypeOK'
    BY GeoTypeKept, Zenon DEF GeoInv
  <2>2. run'[p] \in Int /\ fail'[p] \in Int /\ succ'[p] \in Int
    BY <2>1, SMTT(60), Zenon DEF GeoTypeOK, MaxCount
  <2>3. ASSUME NEW q \in Peers, ProbeOk(q)
        PROVE  state'[p] # state[p] =>
                 /\ state'[p] # "Unhealthy" /\ run'[p] = succ'[p]
                 /\ state[p] = "Unhealthy" => succ'[p] >= 3 /\ state'[p] = "Degraded"
    BY <2>3, SMTT(60), Zenon DEF ProbeOk, record_success, GeoInv, GeoTypeOK, Counted, MaxCount, Cap
  <2>4. ASSUME NEW q \in Peers, ProbeFails(q)
        PROVE  state'[p] # state[p] =>
                 /\ state[p] # "Unhealthy"
                 /\ state'[p] = "Unhealthy" => fail'[p] >= 5 /\ fail'[p] + run'[p] = 0
    BY <2>4, SMTT(60), Zenon DEF ProbeFails, record_failure, GeoInv, GeoTypeOK, Counted, MaxCount, Cap
  <2>5. RestartSelf => state'[p] = "Unknown"
    BY Zenon DEF RestartSelf
  <2>6. CASE UNCHANGED state
    BY <2>6, Zenon
  <2>7. ASSUME NEW q \in Peers, Send(q) \/ apply_peer_heartbeat(q) \/ Lose(q) \/ Crash(q) \/ RestartPeer(q)
        PROVE  UNCHANGED state
    BY <2>7, SMTT(60), Zenon DEF Send, apply_peer_heartbeat, Lose, Crash, RestartPeer, probeVars
  <2>8. GeoTick => UNCHANGED state
    BY Zenon DEF GeoTick, probeVars
  <2>9. CASE \E q \in Peers : ProbeOk(q)
    <3>1. PICK q \in Peers : ProbeOk(q)
      BY <2>9, Zenon
    <3> QED
      BY <2>2, <2>3, <3>1, Zenon
  <2>10. CASE \E q \in Peers : ProbeFails(q)
    <3>1. PICK q \in Peers : ProbeFails(q)
      BY <2>10, Zenon
    <3> QED
      BY <2>2, <2>4, <3>1
  <2> QED
    BY <2>5, <2>6, <2>7, <2>8, <2>9, <2>10, SMTT(60), Zenon DEF GeoNext
<1> QED
  BY <1>1, GeoInductive, PTL DEF GeoSpec, ProbeHysteresis

(***************************************************************************)
(* Prefetch, for any number of keys, queries and permits.                  *)
(*                                                                         *)
(* The inductive invariant.  That the table is bounded rests on the keys   *)
(* about to be inserted counting as if they were; that a backoff is held   *)
(* rests on the table having, of each key it tracks, the failures that     *)
(* happened, and on a prefetch that has not begun having been spawned      *)
(* before the last of them or after the backoff that it called for.        *)
(***************************************************************************)
Coming == {inserts[w].key : w \in {v \in Workers : inserts[v] # NoKey}}

Room ==
  /\ IsFiniteSet(Tracked)
  /\ Cardinality(Tracked \cup Coming) <= MaxEntries + Cardinality(Workers) - 1

\* The table knows of the failures there were.
Known(k) ==
  /\ k \in Tracked => streak[k] = entries[k].consecutive_failures
  /\ failedAt[k] > 0 => k \in Tracked /\ entries[k].last_prefetch_attempt = failedAt[k]
  /\ failedAt[k] <= clock

FailuresKnown == \A k \in Keys : Known(k)

\* Prefetch s was spawned before the last failure, or when it was time to.
Timely(s) ==
  task[s] # NoTask =>
    /\ task[s].spawned <= clock
    /\ task[s].at = "delay" /\ failedAt[task[s].key] > 0 =>
         \/ task[s].spawned <= failedAt[task[s].key]
         \/ task[s].spawned - failedAt[task[s].key] >= backoff_secs(streak[task[s].key])

PrefetchInv ==
  /\ PrefetchTypeOK
  /\ FailuresKnown
  /\ \A s \in Slots : Timely(s)

(***************************************************************************)
(* Types                                                                   *)
(***************************************************************************)
LEMMA InitTyped == PrefetchInit => PrefetchTypeOK
BY TablesAssumption, TimesAssumption DEF PrefetchInit, PrefetchTypeOK, Times

LEMMA CapIsNatural ==
  ASSUME NEW c \in Nat, NEW n \in 0..c
  PROVE  Least(n + 1, c) \in 0..c /\ Least(1, c) \in 0..c
BY DEF Least

\* Recording a hit keeps the types: the counts stop at their limits.
LEMMA RecordTyped ==
  ASSUME PrefetchTypeOK, NEW w \in Workers, InsertNew(w) \/ \E k \in Keys : Record(w, k)
  PROVE  PrefetchTypeOK'
<1> USE TablesAssumption, TimesAssumption
<1>1. CASE InsertNew(w)
  <2> DEFINE new == [count |-> Least(1, MinHits), last_seen |-> inserts[w].at,
                     last_prefetch_attempt |-> 0, consecutive_failures |-> 0]
  <2> USE <1>1
  <2>1. inserts[w] \in [key : Keys, at : Times]
    BY Zenon DEF InsertNew, PrefetchTypeOK
  <2> USE <2>1
  <2>2. new \in HitInfo
    BY DEF HitInfo, Times, Least
  <2>3. entries' = [entries EXCEPT ![inserts[w].key] = new]
    BY Zenon DEF InsertNew
  <2> HIDE DEF new
  <2>4. entries' \in [Keys -> HitInfo \cup {NoInfo}]
    BY <2>2, <2>3, Zenon DEF PrefetchTypeOK
  <2>5. /\ inserts' \in [Workers -> [key : Keys, at : Times] \cup {NoKey}]
        /\ failedAt' \in [Keys -> Times] /\ streak' \in [Keys -> 0..MaxFailures]
    BY DEF InsertNew, PrefetchTypeOK, Times
  <2> QED
    BY <2>4, <2>5, Zenon DEF InsertNew, PrefetchTypeOK
<1>2. ASSUME NEW k \in Keys, Record(w, k) PROVE PrefetchTypeOK'
  <2>1. CASE k \in Tracked
    <3> DEFINE new == [entries[k] EXCEPT !.count = Least(@ + 1, MinHits), !.last_seen = clock]
    <3>1. entries[k] \in HitInfo /\ clock \in Times
      BY <2>1, Zenon DEF PrefetchTypeOK, Tracked
    <3>2. Least(entries[k].count + 1, MinHits) \in 0..MinHits
      BY <3>1, CapIsNatural, Zenon DEF HitInfo
    <3>3. new \in HitInfo
      BY <3>1, <3>2, ZenonT(60) DEF HitInfo
    <3>4. entries' = [entries EXCEPT ![k] = new] /\ inserts' = inserts
      BY <1>2, <2>1, Zenon DEF Record
    <3> HIDE DEF new
    <3>5. entries' \in [Keys -> HitInfo \cup {NoInfo}]
      BY <3>3, <3>4, Zenon DEF PrefetchTypeOK
    <3> QED
      BY <1>2, <3>4, <3>5, Zenon DEF Record, PrefetchTypeOK
  <2>2. CASE k \notin Tracked
    BY <1>2, <2>2 DEF Record, PrefetchTypeOK
  <2> QED
    BY <2>1, <2>2, Zenon
<1> QED
  BY <1>1, <1>2, Zenon

\* A turn of the loop keeps the types.
LEMMA TurnTyped == ASSUME PrefetchTypeOK, Turn PROVE PrefetchTypeOK'
<1> USE TablesAssumption, TimesAssumption
<1> DEFINE t == clock + 1
           idle == {k \in Tracked : t - entries[k].last_seen >= MaxIdle}
           ripe == {k \in Tracked \ idle : /\ t < expires[k] /\ expires[k] - t <= Threshold
                                          /\ should_prefetch(entries[k], t)}
<1>1. clock' = t /\ t \in Times /\ inserts' = inserts /\ expires' = expires /\ live' = live
  BY DEF Turn, PrefetchTypeOK, Times
<1>2. failedAt' \in [Keys -> Times] /\ streak' \in [Keys -> 0..MaxFailures]
  BY DEF Turn, PrefetchTypeOK, Times
<1>3. entries' \in [Keys -> HitInfo \cup {NoInfo}]
  <2>1. ASSUME NEW k \in Tracked
        PROVE  {entries[k], [entries[k] EXCEPT !.count = 0]} \subseteq HitInfo
    <3>1. entries[k] \in HitInfo
      BY Zenon DEF PrefetchTypeOK, Tracked
    <3> QED
      BY <3>1 DEF HitInfo
  <2> QED
    BY <2>1, Zenon DEF Turn
<1>4. task' \in [Slots -> Task \cup {NoTask}]
  <2>1. PICK S \in SUBSET Free : \E pick \in [S -> ripe] :
          task' = [s \in Slots |->
            IF s \in S THEN [key |-> pick[s], spawned |-> t, at |-> "delay"] ELSE task[s]]
    BY Zenon DEF Turn
  <2>2. ripe \subseteq Keys
    BY Zenon DEF Tracked
  <2> HIDE DEF ripe
  <2>3. PICK pick \in [S -> ripe] :
          task' = [s \in Slots |->
            IF s \in S THEN [key |-> pick[s], spawned |-> t, at |-> "delay"] ELSE task[s]]
    BY <2>1, Zenon
  <2>4. \A s \in S : [key |-> pick[s], spawned |-> t, at |-> "delay"] \in Task
    BY <1>1, <2>2, <2>3, Zenon DEF Task
  <2> QED
    BY <2>3, <2>4, Zenon DEF PrefetchTypeOK
<1> QED
  BY <1>1, <1>2, <1>3, <1>4, Zenon DEF PrefetchTypeOK

LEMMA LeaveTyped ==
  ASSUME PrefetchTypeOK, NEW k \in Keys, NEW s, Leave(k, s)
  PROVE  task' \in [Slots -> Task \cup {NoTask}]
BY Zenon DEF Leave, PrefetchTypeOK

\* The end of a prefetch keeps the types.
LEMMA EndTyped ==
  ASSUME PrefetchTypeOK, NEW s \in Slots, Succeed(s) \/ Fail(s)
  PROVE  PrefetchTypeOK'
<1> USE TablesAssumption, TimesAssumption
<1> DEFINE k == task[s].key
<1>1. task[s] \in Task /\ k \in Keys /\ clock \in Times /\ clock' = clock
      /\ inserts' = inserts /\ live' = live
  BY Zenon DEF Succeed, Fail, PrefetchTypeOK, Task
<1> USE <1>1
<1>2. task' \in [Slots -> Task \cup {NoTask}]
  BY LeaveTyped, Zenon DEF Succeed, Fail
<1>3. expires' \in [Keys -> 0..MaxClock + Ttl]
  <2>1. clock + Ttl \in 0..MaxClock + Ttl
    BY DEF Times
  <2> QED
    BY <2>1, Zenon DEF Succeed, Fail, PrefetchTypeOK
<1>4. failedAt' \in [Keys -> Times]
  BY DEF Succeed, Fail, PrefetchTypeOK, Times
<1>5. streak' \in [Keys -> 0..MaxFailures]
  <2>1. Least(streak[k] + 1, MaxFailures) \in 0..MaxFailures
    BY CapIsNatural, Zenon DEF PrefetchTypeOK
  <2> QED
    BY <2>1 DEF Succeed, Fail, PrefetchTypeOK
<1>6. entries' \in [Keys -> HitInfo \cup {NoInfo}]
  <2>1. CASE k \in Tracked
    <3>1. entries[k] \in HitInfo
      BY <2>1, Zenon DEF PrefetchTypeOK, Tracked
    <3> USE <3>1
    <3>2. Least(entries[k].consecutive_failures + 1, MaxFailures) \in 0..MaxFailures
      BY CapIsNatural, Zenon DEF HitInfo
    <3> DEFINE failed == [entries[k] EXCEPT !.last_prefetch_attempt = clock,
                          !.consecutive_failures = Least(@ + 1, MaxFailures)]
               won == [entries[k] EXCEPT !.last_prefetch_attempt = clock,
                         !.consecutive_failures = 0, !.count = 0]
    <3>3. failed \in HitInfo
      BY <3>2, ZenonT(60) DEF HitInfo
    <3>4. won \in HitInfo
      <4>1. 0 \in 0..MaxFailures /\ 0 \in 0..MinHits
        OBVIOUS
      <4> QED
        BY <4>1, ZenonT(60) DEF HitInfo
    <3>5. entries' = [entries EXCEPT ![k] = failed] \/ entries' = [entries EXCEPT ![k] = won]
      BY <2>1, Zenon DEF Succeed, Fail, record_prefetch_failure, record_prefetch_success
    <3> HIDE DEF failed, won, k
    <3> QED
      BY <3>3, <3>4, <3>5, Zenon DEF PrefetchTypeOK
  <2>2. CASE k \notin Tracked
    BY <2>2, Zenon DEF Succeed, Fail, record_prefetch_failure, record_prefetch_success, PrefetchTypeOK
  <2> QED
    BY <2>1, <2>2, Zenon
<1> QED
  BY <1>2, <1>3, <1>4, <1>5, <1>6, Zenon DEF PrefetchTypeOK

\* Every step keeps the types.
LEMMA StepTyped == PrefetchTypeOK /\ [PrefetchNext]_prefetchVars => PrefetchTypeOK'
<1> SUFFICES ASSUME PrefetchTypeOK, [PrefetchNext]_prefetchVars PROVE PrefetchTypeOK'
  BY Zenon
<1> USE TablesAssumption, TimesAssumption
<1>1. ASSUME NEW s \in Slots, Begin(s) PROVE PrefetchTypeOK'
  <2> USE <1>1
  <2>1. task[s] \in Task
    BY Zenon DEF Begin, PrefetchTypeOK
  <2>2. \A a \in {"lead", "follow"} : [task[s] EXCEPT !.at = a] \in Task
    BY <2>1, Zenon DEF Task
  <2>3. \E u \in Task : task' = [task EXCEPT ![s] = u]
    BY <2>2, Zenon DEF Begin
  <2> QED
    BY <2>3, Zenon DEF Begin, PrefetchTypeOK
<1>2. ASSUME NEW k \in Keys, Miss(k) PROVE PrefetchTypeOK'
  BY <1>2, Zenon DEF Miss, PrefetchTypeOK
<1>3. ASSUME NEW k \in Keys, MissEnds(k) PROVE PrefetchTypeOK'
  <2> USE <1>3
  <2>1. task' \in [Slots -> Task \cup {NoTask}]
    BY LeaveTyped, Zenon DEF MissEnds
  <2>2. clock + Ttl \in 0..MaxClock + Ttl
    BY DEF PrefetchTypeOK, Times
  <2>3. expires' \in [Keys -> 0..MaxClock + Ttl]
    BY <2>2, Zenon DEF MissEnds, PrefetchTypeOK
  <2>4. live' \in [Keys -> BOOLEAN]
    BY ZenonT(60) DEF MissEnds, PrefetchTypeOK
  <2> QED
    BY <2>1, <2>3, <2>4, Zenon DEF MissEnds, PrefetchTypeOK
<1>4. ASSUME NEW k \in Keys, Evict(k) PROVE PrefetchTypeOK'
  BY <1>4 DEF Evict, PrefetchTypeOK
<1>5. CASE UNCHANGED prefetchVars
  BY <1>5, Zenon DEF prefetchVars, PrefetchTypeOK
<1> QED
  BY <1>1, <1>2, <1>3, <1>4, <1>5, RecordTyped, TurnTyped, EndTyped, Zenon DEF PrefetchNext

\* The variables of the hit tracker and of the prefetch loop keep their types;
\* the counts of hits and of failures stop at their limits.
THEOREM PrefetchTypeCorrect == PrefetchSpec => []PrefetchTypeOK
BY InitTyped, StepTyped, PTL DEF PrefetchSpec

(***************************************************************************)
(* Backoff                                                                 *)
(***************************************************************************)
\* Where the key's entry and history are left alone the table knows as much.
LEMMA KnownStays ==
  ASSUME PrefetchTypeOK, NEW k \in Keys, Known(k), clock' \in Times, clock <= clock',
         entries'[k] = entries[k], failedAt'[k] = failedAt[k], streak'[k] = streak[k]
  PROVE  Known(k)'
BY TimesAssumption DEF Known, Tracked, PrefetchTypeOK, Times

\* A key without a failure has none to know of.
LEMMA CleanIsKnown ==
  ASSUME NEW k \in Keys, clock' \in Times, failedAt'[k] = 0,
         k \in Tracked' => streak'[k] = entries'[k].consecutive_failures
  PROVE  Known(k)'
BY TimesAssumption DEF Known, Times

LEMMA ClockStays ==
  ASSUME PrefetchTypeOK, clock' = clock
  PROVE  clock' \in Times /\ clock <= clock'
BY TimesAssumption DEF PrefetchTypeOK, Times

\* record inserts a key without a history, and with a clean entry.
LEMMA InsertKeepsKnown ==
  ASSUME PrefetchTypeOK, PrefetchTypeOK', FailuresKnown, NEW w \in Workers, InsertNew(w)
  PROVE  FailuresKnown'
<1> DEFINE i == inserts[w].key
           new == [count |-> Least(1, MinHits), last_seen |-> inserts[w].at,
                   last_prefetch_attempt |-> 0, consecutive_failures |-> 0]
<1>1. i \in Keys /\ clock' = clock
  BY Zenon DEF InsertNew, PrefetchTypeOK
<1>2. /\ entries' = [entries EXCEPT ![i] = new]
      /\ failedAt' = [failedAt EXCEPT ![i] = 0] /\ streak' = [streak EXCEPT ![i] = 0]
  BY Zenon DEF InsertNew
<1>3. new.consecutive_failures = 0
  BY Zenon
<1> HIDE DEF i, new
<1>4. ASSUME NEW k \in Keys PROVE Known(k)'
  <2>1. CASE k = i
    <3>1. entries'[k].consecutive_failures = 0 /\ streak'[k] = 0 /\ failedAt'[k] = 0
      BY <1>1, <1>2, <1>3, <2>1, Zenon DEF PrefetchTypeOK
    <3> QED
      BY <1>1, <3>1, CleanIsKnown, ClockStays, Zenon
  <2>2. CASE k # i
    <3>1. entries'[k] = entries[k] /\ failedAt'[k] = failedAt[k] /\ streak'[k] = streak[k]
      BY <1>2, <2>2, Zenon DEF PrefetchTypeOK
    <3> QED
      BY <1>1, <3>1, KnownStays, ClockStays, Zenon DEF FailuresKnown
  <2> QED
    BY <2>1, <2>2, Zenon
<1> QED
  BY <1>4, Zenon DEF FailuresKnown

\* A hit leaves what is known of failures as it is.
LEMMA RecordKeepsKnown ==
  ASSUME PrefetchTypeOK, PrefetchTypeOK', FailuresKnown, NEW w \in Workers, NEW j \in Keys, Record(w, j)
  PROVE  FailuresKnown'
<1>1. clock' = clock /\ failedAt' = failedAt /\ streak' = streak /\ clock \in Times
  BY Zenon DEF Record, PrefetchTypeOK
<1>2. ASSUME NEW k \in Keys PROVE Known(k)'
  <2>1. CASE k = j /\ k \in Tracked
    <3>1. entries[k] \in HitInfo
      BY <2>1, Zenon DEF Tracked, PrefetchTypeOK
    <3>2. entries' = [entries EXCEPT ![k] = [entries[k] EXCEPT
                        !.count = Least(@ + 1, MinHits), !.last_seen = clock]]
      BY <2>1, Zenon DEF Record
    <3> USE <3>1
    <3>3. /\ entries'[k].consecutive_failures = entries[k].consecutive_failures
          /\ entries'[k].last_prefetch_attempt = entries[k].last_prefetch_attempt
      BY <3>2, Zenon DEF PrefetchTypeOK, HitInfo
    <3>4. entries'[k] \in HitInfo
      <4>1. Least(entries[k].count + 1, MinHits) \in 0..MinHits
        BY TablesAssumption, CapIsNatural, Zenon DEF HitInfo
      <4> QED
        BY <1>1, <3>2, <4>1, ZenonT(60) DEF PrefetchTypeOK, HitInfo
    <3>5. k \in Tracked'
      BY <3>4, SentinelsAssumption, Zenon DEF Tracked
    <3> QED
      BY <1>1, <2>1, <3>3, <3>5, Zenon DEF FailuresKnown, Known
  <2>2. CASE ~(k = j /\ k \in Tracked)
    <3>1. entries'[k] = entries[k]
      BY <2>2, Zenon DEF Record, PrefetchTypeOK
    <3> QED
      BY <1>1, <3>1, KnownStays, ClockStays, Zenon DEF FailuresKnown
  <2> QED
    BY <2>1, <2>2, Zenon
<1> QED
  BY <1>2, Zenon DEF FailuresKnown

\* A turn forgets a key with its history, or changes its count at most.
LEMMA TurnKeepsKnown ==
  ASSUME PrefetchTypeOK, PrefetchTypeOK', FailuresKnown, Turn
  PROVE  FailuresKnown'
<1> DEFINE t == clock + 1
           idle == {k \in Tracked : t - entries[k].last_seen >= MaxIdle}
           kept == Tracked \ idle
<1>1. /\ entries' = [k \in Keys |->
           IF k \notin kept THEN NoInfo
           ELSE IF expires[k] = 0 THEN [entries[k] EXCEPT !.count = 0] ELSE entries[k]]
      /\ failedAt' = [k \in Keys |-> IF k \in idle THEN 0 ELSE failedAt[k]]
      /\ streak' = [k \in Keys |-> IF k \in idle THEN 0 ELSE streak[k]]
  BY ZenonT(60) DEF Turn
<1>2. /\ clock' = clock + 1 /\ clock \in Times /\ clock' \in Times /\ clock <= clock'
      /\ idle \subseteq Tracked /\ kept = Tracked \ idle
  BY TimesAssumption DEF Turn, PrefetchTypeOK, Times
<1> HIDE DEF idle, kept
<1> USE <1>1, <1>2
<1>3. ASSUME NEW k \in Keys PROVE Known(k)'
  <2>1. CASE k \in idle
    <3>1. entries'[k] = NoInfo /\ failedAt'[k] = 0
      BY <2>1, Zenon
    <3> QED
      BY <3>1, CleanIsKnown, Zenon DEF Tracked
  <2>2. CASE k \in Tracked /\ k \notin idle
    <3> USE <2>2
    <3>1. entries[k] \in HitInfo
      BY Zenon DEF Tracked, PrefetchTypeOK
    <3>2. /\ entries'[k] \in {entries[k], [entries[k] EXCEPT !.count = 0]}
          /\ failedAt'[k] = failedAt[k] /\ streak'[k] = streak[k]
      BY Zenon
    <3>3. /\ entries'[k] \in HitInfo
          /\ entries'[k].consecutive_failures = entries[k].consecutive_failures
          /\ entries'[k].last_prefetch_attempt = entries[k].last_prefetch_attempt
      BY <3>1, <3>2, TablesAssumption DEF HitInfo
    <3>4. k \in Tracked'
      BY <3>3, SentinelsAssumption, Zenon DEF Tracked
    <3> QED
      BY <3>2, <3>3, <3>4, TimesAssumption DEF FailuresKnown, Known, PrefetchTypeOK, Times
  <2>3. CASE k \notin Tracked
    <3>1. entries'[k] = entries[k] /\ failedAt'[k] = failedAt[k] /\ streak'[k] = streak[k]
      BY <2>3, Zenon DEF Tracked
    <3> QED
      BY <3>1, KnownStays, Zenon DEF FailuresKnown
  <2> QED
    BY <2>1, <2>2, <2>3, Zenon
<1> QED
  BY <1>3, Zenon DEF FailuresKnown

\* The end of a prefetch is noted with its key, if the table has it.
LEMMA EndKeepsKnown ==
  ASSUME PrefetchTypeOK, PrefetchTypeOK', FailuresKnown, NEW s \in Slots, Succeed(s) \/ Fail(s)
  PROVE  FailuresKnown'
<1> DEFINE j == task[s].key
<1>1. j \in Keys /\ clock' = clock /\ clock \in Times
  BY Zenon DEF Succeed, Fail, PrefetchTypeOK, Task
<1> USE <1>1
<1>2. ASSUME NEW k \in Keys PROVE Known(k)'
  <2>1. CASE k # j
    <3>1. entries'[k] = entries[k] /\ failedAt'[k] = failedAt[k] /\ streak'[k] = streak[k]
      BY <2>1 DEF Succeed, Fail, record_prefetch_failure, record_prefetch_success, PrefetchTypeOK
    <3> QED
      BY <3>1, KnownStays, ClockStays, Zenon DEF FailuresKnown
  <2>2. CASE k = j /\ k \notin Tracked
    <3>1. entries' = entries /\ failedAt'[k] = 0
      BY <2>2 DEF Succeed, Fail, record_prefetch_failure, record_prefetch_success,
         PrefetchTypeOK
    <3> QED
      BY <2>2, <3>1, CleanIsKnown, ClockStays, Zenon DEF Tracked
  <2>3. CASE k = j /\ k \in Tracked
    <3> USE <2>3
    <3>1. entries[k] \in HitInfo /\ streak[k] = entries[k].consecutive_failures
      BY Zenon DEF Tracked, PrefetchTypeOK, FailuresKnown, Known
    <3>2. CASE Fail(s)
      <4> USE <3>1
      <4>1. /\ entries'[k].last_prefetch_attempt = clock
            /\ entries'[k].consecutive_failures =
                 Least(entries[k].consecutive_failures + 1, MaxFailures)
        BY <3>2, Zenon DEF Fail, record_prefetch_failure, PrefetchTypeOK, HitInfo
      <4>2. failedAt'[k] = clock /\ streak'[k] = Least(streak[k] + 1, MaxFailures)
        BY <3>2, Zenon DEF Fail, PrefetchTypeOK
      <4>3. entries'[k] # NoInfo
        <5>1. Least(entries[k].consecutive_failures + 1, MaxFailures) \in 0..MaxFailures
          BY TimesAssumption, CapIsNatural, Zenon DEF HitInfo
        <5>2. entries'[k] = [entries[k] EXCEPT !.last_prefetch_attempt = clock,
                               !.consecutive_failures = Least(@ + 1, MaxFailures)]
          BY <3>2, Zenon DEF Fail, record_prefetch_failure, PrefetchTypeOK
        <5>3. entries'[k] \in HitInfo
          BY <5>1, <5>2, ZenonT(60) DEF HitInfo
        <5> QED
          BY <5>3, SentinelsAssumption, Zenon
      <4> QED
        BY <4>1, <4>2, <4>3 DEF Known, Tracked, Times
    <3>3. CASE Succeed(s)
      <4>1. entries'[k].consecutive_failures = 0
        BY <3>1, <3>3, Zenon DEF Succeed, record_prefetch_success, PrefetchTypeOK, HitInfo
      <4>2. failedAt'[k] = 0 /\ streak'[k] = 0
        BY <3>3, Zenon DEF Succeed, PrefetchTypeOK
      <4> QED
        BY <4>1, <4>2, CleanIsKnown, ClockStays, Zenon
    <3> QED
      BY <3>2, <3>3, Zenon
  <2> QED
    BY <2>1, <2>2, <2>3, Zenon
<1> QED
  BY <1>2, Zenon DEF FailuresKnown

LEMMA FailuresStayKnown == PrefetchTypeOK /\ PrefetchTypeOK' /\ FailuresKnown /\ [PrefetchNext]_prefetchVars => FailuresKnown'
<1> SUFFICES ASSUME PrefetchTypeOK, PrefetchTypeOK', FailuresKnown, [PrefetchNext]_prefetchVars PROVE FailuresKnown'
  BY Zenon
<1>1. CASE /\ clock' = clock /\ entries' = entries /\ failedAt' = failedAt /\ streak' = streak
  BY <1>1, Zenon DEF FailuresKnown, Known, Tracked
<1> QED
  BY <1>1, InsertKeepsKnown, RecordKeepsKnown, TurnKeepsKnown, EndKeepsKnown, Zenon
     DEF PrefetchNext, Begin, Miss, MissEnds, Evict, prefetchVars

\* A prefetch that is left alone stays timely: of its key's failures the last
\* may be forgotten, or be followed by another one.
LEMMA TimelyStays ==
  ASSUME PrefetchTypeOK, PrefetchTypeOK', NEW s \in Slots, Timely(s), clock <= clock',
         task'[s] # NoTask => task'[s] = task[s],
         LET k == task[s].key
         IN  task'[s] # NoTask =>
               \/ failedAt'[k] = failedAt[k] /\ streak'[k] = streak[k]
               \/ failedAt'[k] = 0
               \/ failedAt'[k] = clock'
  PROVE  Timely(s)'
<1> SUFFICES ASSUME task'[s] # NoTask PROVE Timely(s)'
  BY Zenon DEF Timely
<1>1. /\ task[s] \in Task /\ task'[s] = task[s] /\ task[s] # NoTask
      /\ task[s].key \in Keys /\ task[s].spawned \in Times
  BY Zenon DEF PrefetchTypeOK, Task
<1> USE <1>1
<1>2. clock \in Nat /\ clock' \in Nat /\ task[s].spawned \in Nat
  BY TimesAssumption DEF PrefetchTypeOK, Times
<1>3. task[s].spawned <= clock'
  BY <1>2 DEF Timely
<1> QED
  BY <1>2, <1>3 DEF Timely

\* A turn spawns what is ripe, which is past its backoff.
LEMMA TurnKeepsTimely ==
  ASSUME PrefetchTypeOK, PrefetchTypeOK', FailuresKnown, Turn, NEW s \in Slots, Timely(s)
  PROVE  Timely(s)'
<1> DEFINE t == clock + 1
           idle == {k \in Tracked : t - entries[k].last_seen >= MaxIdle}
           ripe == {k \in Tracked \ idle : /\ t < expires[k] /\ expires[k] - t <= Threshold
                                          /\ should_prefetch(entries[k], t)}
<1>1. clock' = t /\ clock <= clock'
  BY TimesAssumption DEF Turn, PrefetchTypeOK, Times
<1>2. \A k \in Keys : \/ failedAt'[k] = failedAt[k] /\ streak'[k] = streak[k]
                      \/ failedAt'[k] = 0
  BY Zenon DEF Turn
<1>3. \A k \in Keys : k \notin idle => failedAt'[k] = failedAt[k] /\ streak'[k] = streak[k]
  BY Zenon DEF Turn
<1>4. \/ task'[s] = task[s]
      \/ \E k \in ripe : task'[s] = [key |-> k, spawned |-> t, at |-> "delay"]
  BY Zenon DEF Turn
<1>5. \A k \in ripe : k \in Tracked /\ k \in Keys /\ k \notin idle /\ should_prefetch(entries[k], t)
  BY Zenon DEF Tracked
<1> HIDE DEF idle, ripe
<1>6. CASE task'[s] = task[s]
  <2>1. task[s] # NoTask => task[s].key \in Keys
    BY Zenon DEF PrefetchTypeOK, Task
  <2> QED
    BY <1>1, <1>2, <1>6, <2>1, TimelyStays, Zenon
<1>7. ASSUME NEW k \in ripe, task'[s] = [key |-> k, spawned |-> t, at |-> "delay"]
      PROVE  Timely(s)'
  <2> USE <1>7
  <2>1. task'[s].key = k /\ task'[s].spawned = t
    OBVIOUS
  <2>2. failedAt'[k] = failedAt[k] /\ streak'[k] = streak[k]
    BY <1>3, <1>5, Zenon
  <2>3. failedAt[k] > 0 => t - failedAt[k] >= backoff_secs(streak[k])
    BY <1>5, Zenon DEF FailuresKnown, Known, should_prefetch
  <2>4. t <= clock'
    BY <1>1 DEF PrefetchTypeOK, Times
  <2> QED
    BY <2>1, <2>2, <2>3, <2>4, Zenon DEF Timely
<1> QED
  BY <1>4, <1>6, <1>7, Zenon

\* Every step keeps every prefetch timely.
LEMMA TimelyKept ==
  ASSUME PrefetchTypeOK, PrefetchTypeOK', FailuresKnown, [PrefetchNext]_prefetchVars, NEW s \in Slots, Timely(s)
  PROVE  Timely(s)'
<1>1. task[s] # NoTask => task[s].key \in Keys
  BY Zenon DEF PrefetchTypeOK, Task
<1>2. CASE /\ clock' = clock /\ task' = task
           /\ UNCHANGED <<failedAt, streak>>
  BY <1>1, <1>2, TimelyStays, ClockStays, Zenon
<1>3. ASSUME NEW w \in Workers, InsertNew(w) PROVE Timely(s)'
  <2>1. clock' = clock /\ task' = task
        /\ \A k \in Keys : \/ failedAt'[k] = failedAt[k] /\ streak'[k] = streak[k]
                           \/ failedAt'[k] = 0
    BY <1>3, Zenon DEF InsertNew, PrefetchTypeOK
  <2> QED
    BY <1>1, <2>1, TimelyStays, ClockStays, Zenon
<1>4. ASSUME NEW r \in Slots, Begin(r) PROVE Timely(s)'
  <2>1. clock' = clock /\ UNCHANGED <<failedAt, streak>>
    BY <1>4, Zenon DEF Begin
  <2>2. CASE r # s
    <3>1. task'[s] = task[s]
      BY <1>4, <2>2, Zenon DEF Begin, PrefetchTypeOK
    <3> QED
      BY <1>1, <2>1, <3>1, TimelyStays, ClockStays, Zenon
  <2>3. CASE r = s
    <3>1. task[s] \in Task /\ task[s] # NoTask
      BY <1>4, <2>3, Zenon DEF Begin, PrefetchTypeOK
    <3>2. task'[s].at # "delay" /\ task'[s].spawned = task[s].spawned
      BY <1>4, <2>3, <3>1, Zenon DEF Begin, PrefetchTypeOK, Task
    <3> QED
      BY <2>1, <3>1, <3>2, Zenon DEF Timely
  <2> QED
    BY <2>2, <2>3, Zenon
<1>5. ASSUME NEW r \in Slots, Succeed(r) \/ Fail(r) PROVE Timely(s)'
  <2>1. clock' = clock /\ task'[s] \in {NoTask, task[s]}
    BY <1>5, Zenon DEF Succeed, Fail, Leave
  <2>2. \A k \in Keys : \/ failedAt'[k] = failedAt[k] /\ streak'[k] = streak[k]
                        \/ failedAt'[k] = 0
                        \/ failedAt'[k] = clock
    BY <1>5, Zenon DEF Succeed, Fail, PrefetchTypeOK
  <2> QED
    BY <1>1, <2>1, <2>2, TimelyStays, ClockStays, Zenon
<1>6. ASSUME NEW k \in Keys, MissEnds(k) PROVE Timely(s)'
  <2>1. clock' = clock /\ task'[s] \in {NoTask, task[s]} /\ UNCHANGED <<failedAt, streak>>
    BY <1>6, Zenon DEF MissEnds, Leave
  <2> QED
    BY <1>1, <2>1, TimelyStays, ClockStays, Zenon
<1> QED
  BY <1>2, <1>3, <1>4, <1>5, <1>6, TurnKeepsTimely, Zenon DEF PrefetchNext, Record, Miss, Evict, prefetchVars

\* The inductive invariant of prefetching.
THEOREM PrefetchInductive == PrefetchSpec => []PrefetchInv
<1>1. PrefetchInit => PrefetchInv
  <2> SUFFICES ASSUME PrefetchInit PROVE FailuresKnown /\ \A s \in Slots : Timely(s)
    BY InitTyped, Zenon DEF PrefetchInv
  <2>1. FailuresKnown
    BY DEF PrefetchInit, FailuresKnown, Known, Tracked
  <2>2. \A s \in Slots : Timely(s)
    BY Zenon DEF PrefetchInit, Timely
  <2> QED
    BY <2>1, <2>2, Zenon
<1>2. PrefetchInv /\ [PrefetchNext]_prefetchVars => PrefetchInv'
  BY StepTyped, FailuresStayKnown, TimelyKept, Zenon DEF PrefetchInv
<1> QED
  BY <1>1, <1>2, PTL DEF PrefetchSpec

(***************************************************************************)
(* The size of the table                                                   *)
(***************************************************************************)
\* At most one key comes with each query.
FewComing == IsFiniteSet(Coming) /\ Cardinality(Coming) <= Cardinality(Workers)

(***************************************************************************)
(* Geo and Prefetch: the sizes of finite sets. The facts of                *)
(* FiniteSetTheorems about IsFiniteSet and Cardinality, for the operators  *)
(* of the models.                                                          *)
(***************************************************************************)
F == INSTANCE FiniteSetTheorems

LEMMA FiniteSame ==
  \A S : F!IsFiniteSet(S) <=> IsFiniteSet(S)
BY Zenon DEF F!IsFiniteSet, IsFiniteSet

LEMMA SizeSame ==
  \A S : F!Cardinality(S) = Cardinality(S)
BY Zenon DEF F!Cardinality, Cardinality

LEMMA SizeIsNumber ==
  ASSUME NEW S, IsFiniteSet(S)
  PROVE  Cardinality(S) \in Nat
BY FiniteSame, SizeSame, F!FS_CardinalityType, Zenon

LEMMA SizeOfEmpty ==
  /\ IsFiniteSet({}) /\ Cardinality({}) = 0
  /\ \A S : IsFiniteSet(S) => (Cardinality(S) = 0 <=> S = {})
BY FiniteSame, SizeSame, F!FS_EmptySet, Zenon

LEMMA SizeOfSubset ==
  ASSUME NEW S, IsFiniteSet(S), NEW T \in SUBSET S
  PROVE  /\ IsFiniteSet(T)
         /\ Cardinality(T) <= Cardinality(S)
         /\ Cardinality(S) = Cardinality(T) => S = T
BY FiniteSame, SizeSame, F!FS_Subset, Zenon

LEMMA SizeOfUnion ==
  ASSUME NEW S, IsFiniteSet(S), NEW T, IsFiniteSet(T)
  PROVE  /\ IsFiniteSet(S \cup T)
         /\ Cardinality(S \cup T) = Cardinality(S) + Cardinality(T) - Cardinality(S \cap T)
BY FiniteSame, SizeSame, F!FS_Union, Zenon

LEMMA SizeOfIntersection ==
  ASSUME NEW S, IsFiniteSet(S), NEW T
  PROVE  IsFiniteSet(S \cap T) /\ Cardinality(S \cap T) <= Cardinality(S)
BY FiniteSame, SizeSame, F!FS_Intersection, Zenon

LEMMA SizeOfImage ==
  ASSUME NEW S, IsFiniteSet(S), NEW T, NEW f \in [S -> T],
         \A t \in T : \E s \in S : f[s] = t
  PROVE  IsFiniteSet(T) /\ Cardinality(T) <= Cardinality(S)
BY FiniteSame, SizeSame, F!FS_Surjection DEF F!Surjection

LEMMA SizeOfInterval ==
  ASSUME NEW a \in Int, NEW b \in Int
  PROVE  /\ IsFiniteSet(a..b)
         /\ Cardinality(a..b) = IF a > b THEN 0 ELSE b - a + 1
BY FiniteSame, SizeSame, F!FS_Interval, Zenon

LEMMA SizeOfPowerset ==
  ASSUME NEW S, IsFiniteSet(S)
  PROVE  IsFiniteSet(SUBSET S) /\ Cardinality(SUBSET S) = 2^Cardinality(S)
BY FiniteSame, SizeSame, F!FS_SUBSET, Zenon

LEMMA SizeOfMore ==
  ASSUME NEW S, IsFiniteSet(S), NEW x, x \notin S
  PROVE  IsFiniteSet(S \cup {x}) /\ Cardinality(S \cup {x}) = Cardinality(S) + 1
BY FiniteSame, SizeSame, F!FS_AddElement, Zenon

LEMMA SizeOfFewer ==
  ASSUME NEW S, IsFiniteSet(S), NEW x, x \in S
  PROVE  IsFiniteSet(S \ {x}) /\ Cardinality(S \ {x}) = Cardinality(S) - 1
BY FiniteSame, SizeSame, F!FS_RemoveElement, Zenon

LEMMA SizeOfDistinct ==
  ASSUME NEW S, NEW T, IsFiniteSet(T), NEW f \in [S -> T],
         \A a, b \in S : f[a] = f[b] => a = b
  PROVE  IsFiniteSet(S) /\ Cardinality(S) <= Cardinality(T)
<1>1. f \in F!Injection(S, T)
  BY Zenon DEF F!Injection, F!IsInjective
<1> QED
  BY <1>1, FiniteSame, SizeSame, F!FS_Injection, Zenon

(***************************************************************************)
(* Geo: the silence of a peer that stayed up, counted in intervals.        *)
(***************************************************************************)
Span(n) == n * Interval

Accounted(p) ==
  mesh /\ p \in Senders /\ ~out[p] /\ lost[p] < MaxLost =>
    silence[p] + timer[p] <= Span(lost[p] + Cardinality(flight[p]) + 1)

\* Spans of intervals, so that nothing else multiplies.
LEMMA Spans ==
  ASSUME NEW n \in Nat
  PROVE  /\ Span(n) \in Nat /\ Span(n + 1) \in Nat
         /\ Span(n + 1) = Span(n) + Interval /\ Span(n + 1) >= Interval
<1>1. Interval \in Nat
  BY TimeAssumption, Zenon
<1>2. n * Interval \in Nat /\ (n + 1) * Interval = n * Interval + Interval
  BY <1>1
<1> QED
  BY <1>1, <1>2 DEF Span

LEMMA SpansOrdered ==
  ASSUME NEW m \in Nat, NEW n \in Nat, m <= n
  PROVE  Span(m) <= Span(n)
<1>1. Interval \in Nat /\ n - m \in Nat
  BY TimeAssumption
<1> USE <1>1
<1>2. (n - m) * Interval \in Nat
  OBVIOUS
<1>3. n * Interval = m * Interval + (n - m) * Interval
  OBVIOUS
<1>4. m * Interval \in Nat /\ n * Interval \in Nat
  OBVIOUS
<1> QED
  BY <1>2, <1>3, <1>4 DEF Span

LEMMA SpansAdded ==
  ASSUME NEW m \in Nat, NEW n \in Nat
  PROVE  Span(m + n) = Span(m) + Span(n)
BY TimeAssumption DEF Span

\* The heartbeats under way are a finite number of them.
LEMMA FlightIsFinite ==
  ASSUME NEW S \in SUBSET (0..MaxDelay)
  PROVE  IsFiniteSet(S) /\ Cardinality(S) \in Nat
<1>1. IsFiniteSet(0..MaxDelay)
  BY SizeOfInterval, TimeAssumption
<1> QED
  BY <1>1, SizeOfSubset, SizeIsNumber, Zenon

\* Ages that are Interval apart fall into different intervals.
LEMMA OnePerInterval ==
  ASSUME NEW a \in Nat, NEW b \in Nat, NEW g \in Nat, NEW n \in Nat \ {0},
         g <= a, a + n <= b
  PROVE  (a - g) \div n # (b - g) \div n
<1> DEFINE x == (a - g) \div n
           y == (b - g) \div n
<1>1. x \in Int /\ y \in Int
  OBVIOUS
<1>2. /\ a - g = n * x + ((a - g) % n) /\ (a - g) % n \in 0..(n - 1)
      /\ b - g = n * y + ((b - g) % n) /\ (b - g) % n \in 0..(n - 1)
  OBVIOUS
<1> HIDE DEF x, y
<1>3. SUFFICES ASSUME x = y PROVE FALSE
  BY DEF x, y
<1>4. b - a = ((b - g) % n) - ((a - g) % n)
  BY <1>1, <1>2, <1>3
<1> QED
  BY <1>2, <1>4

\* As many heartbeats are under way as the delay has room for.
LEMMA FewUnderWay ==
  ASSUME GeoTypeOK, NEW p \in Peers, Spaced(p)
  PROVE  Span(Cardinality(flight[p])) <= MaxDelay + timer[p]
<1> DEFINE g == Interval - timer[p]
           q == (MaxDelay - g) \div Interval
           h == [a \in flight[p] |-> (a - g) \div Interval]
<1> USE TimeAssumption
<1>1. timer[p] \in 0..Interval /\ g \in Nat /\ flight[p] \subseteq 0..MaxDelay
  BY DEF GeoTypeOK
<1>2. CASE flight[p] = {}
  <2>1. Span(Cardinality(flight[p])) = 0
    BY <1>2, SizeOfEmpty DEF Span
  <2> QED
    BY <1>1, <2>1
<1>3. CASE flight[p] # {}
  <2>1. \A a \in flight[p] : a \in Nat /\ g <= a /\ a <= MaxDelay
    BY <1>1 DEF Spaced
  <2>2. MaxDelay - g \in Nat
    BY <1>1, <1>3, <2>1
  <2>3. q \in Nat /\ q * Interval <= MaxDelay - g
    BY <2>2
  <2>4. \A a \in flight[p] : (a - g) \div Interval \in 0..q
    BY <1>1, <2>1, <2>2
  <2>5. h \in [flight[p] -> 0..q]
    BY <2>4
  <2>6. \A a, b \in flight[p] : a < b => a + Interval <= b
    BY <1>1, <2>1 DEF Spaced
  <2>7. \A a, b \in flight[p] : a < b => h[a] # h[b]
    BY <1>1, <2>1, <2>6, OnePerInterval
  <2> HIDE DEF h, q, g
  <2>8. \A a, b \in flight[p] : h[a] = h[b] => a = b
    BY <2>1, <2>7
  <2>9. IsFiniteSet(0..q) /\ Cardinality(0..q) = q + 1
    BY <2>3, SizeOfInterval
  <2>10. Cardinality(flight[p]) <= q + 1
    <3>1. Cardinality(flight[p]) <= Cardinality(0..q)
      BY <2>5, <2>8, <2>9, SizeOfDistinct, Zenon
    <3> QED
      BY <2>9, <3>1, Zenon
  <2>11. Span(Cardinality(flight[p])) <= Span(q + 1) /\ Span(q + 1) = Span(q) + Interval
    <3>1. Cardinality(flight[p]) \in Nat
      BY <1>1, FlightIsFinite, Zenon
    <3>2. q + 1 \in Nat
      BY <2>3
    <3> QED
      BY <2>3, <2>10, <3>1, <3>2, SpansOrdered, Spans, Zenon
  <2>12. Span(q) <= MaxDelay - g /\ Span(q) \in Nat
    BY <2>3, Spans DEF Span
  <2>13. Span(Cardinality(flight[p])) \in Nat
    BY <1>1, FlightIsFinite, Spans, Zenon
  <2> QED
    BY <1>1, <2>11, <2>12, <2>13 DEF g
<1> QED
  BY <1>2, <1>3

\* What a step that takes no heartbeat from the account leaves to prove.
LEMMA AccountGrows ==
  ASSUME NEW s \in Int, NEW s1 \in Int, s1 <= s, NEW m \in Nat, NEW n \in Nat, m <= n,
         s <= Span(m + 1)
  PROVE  s1 <= Span(n + 1)
<1>1. m + 1 \in Nat /\ n + 1 \in Nat /\ m + 1 <= n + 1
  OBVIOUS
<1>2. Span(m + 1) <= Span(n + 1) /\ Span(m + 1) \in Nat /\ Span(n + 1) \in Nat
  BY <1>1, Spans, SpansOrdered, Zenon
<1> QED
  BY <1>2

\* No heartbeat is due before the first interval is over.
LEMMA InitAccounted == ASSUME GeoInit, NEW p \in Peers PROVE Accounted(p)
<1>1. silence[p] = 0 /\ timer[p] = Interval /\ lost[p] = 0 /\ Cardinality(flight[p]) = 0
  BY SizeOfEmpty, Zenon DEF GeoInit
<1>2. Span(1) = Interval
  BY TimeAssumption DEF Span
<1> QED
  BY <1>1, <1>2, TimeAssumption DEF Accounted

\* The account of the silence: a heartbeat sent is under way, one under way
\* is lost or resets the account.
LEMMA AccountKept ==
  ASSUME GeoTypeOK, GeoTypeOK', NEW p \in Peers, Spaced(p), Accounted(p), Dead(p), [GeoNext]_geoVars
  PROVE  Accounted(p)'
<1> USE TimeAssumption
<1> DEFINE c == Cardinality(flight[p])
           d == Cardinality(flight'[p])
<1>1. /\ timer[p] \in 0..Interval /\ silence[p] \in Nat /\ lost[p] \in 0..MaxLost
      /\ timer'[p] \in 0..Interval /\ silence'[p] \in Nat /\ lost'[p] \in 0..MaxLost
  BY SMTT(60) DEF GeoTypeOK, MaxAge, Grace
<1>2. c \in Nat /\ d \in Nat /\ Interval \in Nat /\ IsFiniteSet(flight[p]) /\ IsFiniteSet(flight'[p])
  <2>1. flight[p] \in SUBSET (0..MaxDelay) /\ flight'[p] \in SUBSET (0..MaxDelay)
    BY Zenon DEF GeoTypeOK
  <2> QED
    BY <2>1, FlightIsFinite, Zenon
<1> HIDE DEF c, d
<1>3. CASE UNCHANGED <<mesh, netVars>>
  BY <1>3, Zenon DEF Accounted, netVars
<1>0. SUFFICES ASSUME mesh', p \in Senders, ~out'[p], lost'[p] < MaxLost
               PROVE  silence'[p] + timer'[p] <= Span(lost'[p] + d + 1)
  BY Zenon DEF Accounted, d
<1>a. mesh /\ ~out[p] /\ lost[p] < MaxLost => silence[p] + timer[p] <= Span(lost[p] + c + 1)
  BY <1>0, Zenon DEF Accounted, c
<1>d. Accounted(p)' => silence'[p] + timer'[p] <= Span(lost'[p] + d + 1)
  BY <1>0, Zenon DEF Accounted, d
<1>b. CASE silence'[p] = 0
  <2>1. lost'[p] + d \in Nat
    BY <1>1, <1>2 DEF MaxLost
  <2>2. Span(lost'[p] + d + 1) >= Interval /\ Span(lost'[p] + d + 1) \in Nat
    BY <2>1, Spans, Zenon
  <2> QED
    BY <1>b, <1>1, <2>2
<1>c. ASSUME mesh, ~out[p], lost[p] < MaxLost,
             silence'[p] + timer'[p] <= silence[p] + timer[p],
             lost[p] + c <= lost'[p] + d
      PROVE  silence'[p] + timer'[p] <= Span(lost'[p] + d + 1)
  <2>1. lost'[p] + d \in Nat /\ lost[p] + c \in Nat
    BY <1>1, <1>2 DEF MaxLost
  <2>2. silence[p] + timer[p] <= Span(lost[p] + c + 1)
    BY <1>a, <1>c, Zenon
  <2>3. silence[p] + timer[p] \in Int /\ silence'[p] + timer'[p] \in Int
    BY <1>1
  <2> QED
    BY <1>c, <2>1, <2>2, <2>3, AccountGrows, Zenon
<1>4. ASSUME NEW q \in Peers, Send(q) PROVE silence'[p] + timer'[p] <= Span(lost'[p] + d + 1)
  <2>1. CASE q = p
    <3>1. 0 \notin flight[p] /\ timer[p] = 0
      BY <1>4, <2>1 DEF Spaced, Send
    <3>2. flight'[p] = flight[p] \cup {0}
      BY <1>4, <2>1, Zenon DEF Send, GeoTypeOK
    <3>3. d = c + 1
      BY <1>2, <3>1, <3>2, SizeOfMore, Zenon DEF c, d
    <3>4. timer'[p] = Interval /\ UNCHANGED <<mesh, out, lost, silence>>
      BY <1>4, <2>1, Zenon DEF Send, GeoTypeOK
    <3>5. lost[p] + c + 1 \in Nat /\ lost'[p] + d + 1 = (lost[p] + c + 1) + 1
      BY <1>1, <1>2, <3>3, <3>4 DEF MaxLost
    <3>6. Span((lost[p] + c + 1) + 1) = Span(lost[p] + c + 1) + Interval /\ Span(lost[p] + c + 1) \in Nat
      BY <3>5, Spans, Zenon
    <3>7. silence[p] + timer[p] <= Span(lost[p] + c + 1)
      BY <1>0, <1>a, <3>4, Zenon
    <3> QED
      BY <1>1, <1>2, <3>1, <3>4, <3>5, <3>6, <3>7
  <2>2. CASE q # p
    <3>1. UNCHANGED <<mesh, out, lost, silence>> /\ timer'[p] = timer[p] /\ flight'[p] = flight[p]
      BY <1>4, <2>2, Zenon DEF Send, GeoTypeOK
    <3> QED
      BY <1>0, <1>a, <3>1, Zenon DEF c, d
  <2> QED
    BY <2>1, <2>2, Zenon
<1>5. ASSUME NEW q \in Peers, apply_peer_heartbeat(q) PROVE silence'[p] + timer'[p] <= Span(lost'[p] + d + 1)
  <2>1. CASE q = p
    BY <1>5, <1>b, <2>1, Zenon DEF apply_peer_heartbeat, GeoTypeOK
  <2>2. CASE q # p
    <3>1. /\ mesh' = mesh /\ out'[p] = out[p] /\ lost'[p] = lost[p] /\ silence'[p] = silence[p]
          /\ timer'[p] = timer[p] /\ flight'[p] = flight[p]
      BY <1>5, <2>2, ZenonT(60) DEF apply_peer_heartbeat, GeoTypeOK
    <3> QED
      BY <1>0, <1>a, <3>1, Zenon DEF c, d
  <2> QED
    BY <2>1, <2>2, Zenon
<1>6. ASSUME NEW q \in Peers, Lose(q) PROVE silence'[p] + timer'[p] <= Span(lost'[p] + d + 1)
  <2>1. CASE q = p
    <3>1. PICK a \in flight[p] : flight'[p] = flight[p] \ {a}
      BY <1>6, <2>1, Zenon DEF Lose, GeoTypeOK
    <3>2. d = c - 1
      BY <1>2, <3>1, SizeOfFewer, Zenon DEF c, d
    <3>3. lost'[p] = Cap(lost[p] + 1, MaxLost) /\ UNCHANGED <<mesh, out, silence, timer>>
      BY <1>6, <2>1, Zenon DEF Lose, GeoTypeOK
    <3>4. lost[p] < MaxLost /\ lost'[p] = lost[p] + 1
      BY <1>0, <1>1, <3>3 DEF Cap, MaxLost
    <3>5. lost[p] + c <= lost'[p] + d /\ silence'[p] + timer'[p] <= silence[p] + timer[p]
      BY <1>1, <1>2, <3>2, <3>3, <3>4
    <3> QED
      BY <1>0, <1>c, <3>3, <3>4, <3>5, Zenon
  <2>2. CASE q # p
    <3>1. /\ mesh' = mesh /\ out'[p] = out[p] /\ lost'[p] = lost[p] /\ silence'[p] = silence[p]
          /\ timer'[p] = timer[p] /\ flight'[p] = flight[p]
      BY <1>6, <2>2, ZenonT(60) DEF Lose, GeoTypeOK
    <3> QED
      BY <1>0, <1>a, <3>1, Zenon DEF c, d
  <2> QED
    BY <2>1, <2>2, Zenon
<1>7. ASSUME NEW q \in Peers, Crash(q) \/ RestartPeer(q) PROVE Accounted(p)'
  BY <1>7, ZenonT(60) DEF Crash, RestartPeer, Accounted, GeoTypeOK, Dead
<1>8. CASE RestartSelf
  BY <1>8, <1>b, Zenon DEF RestartSelf
<1>9. CASE GeoTick
  <2>1. UNCHANGED <<mesh, out, lost>> /\ flight'[p] = {a + 1 : a \in flight[p]}
    BY <1>9, ZenonT(60) DEF GeoTick
  <2>2. c <= d
    <3> DEFINE f == [b \in flight'[p] |-> b - 1]
    <3>1. \A a \in flight[p] : a \in Int /\ (a + 1) - 1 = a
      BY DEF GeoTypeOK
    <3>2. f \in [flight'[p] -> flight[p]] /\ \A a \in flight[p] : \E b \in flight'[p] : f[b] = a
      BY <2>1, <3>1
    <3> HIDE DEF f
    <3> QED
      BY <1>2, <3>2, SizeOfImage, Zenon DEF c, d
  <2>3. up[p] /\ Beats(p)
    BY <1>0, <2>1, Zenon DEF Dead, Beats
  <2>4. timer'[p] = timer[p] - 1 /\ silence'[p] = Cap(silence[p] + 1, MaxAge)
    BY <1>9, <2>3, ZenonT(60) DEF GeoTick
  <2>5. silence'[p] + timer'[p] <= silence[p] + timer[p]
    BY <1>1, <2>4 DEF Cap, MaxAge, Grace
  <2>6. lost[p] + c <= lost'[p] + d
    BY <1>1, <1>2, <2>1, <2>2 DEF MaxLost
  <2> QED
    BY <1>0, <1>c, <2>1, <2>5, <2>6, Zenon
<1>10. ASSUME NEW q \in Peers, ProbeOk(q) \/ ProbeFails(q) PROVE UNCHANGED <<mesh, netVars>>
  BY <1>10, Zenon DEF ProbeOk, ProbeFails
<1> QED
  BY <1>3, <1>4, <1>5, <1>6, <1>7, <1>8, <1>9, <1>10, <1>d, Zenon DEF GeoNext, geoVars

\* excluded_by_peer_mesh keeps a peer that stayed up, as long as it did not
\* lose more heartbeats in a row than the grace period has room for.
THEOREM LivePeersAreKept == GeoSpec => []LivePeerKept
<1> DEFINE Accounts == \A p \in Peers : Accounted(p)
<1>1. GeoInit => Accounts
  BY InitAccounted, Zenon
<1>2. GeoInv /\ GeoInv' /\ Accounts /\ [GeoNext]_geoVars => Accounts'
  BY AccountKept, Zenon DEF GeoInv
<1>3. GeoInv /\ Accounts => LivePeerKept
  <2> SUFFICES ASSUME GeoInv, Accounts, mesh, NEW p \in Peers \cap Senders, Excluded(p), ~out[p]
               PROVE  (lost[p] + 1) * Interval + MaxDelay > Grace
    BY Zenon DEF LivePeerKept
  <2> DEFINE c == Cardinality(flight[p])
  <2> USE TimeAssumption
  <2>1. /\ timer[p] \in 0..Interval /\ silence[p] \in Nat /\ lost[p] \in 0..MaxLost
        /\ MaxLost = 5
    BY SMTT(60) DEF GeoInv, GeoTypeOK, MaxAge, Grace, MaxLost
  <2>2. CASE lost[p] < MaxLost
    <3>1. silence[p] + timer[p] <= Span(lost[p] + c + 1)
      BY <2>2, Zenon DEF Accounted
    <3>2. c \in Nat
      BY FlightIsFinite, Zenon DEF GeoInv, GeoTypeOK
    <3>3. Span(c) <= MaxDelay + timer[p]
      BY FewUnderWay, Zenon DEF GeoInv
    <3> HIDE DEF c
    <3>4. lost[p] + 1 \in Nat /\ lost[p] + c + 1 = (lost[p] + 1) + c
      BY <2>1, <3>2
    <3>5. Span(lost[p] + c + 1) = Span(lost[p] + 1) + Span(c)
      BY <3>2, <3>4, SpansAdded, Zenon
    <3>6. Span(lost[p] + 1) \in Nat /\ Span(c) \in Nat
      BY <3>2, <3>4, Spans, Zenon
    <3>7. silence[p] <= Span(lost[p] + 1) + MaxDelay
      BY <2>1, <3>1, <3>3, <3>5, <3>6
    <3>8. silence[p] > Grace
      BY Zenon DEF Excluded, excluded_by_peer_mesh
    <3> QED
      BY <2>1, <3>6, <3>7, <3>8 DEF Span, Grace
  <2>3. CASE lost[p] = MaxLost
    BY <2>1, <2>3 DEF Grace
  <2> QED
    BY <2>1, <2>2, <2>3
<1> HIDE DEF Accounts
<1> QED
  BY <1>1, <1>2, <1>3, GeoInductive, PTL DEF GeoSpec

\* truncate(response_ip_count) of the sorted nodes.
LEMMA BestOf ==
  ASSUME NEW S \in SUBSET Nodes, NEW T \in Best(S)
  PROVE  T \subseteq S /\ Cardinality(T) <= ResponseCount /\ (S # {} => T # {})
<1>1. IsFiniteSet(S) /\ Cardinality(S) \in Nat /\ (Cardinality(S) = 0 <=> S = {})
  BY NodesAssumption, SizeOfSubset, SizeIsNumber, SizeOfEmpty, Zenon
<1>2. T \subseteq S /\ Cardinality(T) = Cap(Cardinality(S), ResponseCount)
  BY Zenon DEF Best
<1>3. Cardinality({}) = 0
  BY SizeOfEmpty, Zenon
<1> QED
  BY <1>1, <1>2, <1>3, TimeAssumption DEF Cap

\* answer returns nodes that are alive, or any enabled node when none is: in
\* every state, whatever the health of the nodes.
THEOREM AnswersAreAlive == GeoSpec => []AnswersWithTheLiving
<1>1. AnswersWithTheLiving
  <2> SUFFICES ASSUME NEW q \in Qtypes, NEW S \in answer(q)
               PROVE  /\ Enabled \cap Family(q) # {} => S # {} /\ S \subseteq Enabled
                      /\ S \subseteq Family(q) /\ Cardinality(S) <= ResponseCount
                      /\ \A n \in S \cap Enabled : Excluded(n) =>
                           \A m \in Enabled \cap Family(q) : Excluded(m)
    BY Zenon DEF AnswersWithTheLiving
  <2> DEFINE healthy == score_all(q) \cap Family(q)
             all == Enabled \cap Family(q)
  <2>1. healthy \subseteq all /\ all \subseteq Nodes
    BY NodesAssumption, Zenon DEF score_all
  <2>2. \A n \in healthy : ~Excluded(n)
    BY Zenon DEF score_all
  <2>3. \A m \in all : ~Excluded(m) => m \in healthy
    BY Zenon DEF score_all, Family, Qtypes
  <2>4. CASE healthy # {}
    <3>1. S \in Best(healthy)
      BY <2>4, Zenon DEF answer
    <3> QED
      BY <2>1, <2>2, <2>4, <3>1, BestOf
  <2>5. CASE healthy = {} /\ all # {}
    <3>1. S \in Best(all)
      BY <2>5, Zenon DEF answer
    <3> QED
      BY <2>1, <2>3, <2>5, <3>1, BestOf
  <2>6. CASE healthy = {} /\ all = {}
    <3>1. S = DefaultNodes \cap Family(q)
      BY <2>6, Zenon DEF answer
    <3>2. IsFiniteSet(DefaultNodes)
      BY NodesAssumption, SizeOfSubset, Zenon
    <3>3. Cardinality(S) <= Cardinality(DefaultNodes) /\ Cardinality(S) \in Nat
      BY <3>1, <3>2, SizeOfSubset, SizeIsNumber, Zenon
    <3>4. Cardinality(DefaultNodes) \in Nat
      BY <3>2, SizeIsNumber, Zenon
    <3>5. Cardinality(S) <= ResponseCount
      BY <3>3, <3>4, NodesAssumption, TimeAssumption
    <3> QED
      BY <2>3, <2>6, <3>1, <3>5, Zenon
  <2> QED
    BY <2>4, <2>5, <2>6, Zenon
<1> QED
  BY <1>1, PTL

\* Powers of two are natural numbers: 2 ^ n is the number of subsets of 1..n.
LEMMA PowerOfTwo == ASSUME NEW n \in Nat PROVE 2 ^ n \in Nat
<1>1. IsFiniteSet(1..n) /\ Cardinality(1..n) = n
  BY SizeOfInterval
<1>2. IsFiniteSet(SUBSET (1..n)) /\ Cardinality(SUBSET (1..n)) = 2 ^ n
  BY <1>1, SizeOfPowerset, Zenon
<1> QED
  BY <1>2, SizeIsNumber, Zenon

LEMMA BackoffIsNumber == ASSUME NEW f \in Nat PROVE backoff_secs(f) \in Nat
<1> USE TimesAssumption
<1>1. Least(f, MaxShift) \in Nat
  BY Zenon DEF Least
<1>2. 2 ^ Least(f, MaxShift) \in Nat
  BY <1>1, PowerOfTwo, Zenon
<1>3. BackoffBase * 2 ^ Least(f, MaxShift) \in Nat
  BY <1>2
<1> QED
  BY <1>3, Zenon DEF backoff_secs, Least

\* Whatever the number of keys, permits and queries: prefetch_loop and the
\* tasks it spawns hold the backoff that record_prefetch_failure counted,
\* through prunes, inserts over an entry and tasks that begin late.
THEOREM BackoffIsHeld == PrefetchSpec => BackoffHeld
<1> DEFINE Held ==
      \A s \in Slots :
        task[s] # NoTask /\ task[s].at = "delay" /\ task'[s] # NoTask /\ task'[s].at = "lead" =>
          LET k == task[s].key
          IN  failedAt[k] > 0 => \/ task[s].spawned <= failedAt[k]
                                 \/ clock - failedAt[k] >= backoff_secs(streak[k])
<1>1. PrefetchInv => Held
  <2> SUFFICES ASSUME PrefetchInv, NEW s \in Slots, task[s] # NoTask, task[s].at = "delay",
                      failedAt[task[s].key] > 0, ~(task[s].spawned <= failedAt[task[s].key])
               PROVE  clock - failedAt[task[s].key] >= backoff_secs(streak[task[s].key])
    BY Zenon
  <2> DEFINE k == task[s].key
  <2>1. task[s] \in Task /\ k \in Keys /\ PrefetchTypeOK /\ Timely(s)
    BY Zenon DEF PrefetchInv, PrefetchTypeOK, Task
  <2>2. task[s].spawned \in Nat /\ clock \in Nat /\ failedAt[k] \in Nat /\ streak[k] \in Nat
    BY <2>1, TimesAssumption DEF PrefetchTypeOK, Task, Times
  <2>3. backoff_secs(streak[k]) \in Nat
    BY <2>2, BackoffIsNumber, Zenon
  <2>4. task[s].spawned <= clock /\ task[s].spawned - failedAt[k] >= backoff_secs(streak[k])
    BY <2>1, Zenon DEF Timely
  <2> QED
    BY <2>2, <2>3, <2>4
<1>2. PrefetchInv /\ [PrefetchNext]_prefetchVars => [Held]_prefetchVars
  BY <1>1, Zenon
<1> QED
  BY <1>2, PrefetchInductive, PTL DEF PrefetchSpec, BackoffHeld

LEMMA ComingAreFew == FewComing
<1> DEFINE W == {v \in Workers : inserts[v] # NoKey}
           f == [v \in W |-> inserts[v].key]
<1>1. IsFiniteSet(W) /\ Cardinality(W) <= Cardinality(Workers)
  BY TablesAssumption, SizeOfSubset, Zenon
<1>2. f \in [W -> Coming] /\ \A k \in Coming : \E v \in W : f[v] = k
  BY Zenon DEF Coming
<1> HIDE DEF f
<1> USE <1>1
<1>3. IsFiniteSet(Coming) /\ Cardinality(Coming) <= Cardinality(W)
  BY <1>2, SizeOfImage, Zenon
<1>4. /\ Cardinality(W) \in Nat /\ Cardinality(Workers) \in Nat
      /\ Cardinality(Coming) \in Nat
  BY <1>3, TablesAssumption, SizeIsNumber, Zenon
<1> QED
  BY <1>3, <1>4 DEF FewComing

\* That holds after a step as well.
LEMMA ComingAfter == FewComing'
BY ComingAreFew, PTL

\* The table and what comes do not grow, but by a query that saw room.
LEMMA FewerKeepRoom ==
  ASSUME Room, Tracked' \cup Coming' \subseteq Tracked \cup Coming
  PROVE  Room'
<1>1. IsFiniteSet(Tracked \cup Coming)
  BY ComingAreFew, SizeOfUnion, Zenon DEF Room, FewComing
<1>2. /\ IsFiniteSet(Tracked' \cup Coming') /\ IsFiniteSet(Tracked')
      /\ Cardinality(Tracked' \cup Coming') <= Cardinality(Tracked \cup Coming)
  <2>1. Tracked' \subseteq Tracked \cup Coming
    BY Zenon
  <2> QED
    BY <1>1, <2>1, SizeOfSubset, Zenon
<1>3. /\ Cardinality(Tracked' \cup Coming') \in Nat /\ Cardinality(Tracked \cup Coming) \in Nat
      /\ Cardinality(Workers) \in Nat
  BY <1>1, <1>2, TablesAssumption, SizeIsNumber, Zenon
<1> QED
  BY <1>2, <1>3, TablesAssumption DEF Room

\* A query that saw room adds its key to those that come.
LEMMA SeenRoom ==
  ASSUME Room, Tracked' = Tracked, Cardinality(Tracked) < MaxEntries
  PROVE  Room'
<1>1. IsFiniteSet(Coming') /\ Cardinality(Coming') <= Cardinality(Workers)
  BY ComingAfter, Zenon DEF FewComing
<1>2. IsFiniteSet(Tracked)
  BY Zenon DEF Room
<1> USE <1>1, <1>2
<1>3. Cardinality(Tracked \cup Coming') =
        Cardinality(Tracked) + Cardinality(Coming') - Cardinality(Tracked \cap Coming')
  BY SizeOfUnion, Zenon
<1>4. IsFiniteSet(Tracked \cap Coming')
  BY SizeOfIntersection, Zenon
<1>5. /\ Cardinality(Tracked) \in Nat /\ Cardinality(Coming') \in Nat
      /\ Cardinality(Tracked \cap Coming') \in Nat /\ Cardinality(Workers) \in Nat
  BY <1>4, TablesAssumption, SizeIsNumber, Zenon
<1>6. Cardinality(Tracked \cup Coming') <= MaxEntries + Cardinality(Workers) - 1
  BY <1>3, <1>5, TablesAssumption
<1> QED
  BY <1>6, Zenon DEF Room

\* The table overshoots its limit by no more than the queries that saw room.
LEMMA RoomKept == PrefetchTypeOK /\ PrefetchTypeOK' /\ Room /\ [PrefetchNext]_prefetchVars => Room'
<1> SUFFICES ASSUME PrefetchTypeOK, PrefetchTypeOK', Room, [PrefetchNext]_prefetchVars PROVE Room'
  BY Zenon
<1>1. CASE UNCHANGED <<entries, inserts>>
  BY <1>1, FewerKeepRoom, Zenon DEF Tracked, Coming
<1>2. ASSUME inserts' = inserts, \A k \in Keys : entries'[k] # NoInfo => k \in Tracked
      PROVE  Room'
  BY <1>2, FewerKeepRoom, Zenon DEF Tracked, Coming
<1>3. ASSUME NEW w \in Workers, InsertNew(w) PROVE Room'
  <2> DEFINE i == inserts[w].key
  <2>1. i \in Coming /\ \A k \in Keys : k # i => entries'[k] = entries[k]
    BY <1>3, Zenon DEF InsertNew, Coming, PrefetchTypeOK
  <2>2. Tracked' \subseteq Tracked \cup {i}
    BY <2>1, Zenon DEF Tracked
  <2>3. Coming' \subseteq Coming
    <3>1. inserts' = [inserts EXCEPT ![w] = NoKey]
      BY <1>3, Zenon DEF InsertNew
    <3>2. \A v \in Workers : inserts'[v] # NoKey => inserts'[v] = inserts[v]
      BY <3>1, Zenon DEF PrefetchTypeOK
    <3> QED
      BY <3>2, Zenon DEF Coming
  <2> QED
    BY <2>1, <2>2, <2>3, FewerKeepRoom, Zenon
<1>4. ASSUME NEW w \in Workers, NEW k \in Keys, Record(w, k) PROVE Room'
  <2>1. CASE k \in Tracked
    <3>1. inserts' = inserts /\ \A j \in Keys : j # k => entries'[j] = entries[j]
      BY <1>4, <2>1, Zenon DEF Record, PrefetchTypeOK
    <3> QED
      BY <1>2, <2>1, <3>1 DEF Tracked
  <2>2. CASE k \notin Tracked
    <3>1. entries' = entries /\ Cardinality(Tracked) < MaxEntries
      BY <1>4, <2>2, Zenon DEF Record
    <3> QED
      BY <3>1, SeenRoom, Zenon DEF Tracked
  <2> QED
    BY <2>1, <2>2, Zenon
<1>5. CASE Turn
  BY <1>2, <1>5, Zenon DEF Turn
<1>6. ASSUME NEW s \in Slots, Succeed(s) \/ Fail(s) PROVE Room'
  <2> USE <1>6
  <2>1. inserts' = inserts
    BY Zenon DEF Succeed, Fail
  <2>2. \A k \in Keys : entries'[k] # NoInfo => k \in Tracked
    <3>1. CASE entries' = entries
      BY <3>1, Zenon DEF Tracked
    <3>2. CASE task[s].key \in Tracked
      <4>1. \A k \in Keys : k # task[s].key => entries'[k] = entries[k]
        BY DEF Succeed, Fail, record_prefetch_failure, record_prefetch_success,
           PrefetchTypeOK
      <4> QED
        BY <3>2, <4>1, Zenon DEF Tracked
    <3> QED
      BY <3>1, <3>2, Zenon DEF Succeed, Fail, record_prefetch_failure, record_prefetch_success
  <2> QED
    BY <1>2, <2>1, <2>2, Zenon
<1> QED
  BY <1>1, <1>3, <1>4, <1>5, <1>6, Zenon DEF PrefetchNext, Begin, Miss, MissEnds, Evict, prefetchVars

\* However many queries record at once, record keeps HitTracker's table below
\* its limit plus their number.
THEOREM TrackerIsBounded == PrefetchSpec => []TrackerBounded
<1>1. PrefetchInit => Room
  <2> SUFFICES ASSUME PrefetchInit PROVE Room
    BY Zenon
  <2>1. Tracked = {} /\ Coming = {}
    BY Zenon DEF PrefetchInit, Tracked, Coming
  <2>2. IsFiniteSet(Tracked) /\ Cardinality(Tracked \cup Coming) = 0
    BY <2>1, SizeOfEmpty, Zenon
  <2>3. Cardinality(Workers) \in Nat
    BY TablesAssumption, SizeIsNumber, Zenon
  <2> QED
    BY <2>2, <2>3, TablesAssumption DEF Room
<1>2. Room => TrackerBounded
  <2> SUFFICES ASSUME Room PROVE TrackerBounded
    BY Zenon
  <2>1. IsFiniteSet(Tracked \cup Coming)
    BY ComingAreFew, SizeOfUnion, Zenon DEF Room, FewComing
  <2>2. IsFiniteSet(Tracked) /\ Cardinality(Tracked) <= Cardinality(Tracked \cup Coming)
    BY <2>1, SizeOfSubset, Zenon
  <2>3. /\ Cardinality(Tracked) \in Nat /\ Cardinality(Tracked \cup Coming) \in Nat
        /\ Cardinality(Workers) \in Nat
    BY <2>1, <2>2, TablesAssumption, SizeIsNumber, Zenon
  <2> QED
    BY <2>2, <2>3, TablesAssumption DEF Room, TrackerBounded
<1> QED
  BY <1>1, <1>2, PrefetchTypeCorrect, RoomKept, PTL DEF PrefetchSpec
=============================================================================
