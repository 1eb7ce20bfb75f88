-------------------------------- MODULE Geo --------------------------------
(***************************************************************************)
(* Geo steering (src/geo): what one node (Self) knows of the others, from  *)
(* its probes (health.rs) and from the heartbeats they send it (peer.rs,   *)
(* received in transports/doh.rs), and which nodes it puts in its answers  *)
(* (router.rs, authoritative.rs).                                          *)
(*                                                                         *)
(* Timestamps are kept as ages, in seconds, that stop growing once they    *)
(* are past every limit they are compared with; so are the counters of     *)
(* probes.  Nodes crash and restart, Self included, and heartbeats take a  *)
(* while or get lost.                                                      *)
(***************************************************************************)
EXTENDS Integers, FiniteSets

CONSTANTS
  Nodes,          \* config.nodes
  Self,           \* GEO_SELF_NODE, or no node
  Enabled,        \* those that are enabled
  Ipv4, Ipv6,     \* those with an address of the family
  DefaultNodes,   \* {default_node}, or {}
  ResponseCount,  \* response_ip_count
  MeshModes,      \* is the peer mesh configured? (chosen at the start)
  Interval,       \* peer_heartbeat_interval_secs
  MaxDelay,       \* bound on a heartbeat's way, the HTTP client's timeout
  Senders         \* nodes whose peer_targets has Self and whose loop runs

\* The others; the health of a node that is not enabled is never read.
Peers == Enabled \ {Self}
Grace == 5 * Interval
MaxAge == Grace + MaxDelay + 1  \* where ages stop
MaxCount == 5                   \* where the counters of probes stop
MaxLost == 5                    \* where the count of lost heartbeats stops

ASSUME NodesAssumption ==
  /\ Enabled \subseteq Nodes /\ Ipv4 \subseteq Nodes /\ Ipv6 \subseteq Nodes
  /\ DefaultNodes \subseteq Nodes /\ MeshModes \subseteq BOOLEAN
  /\ IsFiniteSet(Nodes) /\ Cardinality(DefaultNodes) <= 1
ASSUME TimeAssumption ==
  /\ Interval \in Nat \ {0} /\ MaxDelay \in Nat
  /\ ResponseCount \in Nat \ {0}

VARIABLES
  mesh,     \* peer_mesh_enabled
  up,       \* up[p]: p runs
  timer,    \* timer[p]: time until p's next heartbeat
  flight,   \* flight[p]: ages of p's heartbeats under way
  silence,  \* silence[p]: now - peer_last_heartbeat_at, or - registered_at
  state,    \* state[p]: HealthState by the probes
  succ,     \* consecutive_success
  fail,     \* consecutive_failure
  lost,     \* lost[p]: heartbeats of p lost since one arrived (history)
  out,      \* out[p]: p was down since one arrived (history)
  downFor,  \* downFor[p]: how long p has been down (history)
  run       \* run[p]: probes of p in a row that succeeded, or failed (history)

netVars == <<up, timer, flight, silence, lost, out, downFor>>
probeVars == <<state, succ, fail, run>>
geoVars == <<mesh, netVars, probeVars>>

HealthState == {"Unknown", "Healthy", "Degraded", "Unhealthy"}

GeoTypeOK ==
  /\ mesh \in BOOLEAN
  /\ up \in [Peers -> BOOLEAN]
  /\ timer \in [Peers -> 0..Interval]
  /\ flight \in [Peers -> SUBSET (0..MaxDelay)]
  /\ silence \in [Peers -> 0..MaxAge]
  /\ state \in [Peers -> HealthState]
  /\ succ \in [Peers -> 0..MaxCount] /\ fail \in [Peers -> 0..MaxCount]
  /\ lost \in [Peers -> 0..MaxLost]
  /\ out \in [Peers -> BOOLEAN]
  /\ downFor \in [Peers -> 0..MaxAge]
  /\ run \in [Peers -> -MaxCount..MaxCount]

GeoInit ==
  /\ mesh \in MeshModes
  /\ up \in [Peers -> BOOLEAN]
  /\ timer = [p \in Peers |-> Interval]
  /\ flight = [p \in Peers |-> {}]
  /\ silence = [p \in Peers |-> 0]
  /\ state = [p \in Peers |-> "Unknown"]
  /\ succ = [p \in Peers |-> 0] /\ fail = [p \in Peers |-> 0]
  /\ lost = [p \in Peers |-> 0]
  /\ out = [p \in Peers |-> ~up[p]]
  /\ downFor = [p \in Peers |-> 0]
  /\ run = [p \in Peers |-> 0]

Cap(n, m) == IF n < m THEN n ELSE m

(***************************************************************************)
(* Probes: record_success and record_failure.                              *)
(***************************************************************************)
\* Variant of record_success: the failures before it still count.
record_success_only(p) ==
  /\ succ' = [succ EXCEPT ![p] = Cap(@ + 1, MaxCount)]
  /\ state' = [state EXCEPT ![p] =
       IF @ \in {"Unknown", "Degraded"} /\ succ'[p] >= 2 THEN "Healthy"
       ELSE IF @ = "Unhealthy" /\ succ'[p] >= 3 THEN "Degraded" ELSE @]
  /\ UNCHANGED fail

record_success(p) ==
  /\ fail' = [fail EXCEPT ![p] = 0]
  /\ succ' = [succ EXCEPT ![p] = Cap(@ + 1, MaxCount)]
  /\ state' = [state EXCEPT ![p] =
       IF @ \in {"Unknown", "Degraded"} /\ succ'[p] >= 2 THEN "Healthy"
       ELSE IF @ = "Unhealthy" /\ succ'[p] >= 3 THEN "Degraded" ELSE @]

record_failure(p) ==
  /\ succ' = [succ EXCEPT ![p] = 0]
  /\ fail' = [fail EXCEPT ![p] = Cap(@ + 1, MaxCount)]
  /\ state' = [state EXCEPT ![p] =
       IF @ \in {"Unknown", "Healthy"} /\ fail'[p] >= 3 THEN "Degraded"
       ELSE IF @ \in {"Degraded", "Unknown"} /\ fail'[p] >= 5 THEN "Unhealthy" ELSE @]

\* A probe of p ends.  A round of probes is joined before the next, so two
\* probes of a node never overlap.  A node that is up may still not answer.
ProbeOk(p) ==
  /\ up[p]
  /\ record_success(p)
  /\ run' = [run EXCEPT ![p] = IF @ > 0 THEN Cap(@ + 1, MaxCount) ELSE 1]
  /\ UNCHANGED <<mesh, netVars>>

ProbeFails(p) ==
  /\ record_failure(p)
  /\ run' = [run EXCEPT ![p] = IF @ < 0 THEN -Cap(1 - @, MaxCount) ELSE -1]
  /\ UNCHANGED <<mesh, netVars>>

(***************************************************************************)
(* Heartbeats                                                              *)
(***************************************************************************)
\* p's heartbeat loop is running.  What it sends to a node without a mesh is
\* refused, and is left out.
Beats(p) == mesh /\ up[p] /\ p \in Senders

\* run_heartbeat_loop: one tick, one message to Self, which is not awaited.
Send(p) ==
  /\ Beats(p) /\ timer[p] = 0
  /\ flight' = [flight EXCEPT ![p] = @ \cup {0}]
  /\ timer' = [timer EXCEPT ![p] = Interval]
  /\ UNCHANGED <<mesh, up, silence, lost, out, downFor, probeVars>>

\* handle_peer_heartbeat accepts it; the receiver's clock dates it.
apply_peer_heartbeat(p) ==
  /\ \E a \in flight[p] : flight' = [flight EXCEPT ![p] = @ \ {a}]
  /\ silence' = [silence EXCEPT ![p] = 0]
  /\ lost' = [lost EXCEPT ![p] = 0]
  /\ out' = [out EXCEPT ![p] = ~up[p]]
  /\ UNCHANGED <<mesh, up, timer, downFor, probeVars>>

\* It times out, or is refused: source, signature or clock skew.
Lose(p) ==
  /\ \E a \in flight[p] : flight' = [flight EXCEPT ![p] = @ \ {a}]
  /\ lost' = [lost EXCEPT ![p] = Cap(@ + 1, MaxLost)]
  /\ UNCHANGED <<mesh, up, timer, silence, out, downFor, probeVars>>

Crash(p) ==
  /\ up[p]
  /\ up' = [up EXCEPT ![p] = FALSE]
  /\ out' = [out EXCEPT ![p] = TRUE]
  /\ UNCHANGED <<mesh, timer, flight, silence, lost, downFor, probeVars>>

\* A peer starts again; the loop's immediate first tick is discarded.
RestartPeer(p) ==
  /\ ~up[p]
  /\ up' = [up EXCEPT ![p] = TRUE]
  /\ timer' = [timer EXCEPT ![p] = Interval]
  /\ downFor' = [downFor EXCEPT ![p] = 0]
  /\ UNCHANGED <<mesh, flight, silence, lost, out, probeVars>>

\* Self starts again: every NodeHealth is new, registered now.
RestartSelf ==
  /\ silence' = [p \in Peers |-> 0]
  /\ state' = [p \in Peers |-> "Unknown"]
  /\ succ' = [p \in Peers |-> 0] /\ fail' = [p \in Peers |-> 0]
  /\ lost' = [p \in Peers |-> 0]
  /\ out' = [p \in Peers |-> ~up[p]]
  /\ downFor' = [p \in Peers |-> 0]
  /\ run' = [p \in Peers |-> 0]
  /\ UNCHANGED <<mesh, up, timer, flight>>

GeoTick ==
  /\ \A p \in Peers : Beats(p) => timer[p] > 0
  /\ \A p \in Peers : MaxDelay \notin flight[p]
  /\ timer' = [p \in Peers |-> IF Beats(p) THEN timer[p] - 1 ELSE timer[p]]
  /\ flight' = [p \in Peers |-> {a + 1 : a \in flight[p]}]
  /\ silence' = [p \in Peers |-> Cap(silence[p] + 1, MaxAge)]
  /\ downFor' = [p \in Peers |-> IF up[p] THEN 0 ELSE Cap(downFor[p] + 1, MaxAge)]
  /\ UNCHANGED <<mesh, up, lost, out, probeVars>>

GeoNext ==
  \/ \E p \in Peers : ProbeOk(p) \/ ProbeFails(p)
  \/ \E p \in Peers : Send(p) \/ apply_peer_heartbeat(p) \/ Lose(p) \/ Crash(p) \/ RestartPeer(p)
  \/ RestartSelf \/ GeoTick

GeoSpec == GeoInit /\ [][GeoNext]_geoVars

(***************************************************************************)
(* Selection                                                               *)
(***************************************************************************)
\* Variant of excluded_by_peer_mesh: the limit its comment gives.
excluded_after_three(p) == silence[p] > 3 * Interval

\* Variant of excluded_by_peer_mesh: one interval too many.
excluded_after_six(p) == silence[p] > 6 * Interval

\* The mesh's verdict; the peers always report themselves healthy.
excluded_by_peer_mesh(p) == silence[p] > Grace

Excluded(n) ==
  n # Self /\ IF mesh THEN excluded_by_peer_mesh(n) ELSE state[n] = "Unhealthy"

\* The nodes that are scored.
score_all(qtype) ==
  {n \in Enabled : (qtype = "AAAA" => n \in Ipv6) /\ ~Excluded(n)}

Family(qtype) == IF qtype = "A" THEN Ipv4 ELSE Ipv6

\* The first ResponseCount of S, in whatever order the scores put them.
Best(S) == {T \in SUBSET S : Cardinality(T) = Cap(Cardinality(S), ResponseCount)}

\* Variant of answer: no fallback to nodes the health filter excluded.
answer_healthy_only(qtype) == Best(score_all(qtype) \cap Family(qtype))

\* answer: the sets of nodes it may return the addresses of; {} is NODATA for
\* AAAA, SERVFAIL for A.
answer(qtype) ==
  LET healthy == score_all(qtype) \cap Family(qtype)
      all == Enabled \cap Family(qtype)
  IN  IF healthy # {} THEN Best(healthy)
      ELSE IF all # {} THEN Best(all)
      ELSE {DefaultNodes \cap Family(qtype)}

(***************************************************************************)
(* Properties                                                              *)
(***************************************************************************)
Qtypes == {"A", "AAAA"}

\* A node that is enabled is never denied an answer for want of healthy
\* nodes, and an excluded node is returned only when every node of the family
\* is excluded, at least one node and at most ResponseCount of them.  The
\* fallback is cut to ResponseCount like any other answer, and never used while
\* Self, which is never excluded, is of the family: it is not the "all
\* configured nodes" of README.md:1100 and of authoritative.rs:69.
AnswersWithTheLiving ==
  \A q \in Qtypes : \A S \in answer(q) :
    /\ Enabled \cap Family(q) # {} => S # {} /\ S \subseteq Enabled
    /\ S \subseteq Family(q) /\ Cardinality(S) <= ResponseCount
    /\ \A n \in S \cap Enabled : Excluded(n) =>
         \A m \in Enabled \cap Family(q) : Excluded(m)

\* The mesh excludes a peer that sends heartbeats only if it was down, or lost
\* in a row more of them than the grace period has room for beside the delay of
\* the next one: after a restart of either side too.  With the client's timeout
\* of 5 s (peer.rs:110) that is four at an interval of 5 s or more, three at
\* the 3 s of README.md:1691, two at the minimum of 2 s (config.rs:138).
LivePeerKept ==
  mesh => \A p \in Peers \cap Senders :
    Excluded(p) => out[p] \/ (lost[p] + 1) * Interval + MaxDelay > Grace

\* A peer that stays down is excluded within the grace period, five intervals
\* (README.md:1095; the "~3x" of README.md:1068 is a goal the code does not
\* meet), and the delay of its last heartbeats.
DeadPeerExcluded ==
  mesh => \A p \in Peers : downFor[p] > Grace + MaxDelay => Excluded(p)

\* Without the mesh, a node is excluded by five failed probes in a row and
\* comes back after three good ones in a row, through Degraded: what
\* health.rs:124-160 does.  (README.md:1051-1055 draws other edges: Unknown to
\* Unhealthy after three failures, Unhealthy to Healthy after two successes.)
ProbeHysteresis ==
  [][\A p \in Peers :
       /\ state[p] # "Unhealthy" /\ state'[p] = "Unhealthy" => run'[p] <= -5
       /\ state[p] = "Unhealthy" /\ state'[p] # "Unhealthy" =>
            state'[p] = "Unknown" \/ (run'[p] >= 3 /\ state'[p] = "Degraded")]_geoVars

=============================================================================
