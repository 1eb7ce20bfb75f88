# TLA+ models of the recursive resolver

Specifications, model-checking configurations and proofs for the resolver in
`src/`. Source lines are those of `src/src/*.rs`; `PROJECT.json` maps every
definition to its lines, and lists hazards, runs, theorems and findings.

## The system

A query arrives over UDP, TCP, DoT, DoQ, DoH or DoH3 and becomes one call of
`process_dns_query`. It is parsed, rate limited, perhaps answered by the
geo-authoritative layer, and otherwise looked up in the answer cache. A miss
goes through single-flight to the recursor and the DNSSEC validator, whose
result is cached. A stale hit is served and revalidated in the background. The
recursor follows referrals from the closest cached delegation, asking the
servers of a zone in racing chunks; the validator asks the recursor for DS and
DNSKEY records. Beside the requests run the prefetch loop, pre-warming, the
periodic save of the cache, the cleanup of the rate limiter, the refresh of the
root zone, and the probes and heartbeats of the GSLB layer.

| Part | Source | Module | State |
|---|---|---|---|
| Single-flight | `singleflight.rs` | `SingleFlight` | modelled, proved |
| Query engine | `engine/resolve.rs`, `engine/response.rs` | `Resolver` | modelled, proved |
| Answer cache | `cache.rs` | `Resolver`, `CachePersist` | modelled, proved |
| Prefetch, hit tracker | `prefetch.rs`, `hit_tracker.rs` | `Prefetch` (and `Resolver`) | modelled, proved |
| Rate limiter | `ratelimit.rs` | `RateLimiter` | modelled, proved |
| Recursor, delegation cache | `recursor/mod.rs`, `delegation.rs`, `dname.rs` | `Recursor` | modelled, proved |
| Upstream queries | `recursor/upstream.rs` | `Upstream` | modelled, proved |
| Root zone manager | `root_zone.rs` | `RootZone` | modelled, proved |
| DNSSEC validation | `dnssec/validator.rs`, `chain.rs`, `negative.rs` | `Validator` | partly (see below), proved |
| GSLB health, mesh, selection | `geo/` | `Geo` | modelled, proved; scores abstracted |
| Startup, pre-warming, shutdown | `main.rs` | `Resolver`, `CachePersist` | partly |
| Query parsing, DoH handlers, geo override | `engine/query.rs`, `transports/doh.rs` | `Resolver`, `Geo` | only their effect |

## How the modules fit together

`Resolver` instantiates `SingleFlight` and conjoins its actions, and is shown to
implement it: `UsesSingleFlight` is `SF!FlightSpec` under the mapping given in
the `INSTANCE`. The other interfaces are cut where the code awaits. `Resolver`
lets a resolution have any outcome and any verdict; `Recursor` and `Validator`
say which and that they end. `Recursor` lets a round of servers return any
response or none; `Upstream` is such a round. `Validator` lets the recursor
deliver or fail, and treats other validations as an environment that writes to
the shared caches what `CacheGuarantee` shows each validation to write: the rely
of one is the guarantee of the others. `RootZone` and `Recursor` share the
delegation cache; each has the other's operations on it (`Learn` and `Purge`,
and the entries `Init` may find) as actions or initial states.

## Modules

**`SingleFlight`.** One call of `run` is a caller; a cell is named by the call
that made it. `flights` is the DashMap, `permit` and `value` are the OnceCell.
`Enter` is the map lookup, `Acquire` and `Finish` are `get_or_init` running the
closure, `Return` ends the call and drops its guard, `Drop` is the future being
dropped half way (only for `Cancellable` calls). OnceCell is external and is
modelled as tokio documents it: any sharer may get the permit, and a dropped
initializer gives it back.

**`Resolver`.** One call of `process_dns_query` is a request, moving through
`stage`. A resolution yields an outcome (response code, DNSSEC verdict, TTL,
signature expiration) or fails. The actions are the segments between the points
where the code awaits or another task can see the shared state:
`Reject`/`Receive`, `Hit`/`Miss`, `EnterFlight`/`GoDirect`,
`FlightReturns`/`DirectReturns`, `Disconnect`; the two steps of a revalidation
task (the read and the write back of lines 219-221 are separate); prefetch
(pick, enter, return); pre-warming; eviction; the clock. Pure functions keep
their names (`freshness_at`, `calculate_cache_ttl`, `compute_ttl`). Left out:
the entries restored at startup, a system clock that is set back, and the 32-bit
serial arithmetic of RRSIG times (a difference of less than 2^31 seconds behaves
like the plain difference).

**`RateLimiter`.** `Arrive` reads the clock, `CheckSubnet` refills and takes a
token under the shard's lock, `CheckRoom` and `CountQuery` are RRL. The lock of
the subnet's bucket is held until `check_query` returns, hence `Locked`.
`cleanup` goes bucket by bucket. The clock may be set back by `MaxBack`, and a
call lasts at most `MaxWait`. `top`, `granted`, `allows` (every UDP query let
through, by key and second) and `untracked` (the keys and seconds in which the
full table let one through uncounted, README:1501) are history
variables. A behaviour has a workload: the keys that are asked for, and until
when.

**`CachePersist`.** Files are inodes holding chunks, so two writers with one
temporary file, and a writer whose file has been renamed, behave as they do on
a POSIX file system. A crash ends the process; loss of written data with the
machine's power is not modelled.

**`Recursor`.** A task is one call of `resolve`; `frames[t]` is its stack of
calls of `resolve_internal`, each waiting for servers, for the target of an
alias or for a name server's address. `NoAnswer`, `Answered` (with `Follow`,
`Referral`, `Delegate`), `LookUp` and `Resume` are the code between two awaits.
Names are sequences of labels; addresses are only counted. `visited` is the set
handed down the calls. `calls` counts calls (history). Left out: the joining of
the records of an alias chain into one message (`cname.rs`), and a DNAME at or
to the root, where `dname_substitute`, which joins text, gives another name than
a substitution of labels.

**`Upstream`.** One call of `query_servers_with_fallback`: `Chunk` spawns the
next servers, `Join` takes a finished task, `NoneLeft` gives up; a task goes
through `Send`, `Receive`, and over TCP either `Connect` and `Read` (the retry,
whose reads have no timer) or `Exchange` (after truncation, timed). Time passes
only when every task waits.

**`RootZone`.** `Start`, `Refresh`, `Download`, the removal (`Retain`) and
insertion (`Insert`) of entries one by one, the two files (the text file is cut
while it is written), `SetStatus`; `Learn` and `Purge` by resolutions; `Crash`.

**`Validator`.** A frame is one call of `validate_message`: the RRsets still to
be looked at, the signatures of the one in hand, and the walk. `Rrset`,
`SignedCached`, `FindApex`, `WalkCached`, `Ds`, `Dnskey`, `WalkDone` are the
steps between two queries. Zones lie on one branch and change their keys or
their kind now and then; `past` remembers when. A message's signatures are
genuine, stripped, broken, unfit or surrounded by extra ones, and a CNAME
synthesized from a DNAME has none. Of a negative message only the SOA is
examined (`Examined`), after the test that its zone holds the name asked for or
the last alias's target (`Foreign`). What a set of NSEC
or NSEC3 records proves is an outcome (`Message.proof`), used only after the
signatures are checked. Not modelled: the cap of a day on the TTLs in the caches.

**`Geo`.** One node's view: `ProbeOk` and `ProbeFails` update the counters and
the state; `Send`, `apply_peer_heartbeat`, `Lose` are heartbeats; `Crash`,
`RestartPeer`, `RestartSelf`. `Senders` are the nodes whose configuration makes
them send to this one; a heartbeat may be under way longer than the interval,
since each is sent by a task of its own. `answer(qtype)` is the set of sets of
nodes the authoritative code may return, for any order of the scores. Timestamps
are ages.

**`Prefetch`.** `Record` and `InsertNew` are the two steps of a hit, fresh or
stale; `Turn` is
one pass of the loop over its snapshot; `Begin`, `Succeed`, `Fail` are a spawned
prefetch; `Miss` and `MissEnds` a live miss on the same key. `failedAt` and
`streak` are history. An entry is evicted only when it is no longer fresh; the
cache's limit on its size, at which a fresh one may go, is in `Resolver`.

`MC*` modules give the values of constants. Definitions named as a *variant* of
another one are plausible mistakes in the code, used to confirm that each
property can fail.

## Runs

| Run | Checks | Result |
|---|---|---|
| `SingleFlight_calls` | closures overlap only after a drop; calls return and keys are vacated, unless a resolution never ends | holds |
| `Resolver_safety` | cached data within its signatures, AD, TTL aging, Bogus data only to CD=1 clients (with and without the cache), revalidation gate | holds |
| `Resolver_live` | requests answered and gates reopen unless the resolution awaited never ends, the engine with prefetch implements `SingleFlight` | holds |
| `RateLimiter_budget` | token budget, one allowed answer per second while the table has room, table within its cap and the racing calls | holds |
| `CachePersist_crash` | one saver, crashes and every fault: a restart finds the last save or nothing, and only the tail of a file is ever lost | holds |
| `CachePersist_two` | atomic replacement, with the periodic and the shutdown save at once | violated |
| `Recursor_resolve` | rounds per call bounded by labels, calls per resolution by names met, every resolution ends if its rounds do | holds |
| `Upstream_round` | no usable answer lost, time of a round, a round ends unless a TCP retry reads for ever | holds |
| `RootZone_refresh` | one version at a time, status matches cache, installs complete, JSON file whole | holds |
| `Validator_chain` | trust no older than its TTLs, insecurity proved, rollovers heal for messages with all their signatures, verdicts earned, caches justified, validation ends | holds |
| `Geo_mesh` | live peers kept within the losses the grace period absorbs, dead peers excluded, hysteresis of probes, answers with live nodes | holds |
| `Prefetch_backoff` | tracker within its cap, counters saturate, backoff held | holds |

`CachePersist_two` states a sentence of the repository's documentation, quoted
in `findings`.

**Bounds.** Two keys in single-flight show that keys do not interfere; the
engine then uses one. Four calls, two of which may be dropped, are enough for a
leader that is dropped, an orphaned waiter, a new leader and a call that joins
it. In `Resolver_safety` two requests, pre-warming and two revalidations meet on
one key, and the clock (3) passes the end of the signature (2) and of the stale
window. Prefetch is in `Resolver_live`, where an entry of TTL 2 lives long
enough to be picked. `RateLimiter_budget` runs the clock past `MaxAge`, so that
an idle bucket is forgotten and made again, or lets three keys race for one
place. Three chunks give a save a beginning, a middle and the last buffer.
`Recursor_resolve` has names of up to two labels, a depth of one nested call,
responses that refer up, down and sideways and aliases in circles for one task,
and a second task that asks for the root or below it, learns and purges. Its
`MaxSteps` is 6, above the `Len(name) + 2` of every name: the bound on rounds is
met exactly by the root and by the two-label name, and it is the progress check
and not the limit that keeps a call within it. The price is that this run never
ends a call with `StepLimitExceeded`, which needs a longer name; that exit is in
the model, and the theorems about `Recursor` hold for every `MaxSteps`.
`Upstream_round` has a full and a short chunk, both families and an unsafe
address. `RootZone_refresh` has a zone, a successor that drops a top-level
domain and adds another, and one that is too small; two crashes.
`Validator_chain` has two zones below the root, of every kind, one change per
zone, and a budget that can run out. `Geo_mesh` has the shortest interval, 2 s,
and the client's timeout of 5 s as the delay, so that heartbeats overtake one
another and two losses are tolerated. `Prefetch_backoff` has three keys for one
place in the table and two permits. Symmetry is used only in runs without
liveness, over actors or inodes that no expression tells apart. Deadlock is
checked where the system cannot stop (`Validator_chain`, `Geo_mesh`); elsewhere
all calls may have ended and the clock be at its bound.

**Fairness.** Weak fairness of the steps of a task that has been spawned: the
tokio runtime polls every ready task, and its timers fire. No fairness is
assumed of the network, nor that a resolution or a round of servers ends: the
TCP retries at `recursor/upstream.rs:232-287` read without a timeout, and a
server that keeps the connection open holds them for as long as it likes.
`RoundEnds` of `Upstream` excepts a round in such a read; `ResolutionsEnd` is
stated for a task whose rounds return (`RoundsReturn`); `CallsEnd`,
`FlightsEnd`, `RequestsAnswered` and `GatesReopen` except whoever waits for ever
for one resolution that never ends, and nobody else. `Validator` needs no
fairness: every step of a validation leaves less to do (`WorkShrinks`), in an
order without infinite descent: fewer RRsets, or fewer signatures of the first,
or less of the walk. No fairness is assumed of clients, eviction, the clock of
`Resolver`, or the prefetch loop's choice.

## Proofs

TLAPS checks these for all constants that satisfy the named assumptions, along
an inductive invariant for each specification. Every invariant and action
property that a passing run checks has a theorem.

`AdmissionProofs` has what decides whether a query is resolved. For
`SingleFlight`: `FlightTypeCorrect`, `GuardRemovesOwnFlight`,
`OverlapNeedsDrop`, `Coalesces`. `FlightOwned` is not inductive alone. The
invariant adds that a call shares a cell of its own key made by a call that has
entered, that the permit of a cell is with the call running its closure, and
that a call returned only from a full cell. Two running calls of a key then sit
on different cells, only one of which can be registered, so the other's leader
has left; it cannot have returned, since its cell is still empty.

For `RateLimiter`: `TypeCorrect`, `BudgetIsKept`, `OneAnswerPerSecond`,
`OvershootIsBounded`. The invariant relates clock reads in calls and buckets to
the latest time shown (`Clock`), adds to each subnet's grants what its bucket
still holds and, for a bucket that does not exist, that a full one is due
(`Budget`, from the assumption `IdleBucketIsFull`), ties `allows` to an entry's
epoch and count, apart from the seconds in `untracked` (`Allowed`), and counts
the calls between the check of the table and the insertion (`Room`). The
non-linear arithmetic of the refill is in lemmas of its own.

`ValidatorFrames` has the inductive invariant of `Validator` and what a step
makes of the frame of the validation that takes it; `ValidatorRely` that the
invariant survives the answers to queries, changes of the zones, the clock and
the writes of other validations; `ValidatorProofs` the rest:
`ValidatorTypeCorrect`, `SecureIsEarned`, `RolloversHeal`, `SecureStaysFresh`,
`UnsignedStaysProven`, `CachesGuaranteed`, `ValidationsShrink`, and
`ShrinkingEnds`, that the order of the last one has no infinite descent, by
taking the least value of each component in turn. The invariant (`ValidatorInv`)
has three parts.

- `KeysCached` and `SignednessCached`: what a cache says of a zone holds, or held
  no longer ago than the entry is old. An age and the time an entry has left are
  added up, so the bound survives the clock.
- `Shape` and `Trusts`, of each frame: the walk stays on the path to its target;
  the keys it holds were those of a signed zone, and while it does not wait they
  are fresh; below their zone it has passed no other, unless one has begun since.
- `Deserving`: a validation that has met no failure sees every zone as it is, so
  its signatures, the keys on its walk and what it reads in the caches agree.
  This needs that no zone has changed for the longest time an entry can live
  (`Settled`), which is what `RolloverHeals` claims to be enough.

A change of a zone breaks `Deserving` only for frames it makes undeserving, and
starts an age of zero for what caches and frames still hold. A step of a
validation writes to the caches only what `Justified` allows
(`CachesGuaranteed`), which is what `Elsewhere` supposes of the others: the rely
and the guarantee are proved together. The apex of a name is found with a least
element, since induction is not available; that sets of natural numbers have
least elements is carried as `Ordered` and discharged in `ValidatorProofs` from
`WellFoundedInduction` (`NatOrdered`).

`AnswerProofs` has what clients are answered from. For `Resolver`:
`TypeCorrect`, `CacheOutlivesNoSignature`, `AdIsJustified`, `EnforcementHolds`,
`TtlsAreAged`, `GateIsExact`, `EngineUsesSingleFlight`. The invariant says that
cache entries are sound, that what a revalidation is about to write back is
sound, that every answer is sound for the flags and the clock of its request,
and that callers share known cells. The refinement theorem shows initial states
to be initial and every step to be a step of `SF` or a stutter; so the results
on `SingleFlight` apply to the engine.

For `CachePersist`: `PersistTypeCorrect`, `TailAloneIsLost`,
`RestoresWhatWasSaved`, assuming one saver. The invariant says that the
temporary and the published file are different inodes, what the published one
holds, and how far the saver is.

`BackgroundProofs` has what runs beside the queries. For `Geo`:
`GeoTypeCorrect`, `LivePeersAreKept`, `DeadPeersAreExcluded`,
`ProbesHaveHysteresis`, `AnswersAreAlive`. The invariant spaces the heartbeats
under way by the interval, bounds the silence from below while a peer is down,
and equates the counters with the run of probes. For `LivePeersAreKept` the
heartbeats under way are counted: being an interval apart and none older than
the delay, their number times the interval is at most the delay and the sender's
timer (`FewUnderWay`), and the silence is at most as many intervals as heartbeats
were lost in a row and are under way, and one (`Accounted`). Nothing is assumed
of how interval and delay compare.

For `Prefetch`: `PrefetchTypeCorrect`, `BackoffIsHeld`, `TrackerIsBounded`. The
invariant says that the table knows the failures there were, that a prefetch
which has not begun was spawned before the last of them or after its backoff,
and that keys about to be inserted count as if they were in the table (`Room`).

`RecursorProofs`: `StepsAreBounded`, `WorkIsBounded`. The invariant says for
every call on the stack how its step relates to the labels of the last zone it
was referred to and to whether it started from the cache (`Stack`), and counts
the calls made and those still owed to name servers taken (`Work`).

`UpstreamProofs` has what is fetched from others. For `Upstream`:
`AnswersAreNotLost`, `RoundIsBounded`. The invariant says that each safe server
is in the order, in the set, or joined without a usable answer (`Accounted`).
Time is counted in chunks: each task of the chunk under way has what its timers
still allow within the limit of the chunks started (`Punctual`), and all chunks
but the last are full.

For `RootZone`: `RootTypeCorrect`, `OneVersionAtATime`, `StatusIsTrue`,
`InstallsAreComplete`, `JsonIsWhole`. The invariant says what the cache holds in
each phase of an install and what data is in hand after a download.

The facts about finite sets that `FiniteSetTheorems` has are restated
(`SizeOfSubset`, `SizeOfUnion` and the like) where a module of several
components uses them, since its instance comes after the parts that need none of
them.

Only model-checked: `CallsEnd`, `FlightsEnd`, `RequestsAnswered`, `GatesReopen`,
`ResolutionsEnd` and `RoundEnds`. They are liveness properties, and fairness is
out of the prover's reach.

## Differences between text and code

The models follow the code. Where a comment or the documentation says something
else, without a run of its own:

- `singleflight.rs:57`: after a dropped leader a waiter of the old cell and a
  new leader may resolve one key at once; `engine/resolve.rs:399` says "at most
  once per unique cache key at a time". `DuplicateOnlyAfterDrop` is what holds.
- `engine/response.rs:103`: the served TTL is aged from the record's TTL, not
  from the effective TTL of README:877. `TtlAged` is what holds.
- `engine/resolve.rs:271`: with the cache off, misses are not coalesced, which
  `cache_config.rs:12` and README:910 say they are.
- `ratelimit.rs:202`: cleanup can forget a bucket under penalty (README:1494).
- `singleflight.rs:58`: `was_leader` is set by the map lookup, not by running
  the closure.
- `cache.rs:209`: an error in the flush that ends the `BufWriter` is not seen.
- `root_zone.rs:281-284` and README:1347 say that dynamically learned entries
  are not touched; an insert replaces one for the same zone. README:1351 says
  that a refresh failing at the write leaves the previous zone in use; the
  install comes before the write. README:1353 describes a fallback for a zone
  that is too old; `start` installs it and records the state.
- `recursor/mod.rs:290-298`: an empty authoritative NoError answer is accepted,
  which README:619 says is rejected.
- `recursor/upstream.rs:232-287`: the retry after FORMERR goes over TCP with EDNS
  (README:629: plain), and only its connect is timed (README:633: the whole
  transaction).
- `geo/health.rs:169-180` and README:1068 speak of three intervals; the code
  waits five, as README:1095 and README:1173 say.
- README:1095 says that five intervals tolerate "a few dropped heartbeats". With a
  delay of up to the client's timeout of 5 s (`geo/peer.rs:110`) that is four from
  an interval of 5 s, three at 3 s and two at the shortest, 2 s.
- README:1051-1055 draws Unknown to Unhealthy after three failures and Unhealthy
  to Healthy after two successes; `geo/health.rs:124-155` goes through Degraded,
  which takes five failures and three successes. `ProbeHysteresis` is what holds.
- README:1100, 1981 and 2033 and the comment at `geo/authoritative.rs:62` say that
  all configured nodes are returned when the health filter excludes every one,
  and `geo/authoritative.rs:12-15` that an excluded node never is. The code
  returns excluded nodes then, but no more than the configured number of
  addresses, and it never comes to that while this node, which the mesh never
  excludes, is of the family asked for. `AnswersWithTheLiving` is what holds.
- README:587-603 says that a chain through a DNAME is validated and that its DNSSEC
  material is preserved. The CNAME added at `recursor/mod.rs:212-224` has no
  signature, and `dnssec/validator.rs:592-610` takes it before the DNAME, so that
  the answer is Bogus in a signed zone. `RolloverHeals` does not speak of it.
- `dnssec/negative.rs:45-56`: the aliases that lead to a negative answer are read
  and not verified; the verdict, which may be Secure, is that of the SOA and the
  proof.
- `recursor/delegation.rs:43`: two resolutions that fail on the same cached zone
  each purge an entry, the second one its parent's.
- `prefetch.rs:146`: a prefetch spawned before a failure may still resolve within
  the backoff; `BackoffHeld` excepts it.
- `dnssec/chain.rs:625`: an entry that says a zone is signed may take its TTL
  from an ancestor's keys.

## Not modelled

- The listeners (`transports/` apart from the DoH handlers): each query is one
  call of the engine whose outcome is written back; the permits are owned by
  their task and nothing else is shared. TLS, QUIC and HTTP framing are I/O.
- Which NSEC and NSEC3 records prove what (`dnssec/negative.rs` from line 341),
  signature arithmetic and canonical encoding (`dnssec/crypto.rs`,
  `manual_tbs.rs`): byte-level computation, of which a model on small sets would
  restate the definition.
- Query parsing (`engine/query.rs`), configuration from the environment, the
  Tranco download, the GeoIP database: pure parsing and I/O without shared state.
- Distances and scores of the GSLB router: floating point; every order of the
  nodes is allowed instead.
- `metrics.rs`: counters that no decision reads. `acl.rs` and `dnssec/alg7.rs`
  are not part of the build.
