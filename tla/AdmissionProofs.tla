--------------------------- MODULE AdmissionProofs --------------------------
(***************************************************************************)
(* What a query passes on its way to a resolution: request coalescing      *)
(* (SingleFlight), for any number of calls and keys; and the rate limiter, *)
(* for any burst, rate and cleanup age, any number of callers, and a clock *)
(* set back within its bound.                                              *)
(***************************************************************************)
EXTENDS RateLimiter, SingleFlight, TLAPS

(***************************************************************************)
(* SingleFlight: the inductive invariant.  FlightOwned alone is not        *)
(* inductive: that a call joins a cell of its own key, that a cell's       *)
(* permit is with the call running its closure, and that a leader returns  *)
(* only from a full cell are what keep two closures of one key on          *)
(* different cells.                                                        *)
(***************************************************************************)
CellsWellFormed ==
  \A c \in Callers :
    /\ pc[c] = "idle" => cell[c] = NoCaller
    /\ pc[c] # "idle" => /\ cell[c] \in Callers
                         /\ cell[cell[c]] = cell[c]
                         /\ key[cell[c]] = key[c]
                         /\ pc[cell[c]] # "idle"

PermitOfRunner ==
  \A c \in Callers : pc[c] = "running" =>
    /\ permit[cell[c]] = c
    /\ value[cell[c]] = NoValue

ReturnedFromFullCell ==
  \A c \in Callers : pc[c] = "returned" => value[cell[c]] # NoValue

FlightInv ==
  /\ FlightTypeOK
  /\ CellsWellFormed
  /\ FlightOwned
  /\ PermitOfRunner
  /\ ReturnedFromFullCell

\* Every call, permit and cell holds a value of its type: the steps of run,
\* get_or_init and FlightGuard::drop keep the map and the cells well typed.
THEOREM FlightTypeCorrect == FlightSpec => []FlightTypeOK
<1> USE DEF FlightTypeOK, PC
<1>1. FlightInit => FlightTypeOK
  BY Zenon DEF FlightInit
<1>2. FlightTypeOK /\ [FlightNext]_sfVars => FlightTypeOK'
  <2> SUFFICES ASSUME FlightTypeOK, [FlightNext]_sfVars
               PROVE  FlightTypeOK'
    BY Zenon
  <2>1. ASSUME NEW c \in Callers, Enter(c)
        PROVE  FlightTypeOK'
    BY <2>1 DEF Enter
  <2>2. ASSUME NEW c \in Callers, Acquire(c)
        PROVE  FlightTypeOK'
    BY <2>2, ZenonT(60) DEF Acquire
  <2>3. ASSUME NEW c \in Callers, NEW v \in Values, Finish(c, v)
        PROVE  FlightTypeOK'
    BY <2>3, ZenonT(60) DEF Finish
  <2>4. ASSUME NEW c \in Callers, Return(c)
        PROVE  FlightTypeOK'
    BY <2>4, Zenon DEF Return, ReleaseGuard, Leader
  <2>5. ASSUME NEW c \in Callers, Drop(c)
        PROVE  FlightTypeOK'
    BY <2>5, ZenonT(60) DEF Drop, ReleaseGuard, Leader, Live
  <2>6. CASE UNCHANGED sfVars
    BY <2>6, Zenon DEF sfVars
  <2>7. QED
    BY <2>1, <2>2, <2>3, <2>4, <2>5, <2>6, Zenon DEF FlightNext
<1>3. QED
  BY <1>1, <1>2, PTL DEF FlightSpec

\* The initial state has no call under way, hence satisfies the invariant.
LEMMA InitFlightInv == FlightInit => FlightInv
  BY NoCallerAssumption, Zenon
     DEF FlightInit, FlightInv, FlightTypeOK, PC, CellsWellFormed, FlightOwned, PermitOfRunner,
         ReturnedFromFullCell, Live, Leader

\* Looking the key up, joining a flight or registering one, preserves FlightInv.
LEMMA EnterPreserves ==
  ASSUME NEW c \in Callers, FlightInv, FlightTypeOK', Enter(c)
  PROVE  FlightInv'
<1> USE NoCallerAssumption DEF FlightInv, FlightTypeOK, PC
<1>1. CellsWellFormed'
  BY DEF Enter, CellsWellFormed, FlightOwned, Live, Leader
<1>2. FlightOwned'
  BY DEF Enter, CellsWellFormed, FlightOwned, Live, Leader
<1>3. PermitOfRunner'
  BY DEF Enter, PermitOfRunner
<1>4. ReturnedFromFullCell'
  BY DEF Enter, ReturnedFromFullCell
<1>5. QED
  BY <1>1, <1>2, <1>3, <1>4, Zenon

\* Taking the cell's permit preserves FlightInv.
LEMMA AcquirePreserves ==
  ASSUME NEW c \in Callers, FlightInv, FlightTypeOK', Acquire(c)
  PROVE  FlightInv'
<1> USE NoCallerAssumption DEF FlightInv, FlightTypeOK, PC
<1>1. CellsWellFormed'
  BY DEF Acquire, CellsWellFormed
<1>2. FlightOwned'
  BY DEF Acquire, FlightOwned, Live, Leader
<1>3. PermitOfRunner'
  BY DEF Acquire, PermitOfRunner, CellsWellFormed
<1>4. ReturnedFromFullCell'
  BY Zenon DEF Acquire, ReturnedFromFullCell
<1>5. QED
  BY <1>1, <1>2, <1>3, <1>4, Zenon

\* Filling the cell preserves FlightInv.
LEMMA FinishPreserves ==
  ASSUME NEW c \in Callers, NEW v \in Values, FlightInv, FlightTypeOK', Finish(c, v)
  PROVE  FlightInv'
<1> USE NoCallerAssumption, NoValueAssumption DEF FlightInv, FlightTypeOK, PC
<1>1. CellsWellFormed'
  BY DEF Finish, CellsWellFormed
<1>2. FlightOwned'
  BY DEF Finish, FlightOwned, Live, Leader
<1>3. PermitOfRunner'
  BY DEF Finish, PermitOfRunner, CellsWellFormed
<1>4. ReturnedFromFullCell'
  BY DEF Finish, ReturnedFromFullCell, CellsWellFormed
<1>5. QED
  BY <1>1, <1>2, <1>3, <1>4, Zenon

\* A call that leaves, by returning or by being dropped, preserves FlightInv when
\* it gives back its permit and its guard.
LEMMA LeavePreserves ==
  ASSUME NEW c \in Callers, FlightInv, FlightTypeOK', Return(c) \/ Drop(c)
  PROVE  FlightInv'
<1> USE NoCallerAssumption DEF FlightInv, FlightTypeOK, PC
<1>1. /\ Live(c)
      /\ \E to \in {"returned", "dropped"} : pc' = [pc EXCEPT ![c] = to]
      /\ ReleaseGuard(c)
      /\ UNCHANGED <<value, key, cell>>
  BY Zenon DEF Return, Drop, Live
<1>2. CellsWellFormed'
  BY <1>1 DEF CellsWellFormed, Live
<1>3. FlightOwned'
  BY <1>1 DEF FlightOwned, CellsWellFormed, ReleaseGuard, Live, Leader
<1>4. PermitOfRunner'
  <2> SUFFICES ASSUME NEW d \in Callers, pc'[d] = "running"
               PROVE  permit'[cell[d]] = d /\ value[cell[d]] = NoValue
    BY <1>1, Zenon DEF PermitOfRunner
  <2>1. d # c /\ pc[d] = "running"
    BY <1>1, Zenon
  <2> USE <2>1
  <2>2. permit[cell[d]] = d /\ value[cell[d]] = NoValue
    BY Zenon DEF PermitOfRunner
  <2>3. pc[c] = "running" => cell[c] # cell[d]
    BY <2>2, Zenon DEF PermitOfRunner
  <2>4. permit'[cell[d]] = permit[cell[d]]
    BY <2>3, Zenon DEF Return, Drop, CellsWellFormed
  <2>5. QED
    BY <2>2, <2>4, Zenon
<1>5. ReturnedFromFullCell'
  BY Zenon DEF Return, Drop, ReturnedFromFullCell
<1>6. QED
  BY <1>2, <1>3, <1>4, <1>5, Zenon

\* Every step of every call preserves the inductive invariant.
THEOREM FlightInductive == FlightSpec => []FlightInv
<1>1. FlightTypeOK' /\ FlightInv /\ [FlightNext]_sfVars => FlightInv'
  <2> SUFFICES ASSUME FlightTypeOK', FlightInv, [FlightNext]_sfVars
               PROVE  FlightInv'
    BY Zenon
  <2>1. CASE UNCHANGED sfVars
    BY <2>1, Zenon DEF sfVars, FlightInv, FlightTypeOK, CellsWellFormed, FlightOwned,
                PermitOfRunner, ReturnedFromFullCell, Live, Leader
  <2>2. CASE FlightNext
    BY <2>2, EnterPreserves, AcquirePreserves, FinishPreserves,
       LeavePreserves, Zenon DEF FlightNext
  <2>3. QED
    BY <2>1, <2>2, Zenon
<1>2. QED
  BY <1>1, InitFlightInv, FlightTypeCorrect, PTL DEF FlightSpec

\* A key is registered exactly while the leader of its cell is live, for any
\* number of calls: FlightGuard::drop removes its own cell only.
THEOREM GuardRemovesOwnFlight == FlightSpec => []FlightOwned
  BY FlightInductive, PTL DEF FlightInv

\* Two runners of one key are on two cells, and a leader was dropped.
LEMMA TwoRunners == FlightInv => DuplicateOnlyAfterDrop
<1> SUFFICES ASSUME FlightInv, NEW k \in Keys,
                    NEW c \in Running(k), NEW d \in Running(k), c # d
             PROVE  /\ cell[c] # cell[d]
                    /\ pc[cell[c]] = "dropped" \/ pc[cell[d]] = "dropped"
  BY Zenon DEF DuplicateOnlyAfterDrop
<1> USE DEF FlightInv, FlightTypeOK, PC, Running
<1>1. cell[c] # cell[d]
  BY DEF PermitOfRunner
<1>2. /\ pc[cell[c]] \in {"waiting", "running", "dropped"}
      /\ pc[cell[d]] \in {"waiting", "running", "dropped"}
  BY DEF PermitOfRunner, CellsWellFormed, ReturnedFromFullCell
<1>3. ~(Live(cell[c]) /\ Live(cell[d]))
  BY <1>1 DEF FlightOwned, CellsWellFormed, Leader
<1>4. QED
  BY <1>1, <1>2, <1>3, Zenon DEF Live

\* Closures of one key overlap only when a leader's future was dropped, for
\* any number of calls and keys.
THEOREM OverlapNeedsDrop == FlightSpec => []DuplicateOnlyAfterDrop
  BY FlightInductive, TwoRunners, PTL

\* Where no future is dropped (UDP, TCP, DoT, DoQ and the prefetch tasks),
\* single-flight runs at most one resolution of a key at a time.
THEOREM Coalesces ==
  ASSUME Cancellable = {}
  PROVE  FlightSpec => []AtMostOnce
<1> DEFINE NoneDropped == \A c \in Callers : pc[c] # "dropped"
<1>1. FlightInit => NoneDropped
  BY ZenonT(60) DEF FlightInit
<1>2. FlightTypeOK /\ NoneDropped /\ [FlightNext]_sfVars => NoneDropped'
  <2> SUFFICES ASSUME FlightTypeOK, NoneDropped, [FlightNext]_sfVars
               PROVE  NoneDropped'
    BY Zenon
  <2>1. CASE UNCHANGED sfVars
    BY <2>1, Zenon DEF sfVars
  <2>2. CASE FlightNext
    BY <2>2, Zenon DEF FlightNext, Enter, Acquire, Finish, Return, Drop, FlightTypeOK
  <2>3. QED
    BY <2>1, <2>2, Zenon
<1>3. FlightInv /\ NoneDropped => AtMostOnce
  <2> SUFFICES ASSUME FlightInv, NoneDropped, NEW k \in Keys,
                      NEW c \in Running(k), NEW d \in Running(k), c # d
               PROVE  FALSE
    BY Zenon DEF AtMostOnce
  <2>1. pc[cell[c]] = "dropped" \/ pc[cell[d]] = "dropped"
    BY TwoRunners, Zenon DEF DuplicateOnlyAfterDrop
  <2>2. cell[c] \in Callers /\ cell[d] \in Callers
    BY Zenon DEF FlightInv, CellsWellFormed, Running
  <2>3. QED
    BY <2>1, <2>2, Zenon
<1> HIDE DEF NoneDropped
<1>4. QED
  BY <1>1, <1>2, <1>3, FlightTypeCorrect, FlightInductive, PTL DEF FlightSpec

(***************************************************************************)
(* The inductive invariant.  No call is older than Oldest, whatever the    *)
(* clock did since it read the time.  A bucket's tokens are what the burst *)
(* and the refills gave, less what was granted; a bucket that cleanup took *)
(* out had, by Oldest, refilled all it ever granted.  RRL has allowed no   *)
(* query in a second later than its bucket's, or, without a bucket, in a   *)
(* second a call could still ask about, save for want of room.             *)
(***************************************************************************)
Oldest == top - MaxBack - MaxWait

Clock ==
  /\ now <= top /\ now >= top - MaxBack
  /\ \A w \in Workers : call[w].at # "idle" => Oldest <= call[w].ms /\ call[w].ms <= top
  /\ cleaner.at # "idle" => cleaner.cutoff <= top - MaxAge

Budget(s) ==
  LET b == buckets[s] IN
  IF b = NoBucket
  THEN granted[s] = 0 \/ granted[s] * Millis <= RefillPerSec * Oldest
  ELSE /\ granted[s] * Millis + b.tokens * Millis
            <= Capacity * Millis + RefillPerSec * b.last_refill
       /\ b.last_refill <= top
       /\ b.last_refill <= b.last_seen + MaxBack + MaxWait

\* The seconds in which the table had room for k whenever it was looked for.
Counted(k) == {e \in Secs : <<k, e>> \notin untracked}

Allowed(k) ==
  /\ \A e \in Counted(k) : allows[k][e] <= 1
  /\ rrl[k] # NoBucket =>
       rrl[k].count >= 1 /\ \A e \in Counted(k) : e > rrl[k].epoch => allows[k][e] = 0
  /\ rrl[k] = NoBucket =>
       \A e \in Counted(k), ms \in 0..MaxTime :
         allows[k][e] # 0 /\ ms >= Oldest => e < ms \div Millis

\* The keys in the table, and those about to be.
Entering == {call[w].key : w \in {u \in Workers : call[u].at = "entry"}}
Room == Cardinality(Tracked \cup Entering) < MaxTracked + Cardinality(Workers)

IInv ==
  /\ TypeOK
  /\ Clock
  /\ \A s \in Subnets : Budget(s)
  /\ \A k \in RrlKeys : Allowed(k)
  /\ Room

(***************************************************************************)
(* Arithmetic                                                              *)
(***************************************************************************)
\* Products with the rate are monotonic and distribute.
LEMMA RateTimes ==
  ASSUME NEW a \in Int, NEW b \in Int
  PROVE  /\ RefillPerSec * a \in Int
         /\ a <= b => RefillPerSec * a <= RefillPerSec * b
         /\ RefillPerSec * (a + b) = RefillPerSec * a + RefillPerSec * b
BY BucketAssumption

\* Products with a second, for the tokens.
LEMMA MillisTimes ==
  ASSUME NEW a \in Int, NEW b \in Int
  PROVE  /\ a * Millis \in Int
         /\ a <= b => a * Millis <= b * Millis
         /\ (a + b) * Millis = a * Millis + b * Millis
BY BucketAssumption

\* now_millis() / 1000 and the other divisions round down.
LEMMA Division ==
  ASSUME NEW a \in Int, NEW b \in Int
  PROVE  /\ a \div Millis \in Int
         /\ (a \div Millis) * Millis <= a
         /\ a <= b => a \div Millis <= b \div Millis
         /\ a >= 0 => a \div Millis >= 0
<1> DEFINE q == a \div Millis
           r == b \div Millis
<1> USE BucketAssumption
<1>1. q \in Int /\ r \in Int
  OBVIOUS
<1>2. /\ Millis * q <= a /\ a < Millis * q + Millis
      /\ Millis * r <= b /\ b < Millis * r + Millis
  OBVIOUS
<1> USE <1>1, <1>2
<1>3. ASSUME a <= b, q > r PROVE FALSE
  <2>1. Millis * q >= Millis * r + Millis
    BY <1>3
  <2> QED
    BY <1>3, <2>1
<1>4. ASSUME a >= 0, q < 0 PROVE FALSE
  <2>1. Millis * q <= -Millis
    BY <1>4
  <2> QED
    BY <1>4, <2>1
<1> QED
  BY <1>3, <1>4

\* Cleanup's age leaves room for the clock.
LEMMA AgeIsLong == MaxAge >= MaxBack + MaxWait
<1> USE BucketAssumption
<1>1. Capacity * Millis >= 1
  OBVIOUS
<1>2. MaxAge - 2 * MaxBack - 2 * MaxWait > 0
  BY <1>1, IdleBucketIsFull
<1> QED
  BY <1>2

(***************************************************************************)
(* Types                                                                   *)
(***************************************************************************)
\* What a refill gives, in time, is no more than the time it accounts for.
LEMMA RefillGives ==
  ASSUME NEW b \in Bucket, NEW t \in 0..MaxTime
  PROVE  /\ Refill(b, t) \in Bucket
         /\ Refill(b, t).last_seen = t
         /\ Refill(b, t).last_refill \in {b.last_refill, t}
         /\ Refill(b, t).tokens * Millis + RefillPerSec * b.last_refill
              <= b.tokens * Millis + RefillPerSec * Refill(b, t).last_refill
<1> USE BucketAssumption
<1> DEFINE d == t - b.last_refill
           new == (d * RefillPerSec) \div Millis
           r == Refill(b, t)
<1>1. /\ b.tokens \in 0..Capacity /\ b.last_refill \in 0..MaxTime /\ b.last_seen \in 0..MaxTime
      /\ d \in Int
  BY DEF Bucket
<1>2. d * RefillPerSec \in Int
  BY <1>1
<1>3. new \in Int /\ new * Millis <= d * RefillPerSec
  BY <1>2, Division, Zenon
<1>4. CASE t > b.last_refill /\ new > 0
  <2>1. r = [tokens |-> MinOf(b.tokens + new, Capacity), last_refill |-> t, last_seen |-> t]
    BY <1>4, Zenon DEF Refill
  <2> USE <1>1, <1>3
  <2>2. MinOf(b.tokens + new, Capacity) \in 0..Capacity /\ MinOf(b.tokens + new, Capacity) <= b.tokens + new
    BY <1>4 DEF MinOf
  <2>3. r.tokens * Millis <= b.tokens * Millis + new * Millis
    <3>1. r.tokens <= b.tokens + new /\ r.tokens \in Int
      BY <2>1, <2>2
    <3>2. r.tokens * Millis <= (b.tokens + new) * Millis
      BY <3>1, MillisTimes
    <3> QED
      BY <3>2, MillisTimes
  <2>4. RefillPerSec * t = RefillPerSec * b.last_refill + d * RefillPerSec
    OBVIOUS
  <2>5. /\ r.tokens * Millis \in Int /\ b.tokens * Millis \in Int /\ new * Millis \in Int
        /\ RefillPerSec * t \in Int /\ RefillPerSec * b.last_refill \in Int
    BY <2>1, <2>2, MillisTimes, RateTimes
  <2>6. r.tokens * Millis + RefillPerSec * b.last_refill <= b.tokens * Millis + RefillPerSec * t
    BY <1>2, <2>3, <2>4, <2>5
  <2> QED
    BY <2>1, <2>2, <2>6 DEF Bucket
<1>5. CASE ~(t > b.last_refill /\ new > 0)
  <2>1. r = [b EXCEPT !.last_seen = t]
    BY <1>5, Zenon DEF Refill
  <2>2. r.tokens = b.tokens /\ r.last_refill = b.last_refill /\ r.last_seen = t /\ r \in Bucket
    BY <2>1, Zenon DEF Bucket
  <2>3. b.tokens * Millis \in Int /\ RefillPerSec * b.last_refill \in Int
    BY <1>1, MillisTimes, RateTimes
  <2> QED
    BY <2>2, <2>3
<1> QED
  BY <1>4, <1>5, Zenon

\* A second of a time on the clock.
LEMMA SecondOf == ASSUME NEW ms \in 0..MaxTime PROVE ms \div Millis \in Secs
BY BucketAssumption, Division DEF Secs

\* The bucket CheckSubnet works on, refilled.
Entry(s, ms) ==
  Refill(IF buckets[s] = NoBucket
         THEN [tokens |-> Capacity, last_refill |-> ms, last_seen |-> ms]
         ELSE buckets[s], ms)

\* That bucket is a bucket, also once a token is taken from it.
LEMMA EntryTyped ==
  ASSUME TypeOK, NEW s \in Subnets, NEW ms \in 0..MaxTime
  PROVE  Entry(s, ms) \in Bucket /\ Take(Entry(s, ms)) \in Bucket
<1>1. [tokens |-> Capacity, last_refill |-> ms, last_seen |-> ms] \in Bucket
  BY BucketAssumption DEF Bucket
<1>2. Entry(s, ms) \in Bucket
  BY <1>1, RefillGives, SMTT(60), Zenon DEF Entry, TypeOK
<1>3. Take(Entry(s, ms)) \in Bucket
  <2> DEFINE b == Entry(s, ms)
  <2> HIDE DEF b
  <2>1. b \in Bucket /\ b.tokens \in 0..Capacity
    BY <1>2, SMTT(60), Zenon DEF Bucket, b
  <2>2. b.tokens > 0 => b.tokens - 1 \in 0..Capacity
    BY <2>1, BucketAssumption, SMTT(60), Zenon
  <2>3. Take(b) \in Bucket
    BY <2>1, <2>2, SMTT(60), Zenon DEF Take, Bucket
  <2> QED
    BY <2>3, ZenonT(60) DEF b
<1> QED
  BY <1>2, <1>3, Zenon

\* Where a call is, from one step to the next.
LEMMA CallTyped ==
  ASSUME TypeOK, NEW w \in Workers,
         Leave(w) \/ \E a \in {"rrl", "entry"} : call' = [call EXCEPT ![w].at = a]
  PROVE  call' \in [Workers -> Calls]
<1>1. PICK s \in Subnets, n \in Names : <<s, n>> \in RrlKeys
  BY SetsAssumption, Zenon DEF RrlKeys
<1>2. (CHOOSE x \in RrlKeys : TRUE) \in RrlKeys
  BY <1>1, Zenon
<1>3. NoCall \in Calls
  BY <1>2, BucketAssumption DEF NoCall, Calls
<1>4. \A a \in {"rrl", "entry"} : [call[w] EXCEPT !.at = a] \in Calls
  BY DEF TypeOK, Calls
<1>5. CASE Leave(w)
  BY <1>3, <1>5, Zenon DEF Leave, TypeOK
<1>6. ASSUME NEW a \in {"rrl", "entry"}, call' = [call EXCEPT ![w].at = a]
      PROVE  call' \in [Workers -> Calls]
  <2>1. call' = [call EXCEPT ![w] = [call[w] EXCEPT !.at = a]]
    BY <1>6, Zenon
  <2> QED
    BY <1>4, <2>1, SMTT(60), Zenon DEF TypeOK
<1> QED
  BY <1>5, <1>6, Zenon

\* Counting a query that is allowed.
LEMMA AllowTyped ==
  ASSUME TypeOK, NEW k \in RrlKeys, NEW e \in Secs, AllowKey(k, e)
  PROVE  allows' \in [RrlKeys -> [Secs -> Nat]]
<1>1. [allows[k] EXCEPT ![e] = allows[k][e] + 1] \in [Secs -> Nat]
  BY SMTT(60) DEF TypeOK
<1>2. allows' = [allows EXCEPT ![k] = [allows[k] EXCEPT ![e] = allows[k][e] + 1]]
  BY Zenon DEF AllowKey
<1> QED
  BY <1>1, <1>2, ZenonT(60) DEF TypeOK

\* The variables keep their types.
LEMMA TypeKept == TypeOK /\ [Next]_vars => TypeOK'
<1> SUFFICES ASSUME TypeOK, [Next]_vars PROVE TypeOK'
  BY Zenon
<1> USE BucketAssumption
<1>1. /\ load.keys \subseteq RrlKeys /\ load.until \in 0..MaxTime
      /\ \A w \in Workers : call[w] \in Calls /\ call[w].ms \in 0..MaxTime /\ call[w].key \in RrlKeys
      /\ \A k \in RrlKeys : k[1] \in Subnets
  BY WorkloadsAssumption, Zenon DEF TypeOK, Calls, RrlKeys
<1>2. ASSUME NEW w \in Workers, NEW k \in load.keys, Arrive(w, k) PROVE TypeOK'
  BY <1>1, <1>2, Zenon DEF Arrive, TypeOK, Calls
<1>3. ASSUME NEW w \in Workers, CheckSubnet(w) PROVE TypeOK'
  <2> DEFINE s == call[w].key[1]
             b == Entry(s, call[w].ms)
  <2>1. s \in Subnets /\ Take(b) \in Bucket
    BY <1>1, EntryTyped, Zenon
  <2>2. /\ buckets' = [buckets EXCEPT ![s] = Take(b)]
        /\ granted' \in {granted, [granted EXCEPT ![s] = granted[s] + 1]}
        /\ Leave(w) \/ call' = [call EXCEPT ![w].at = "rrl"]
        /\ UNCHANGED <<load, now, top, rrl, cleaner, allows, untracked>>
    BY <1>3, Zenon DEF CheckSubnet, Entry
  <2>3. call' \in [Workers -> Calls]
    BY <2>2, CallTyped, Zenon
  <2> QED
    BY <2>1, <2>2, <2>3, SMTT(60), Zenon DEF TypeOK
<1>4. ASSUME NEW w \in Workers, CheckRoom(w) PROVE TypeOK'
  <2>1. call' \in [Workers -> Calls]
    BY <1>4, CallTyped, Zenon DEF CheckRoom
  <2>2. call[w].key \in RrlKeys /\ Second(w) \in Secs
    BY <1>1, SecondOf, Zenon DEF Second
  <2>3. /\ allows' = allows \/ AllowKey(call[w].key, Second(w))
        /\ untracked' \in {untracked, untracked \cup {<<call[w].key, Second(w)>>}}
        /\ UNCHANGED <<load, now, top, buckets, rrl, cleaner, granted>>
    BY <1>4, Zenon DEF CheckRoom
  <2>4. allows' \in [RrlKeys -> [Secs -> Nat]]
    BY <2>2, <2>3, AllowTyped, Zenon DEF TypeOK
  <2>5. untracked' \subseteq RrlKeys \X Secs
    <3>1. <<call[w].key, Second(w)>> \in RrlKeys \X Secs
      BY <2>2, Zenon
    <3>2. untracked \subseteq RrlKeys \X Secs
      BY Zenon DEF TypeOK
    <3> QED
      BY <2>3, <3>1, <3>2
  <2> QED
    BY <2>1, <2>3, <2>4, <2>5, Zenon DEF TypeOK
<1>5. ASSUME NEW w \in Workers, CountQuery(w) PROVE TypeOK'
  <2> DEFINE k == call[w].key
             e == Second(w)
             d == IF rrl[k] = NoBucket THEN [epoch |-> e, count |-> 0, penalized_until |-> 0]
                  ELSE rrl[k]
             c == Count(d, e)
  <2>1. k \in RrlKeys /\ e \in Secs
    BY <1>1, SecondOf, Zenon DEF Second
  <2> USE <2>1
  <2>2. d \in DomainRateBucket
    BY Zenon DEF TypeOK, DomainRateBucket
  <2>3. c \in DomainRateBucket
    BY <2>2, SMTT(60), Zenon DEF Count, DomainRateBucket
  <2>4. \A x \in DomainRateBucket : [x EXCEPT !.penalized_until = e + PenaltySecs] \in DomainRateBucket
    BY RrlAssumption, SMTT(60), Zenon DEF DomainRateBucket, Secs
  <2>5. /\ \E x \in DomainRateBucket : rrl' = [rrl EXCEPT ![k] = x]
        /\ allows' = allows \/ AllowKey(k, e)
        /\ UNCHANGED <<load, now, top, buckets, cleaner, granted, untracked>>
        /\ Leave(w)
    BY <1>5, <2>2, <2>3, <2>4, ZenonT(60) DEF CountQuery, Penalize
  <2> USE <2>5
  <2>6. call' \in [Workers -> Calls]
    BY CallTyped, Zenon
  <2>7. allows' \in [RrlKeys -> [Secs -> Nat]]
    BY AllowTyped, Zenon DEF TypeOK
  <2>8. rrl' \in [RrlKeys -> DomainRateBucket \cup {NoBucket}]
    BY Zenon DEF TypeOK
  <2> QED
    BY <2>6, <2>7, <2>8, Zenon DEF TypeOK
<1>6. CASE StartCleanup
  BY <1>1, <1>6 DEF StartCleanup, TypeOK
<1>7. ASSUME NEW s \in Subnets, CleanSubnet(s) PROVE TypeOK'
  BY <1>1, <1>7, ZenonT(60) DEF CleanSubnet, TypeOK
<1>8. ASSUME NEW k \in RrlKeys, CleanKey(k) PROVE TypeOK'
  BY <1>8 DEF CleanKey, TypeOK, Rest
<1>9. CASE Tick
  BY <1>1, <1>9, SMTT(60), Zenon DEF Tick, TypeOK
<1>10. CASE SetBack
  BY <1>10 DEF SetBack, TypeOK
<1>11. CASE UNCHANGED vars
  BY <1>11, Zenon DEF vars, TypeOK
<1> QED
  BY <1>2, <1>3, <1>4, <1>5, <1>6, <1>7, <1>8, <1>9, <1>10, <1>11, Zenon DEF Next

(***************************************************************************)
(* The parts of the invariant                                              *)
(***************************************************************************)
\* Calls are recent, and what cleanup takes out is old.
LEMMA ClockKept == TypeOK /\ Clock /\ [Next]_vars => Clock'
<1> SUFFICES ASSUME TypeOK, Clock, [Next]_vars PROVE Clock'
  BY Zenon
<1> USE BucketAssumption DEF Clock, Oldest
<1>1. /\ now \in Int /\ top \in Int /\ cleaner.cutoff \in Int
      /\ \A w \in Workers : call[w].ms \in Int
  BY DEF TypeOK, Calls
<1>2. ASSUME NEW w \in Workers, NEW k \in load.keys, Arrive(w, k) PROVE Clock'
  BY <1>1, <1>2, SMTT(60), Zenon DEF Arrive, TypeOK
<1>3. ASSUME UNCHANGED <<now, top, cleaner>>, NEW w \in Workers,
             Leave(w) \/ \E a \in {"rrl", "entry"} : call' = [call EXCEPT ![w].at = a],
             call[w].at # "idle"
      PROVE  Clock'
  <2> USE <1>3
  <2>1. \A u \in Workers \ {w} : call'[u] = call[u]
    BY Zenon DEF Leave, TypeOK
  <2>2. call'[w].at # "idle" => call'[w].ms = call[w].ms
    BY SMTT(60) DEF Leave, NoCall, TypeOK, Calls
  <2> QED
    BY <2>1, <2>2, Zenon
<1>4. ASSUME NEW w \in Workers, CheckSubnet(w) \/ CheckRoom(w) \/ CountQuery(w) PROVE Clock'
  BY <1>3, <1>4, ZenonT(60) DEF CheckSubnet, CheckRoom, CountQuery
<1>5. CASE StartCleanup
  BY <1>1, <1>5, SMTT(60), Zenon DEF StartCleanup
<1>6. ASSUME NEW s \in Subnets, CleanSubnet(s) PROVE Clock'
  BY <1>6, Zenon DEF CleanSubnet, TypeOK
<1>7. ASSUME NEW k \in RrlKeys, CleanKey(k) PROVE Clock'
  BY <1>7, Zenon DEF CleanKey, TypeOK, Rest
<1>8. CASE Tick
  BY <1>1, <1>8, SMTT(60), Zenon DEF Tick, Prompt
<1>9. CASE SetBack
  BY <1>1, <1>9, SMTT(60), Zenon DEF SetBack
<1>10. CASE UNCHANGED vars
  BY <1>10, Zenon DEF vars
<1> QED
  BY <1>2, <1>4, <1>5, <1>6, <1>7, <1>8, <1>9, <1>10, Zenon DEF Next

\* The oldest call there can be gets younger.
LEMMA OldestGrows ==
  ASSUME top \in Int, top' \in Int, top <= top'
  PROVE  Oldest \in Int /\ Oldest' \in Int /\ Oldest <= Oldest'
<1> USE BucketAssumption
<1>1. Oldest = top - MaxBack - MaxWait /\ Oldest' = top' - MaxBack - MaxWait
  BY Zenon DEF Oldest
<1>2. Oldest \in Int /\ Oldest' \in Int
  BY <1>1
<1>3. \A a, b \in Int : a <= b => a - MaxBack - MaxWait <= b - MaxBack - MaxWait
  OBVIOUS
<1>4. Oldest <= Oldest'
  BY <1>1, <1>3, ZenonT(60)
<1> QED
  BY <1>2, <1>4, Zenon

\* Time goes on: what is forgotten stays forgotten.
LEMMA LaterKeepsBudget ==
  ASSUME TypeOK, TypeOK', NEW s \in Subnets, Budget(s), top <= top',
         UNCHANGED <<buckets[s], granted[s]>>
  PROVE  Budget(s)'
<1> USE BucketAssumption
<1>1. top \in Int /\ top' \in Int /\ granted[s] \in Int
  BY DEF TypeOK
<1> USE <1>1
<1>2. Oldest \in Int /\ Oldest' \in Int /\ Oldest <= Oldest'
  BY OldestGrows, Zenon
<1>3. granted[s] * Millis \in Int
  BY MillisTimes, Zenon
<1>4. RefillPerSec * Oldest <= RefillPerSec * Oldest' /\ RefillPerSec * Oldest \in Int
      /\ RefillPerSec * Oldest' \in Int
  BY <1>2, RateTimes, ZenonT(60)
<1>5. buckets[s] # NoBucket => buckets[s].last_refill \in Int
  BY SMTT(60) DEF TypeOK, Bucket
<1> QED
  BY <1>2, <1>4, <1>5, <1>3 DEF Budget

\* A call takes a token at most, and what it adds is refilled; a bucket made
\* anew is full, which the time since it was forgotten pays for.
LEMMA CheckKeepsBudget ==
  ASSUME TypeOK, Clock, NEW s \in Subnets, Budget(s),
         NEW w \in Workers, CheckSubnet(w), call[w].key[1] = s
  PROVE  Budget(s)'
<1> USE BucketAssumption
<1> DEFINE ms == call[w].ms
           fresh == [tokens |-> Capacity, last_refill |-> ms, last_seen |-> ms]
           b0 == IF buckets[s] = NoBucket THEN fresh ELSE buckets[s]
           b == Entry(s, ms)
           g == granted[s]
<1>1. /\ ms \in 0..MaxTime /\ Oldest <= ms /\ ms <= top /\ g \in Nat
      /\ top \in 0..MaxTime /\ Oldest \in Int
  BY SMTT(60) DEF TypeOK, Calls, Clock, CheckSubnet, Oldest
<1>2. fresh \in Bucket /\ b0 \in Bucket
  BY <1>1, SMTT(60), Zenon DEF Bucket, TypeOK
<1>3. b = Refill(b0, ms)
  BY Zenon DEF Entry
<1> HIDE DEF ms, b0, b, g
<1>4. /\ b \in Bucket /\ b.last_seen = ms /\ b.last_refill \in {b0.last_refill, ms}
      /\ b.tokens * Millis + RefillPerSec * b0.last_refill
           <= b0.tokens * Millis + RefillPerSec * b.last_refill
  BY <1>1, <1>2, <1>3, RefillGives, Zenon
<1>5. /\ b0.tokens \in Int /\ b0.last_refill \in Int
      /\ b.tokens \in 0..Capacity /\ b.last_refill \in Int
  BY <1>2, <1>4 DEF Bucket
<1>6. /\ g * Millis \in Int /\ b0.tokens * Millis \in Int /\ b.tokens * Millis \in Int
      /\ Capacity * Millis \in Int /\ RefillPerSec * b0.last_refill \in Int
      /\ RefillPerSec * b.last_refill \in Int
  <2>1. \A x \in Int : x * Millis \in Int /\ RefillPerSec * x \in Int
    BY MillisTimes, RateTimes, Zenon
  <2> QED
    BY <1>1, <1>5, <2>1

\* Before the refill
<1>7. /\ g * Millis + b0.tokens * Millis <= Capacity * Millis + RefillPerSec * b0.last_refill
      /\ b0.last_refill <= top
  <2>1. CASE buckets[s] = NoBucket
    <3>1. b0.tokens = Capacity /\ b0.last_refill = ms
      BY <2>1, Zenon DEF b0
    <3> USE <1>1
    <3>2. RefillPerSec * ms >= 0 /\ RefillPerSec * Oldest <= RefillPerSec * ms
          /\ RefillPerSec * Oldest \in Int /\ RefillPerSec * ms \in Int
      BY RateTimes
    <3>3. g = 0 \/ g * Millis <= RefillPerSec * Oldest
      BY <2>1, Zenon DEF Budget, g
    <3>4. g * Millis <= RefillPerSec * ms
      BY <1>6, <3>2, <3>3
    <3> QED
      BY <1>6, <3>1, <3>2, <3>4
  <2>2. CASE buckets[s] # NoBucket
    BY <2>2, Zenon DEF Budget, b0, g
  <2> QED
    BY <2>1, <2>2, Zenon

\* After it
<1>8. /\ g * Millis + b.tokens * Millis <= Capacity * Millis + RefillPerSec * b.last_refill
      /\ b.last_refill <= top /\ b.last_refill <= ms + MaxBack + MaxWait
  BY <1>1, <1>4, <1>5, <1>6, <1>7, SMTT(60), Zenon DEF Oldest
<1>9. /\ buckets'[s] = Take(b) /\ top' = top
      /\ \/ b.tokens <= 0 /\ granted'[s] = g
         \/ b.tokens > 0 /\ granted'[s] = g + 1
  BY Zenon DEF CheckSubnet, Entry, TypeOK, ms, b, g
<1>10. /\ Take(b) \in Bucket /\ Take(b).last_refill = b.last_refill /\ Take(b).last_seen = ms
       /\ Take(b).tokens = IF b.tokens > 0 THEN b.tokens - 1 ELSE 0
  BY <1>4, <1>5 DEF Take, Bucket
<1> USE <1>10
<1>11. granted'[s] * Millis + Take(b).tokens * Millis = g * Millis + b.tokens * Millis
  <2> USE <1>5
  <2>1. CASE b.tokens <= 0
    BY <1>9, <2>1, SMTT(60), Zenon
  <2>2. CASE b.tokens > 0
    <3>1. \A x \in Int : /\ (x + 1) * Millis = x * Millis + Millis
                          /\ (x - 1) * Millis = x * Millis - Millis
      BY SMTT(60)
    <3>2. /\ (g + 1) * Millis = g * Millis + Millis
          /\ (b.tokens - 1) * Millis = b.tokens * Millis - Millis
      BY <1>1, <3>1
    <3> QED
      BY <1>6, <1>9, <2>2, <3>1, <3>2, SMTT(60), Zenon
  <2> QED
    BY <2>1, <2>2
<1>12. Take(b) # NoBucket
  BY NoBucketAssumption, Zenon
<1> QED
  BY <1>8, <1>9, <1>11, <1>12, Zenon DEF Budget

\* A bucket idle for cleanup's age has refilled all it granted.
LEMMA CleanKeepsBudget ==
  ASSUME TypeOK, Clock, NEW s \in Subnets, Budget(s),
         cleaner.at # "idle", Idle(s), buckets'[s] = NoBucket, UNCHANGED <<top, granted>>
  PROVE  Budget(s)'
<1> USE BucketAssumption
<1> DEFINE b == buckets[s]
           spare == MaxAge - 2 * MaxBack - 2 * MaxWait
<1>1. /\ b \in Bucket /\ top \in Int /\ cleaner.cutoff \in Int /\ granted[s] \in Nat
      /\ b.tokens \in Nat /\ b.last_refill \in Int /\ b.last_seen \in Int
  BY SMTT(60) DEF TypeOK, Idle, Bucket
<1> USE <1>1
<1>2. b.last_seen <= top - MaxAge /\ b.last_refill <= b.last_seen + MaxBack + MaxWait
  BY SMTT(60) DEF Idle, Clock, Budget
<1>3. spare + b.last_refill <= Oldest /\ spare \in Int /\ Oldest \in Int
  BY <1>2, SMTT(60), Zenon DEF Oldest
<1>4. /\ RefillPerSec * (spare + b.last_refill) <= RefillPerSec * Oldest
      /\ RefillPerSec * (spare + b.last_refill) = RefillPerSec * spare + RefillPerSec * b.last_refill
      /\ RefillPerSec * spare \in Int /\ RefillPerSec * b.last_refill \in Int
      /\ RefillPerSec * Oldest \in Int
  BY <1>3, RateTimes, SMTT(60), Zenon
<1>5. /\ granted[s] * Millis \in Int /\ 0 * Millis <= b.tokens * Millis
      /\ b.tokens * Millis \in Int /\ Capacity * Millis \in Int
  <2>1. granted[s] \in Int /\ b.tokens \in Int /\ Capacity \in Int /\ 0 \in Int /\ 0 <= b.tokens
    BY SMTT(60)
  <2> HIDE DEF b
  <2> QED
    BY <2>1, MillisTimes, ZenonT(60)
<1>6. granted[s] * Millis + b.tokens * Millis <= Capacity * Millis + RefillPerSec * b.last_refill
  BY Zenon DEF Budget, Idle
<1>7. granted[s] * Millis <= RefillPerSec * Oldest
  BY <1>4, <1>5, <1>6, IdleBucketIsFull, SMTT(60), Zenon
<1> QED
  BY <1>7, Zenon DEF Budget, Oldest

\* The budget of every subnet, at every step.
LEMMA BudgetKept ==
  ASSUME TypeOK, Clock, TypeOK', [Next]_vars, NEW s \in Subnets, Budget(s)
  PROVE  Budget(s)'
<1>1. top \in Int
  BY DEF TypeOK
<1>2. CASE UNCHANGED <<top, buckets, granted>>
  BY <1>1, <1>2, LaterKeepsBudget
<1>3. ASSUME NEW w \in Workers, CheckSubnet(w) PROVE Budget(s)'
  <2>1. CASE call[w].key[1] = s
    BY <1>3, <2>1, CheckKeepsBudget, Zenon
  <2>2. CASE call[w].key[1] # s
    <3>1. UNCHANGED <<buckets[s], granted[s], top>>
      BY <1>3, <2>2, Zenon DEF CheckSubnet, TypeOK
    <3> QED
      BY <1>1, <3>1, LaterKeepsBudget
  <2> QED
    BY <2>1, <2>2, Zenon
<1>4. ASSUME NEW u \in Subnets, CleanSubnet(u) PROVE Budget(s)'
  <2>1. CASE u = s /\ Idle(s)
    BY <1>4, <2>1, CleanKeepsBudget, Zenon DEF CleanSubnet, TypeOK
  <2>2. CASE ~(u = s /\ Idle(s))
    <3>1. UNCHANGED <<buckets[s], granted[s], top>>
      BY <1>4, <2>2, Zenon DEF CleanSubnet, TypeOK
    <3> QED
      BY <1>1, <3>1, LaterKeepsBudget
  <2> QED
    BY <2>1, <2>2, Zenon
<1>5. CASE Tick
  <2>1. top <= top' /\ UNCHANGED <<buckets[s], granted[s]>>
    BY <1>5 DEF Tick, TypeOK
  <2> QED
    BY <2>1, LaterKeepsBudget, Zenon
<1>6. ASSUME NEW w \in Workers,
             (\E k \in load.keys : Arrive(w, k)) \/ CheckRoom(w) \/ CountQuery(w)
      PROVE  UNCHANGED <<top, buckets, granted>>
  BY <1>6, ZenonT(60) DEF Arrive, CheckRoom, CountQuery
<1>7. StartCleanup \/ (\E k \in RrlKeys : CleanKey(k)) \/ SetBack \/ UNCHANGED vars
        => UNCHANGED <<top, buckets, granted>>
  BY Zenon DEF StartCleanup, CleanKey, SetBack, vars
<1> QED
  BY <1>2, <1>3, <1>4, <1>5, <1>6, <1>7, Zenon DEF Next

\* Time goes on: fewer seconds can be asked about.
LEMMA LaterKeepsAllowed ==
  ASSUME TypeOK, TypeOK', NEW k \in RrlKeys, Allowed(k), top <= top',
         UNCHANGED <<rrl[k], allows[k], untracked>>
  PROVE  Allowed(k)'
<1>1. top \in Int /\ top' \in Int
  BY DEF TypeOK
<1>2. \A ms \in 0..MaxTime : ms >= Oldest' => ms >= Oldest
  BY <1>1, OldestGrows, BucketAssumption
<1> QED
  BY <1>2, Zenon DEF Allowed, Counted

\* A query is allowed only as the first of its second.
LEMMA CountKeepsAllowed ==
  ASSUME TypeOK, Clock, NEW k \in RrlKeys, Allowed(k),
         NEW w \in Workers, CountQuery(w), call[w].key = k
  PROVE  Allowed(k)'
<1> DEFINE ms == call[w].ms
           e == Second(w)
           d == IF rrl[k] = NoBucket THEN [epoch |-> e, count |-> 0, penalized_until |-> 0]
                ELSE rrl[k]
           c == Count(d, e)
<1>1. ms \in 0..MaxTime /\ ms >= Oldest
  BY Zenon DEF TypeOK, Calls, Clock, CountQuery
<1>2. e \in Secs /\ e \in Nat
  BY <1>1, SecondOf, BucketAssumption DEF Secs, Second
<1>3. d \in DomainRateBucket /\ d.epoch \in Secs /\ d.count \in Nat /\ d.penalized_until \in Nat
  <2>1. d \in DomainRateBucket
    BY <1>2, Zenon DEF TypeOK, DomainRateBucket
  <2> QED
    BY <2>1, Zenon DEF DomainRateBucket
<1>4. Secs \subseteq Nat /\ Counted(k) \subseteq Secs /\ Counted(k) \subseteq Nat
  BY DEF Secs, Counted

\* No answer was allowed in a second after the bucket's, nor, for a bucket
\* made by this query, in its own.
<1>5. \A f \in Counted(k) : f > d.epoch => allows[k][f] = 0
  <2>1. CASE rrl[k] = NoBucket
    <3>1. \A f \in Counted(k) : allows[k][f] # 0 => f < e
      BY <1>1, <2>1, Zenon DEF Allowed, Second
    <3>2. d.epoch = e
      BY <2>1, Zenon
    <3> HIDE DEF d, e
    <3> QED
      BY <1>2, <1>4, <3>1, <3>2, SMTT(60)
  <2>2. CASE rrl[k] # NoBucket
    BY <2>2, ZenonT(60) DEF Allowed
  <2> QED
    BY <2>1, <2>2, Zenon
<1>6. d.count = 0 => (e \in Counted(k) => allows[k][e] = 0) /\ d.epoch = e
  <2>1. CASE rrl[k] = NoBucket
    <3>1. \A f \in Counted(k) : allows[k][f] # 0 => f < e
      BY <1>1, <2>1, Zenon DEF Allowed, Second
    <3> QED
      BY <1>2, <1>4, <2>1, <3>1, SMTT(60), Zenon
  <2>2. CASE rrl[k] # NoBucket
    BY <1>3, <2>2, SMTT(60), Zenon DEF Allowed
  <2> QED
    BY <2>1, <2>2, ZenonT(60)
<1>7. e < d.penalized_until => d.count >= 1
  <2>1. CASE rrl[k] = NoBucket
    BY <1>2, <2>1, SMTT(60), Zenon
  <2>2. CASE rrl[k] # NoBucket
    BY <2>2, Zenon DEF Allowed
  <2> QED
    BY <2>1, <2>2, Zenon
<1> HIDE DEF d
<1>8. /\ c \in DomainRateBucket /\ c.epoch \in Secs /\ c.count \in Nat /\ c.count >= 1
      /\ c.epoch >= d.epoch /\ c.epoch >= e
      /\ c.count = 1 /\ e \in Counted(k) => allows[k][e] = 0
  <2> HIDE DEF e
  <2>1. CASE e > d.epoch
    <3> USE <2>1
    <3>1. c = [epoch |-> e, count |-> 1, penalized_until |-> d.penalized_until]
      BY Zenon DEF Count
    <3>2. c.epoch = e /\ c.count = 1
      BY <3>1, SMTT(60), Zenon
    <3>3. e \in Secs /\ d.penalized_until \in Nat /\ d.epoch \in Nat /\ e \in Nat
      BY <1>2, <1>3, <1>4, ZenonT(60) DEF DomainRateBucket
    <3>4. c \in DomainRateBucket
      BY <3>1, <3>3, SMTT(60), Zenon DEF DomainRateBucket
    <3>5. c.count = 1 /\ e \in Counted(k) => allows[k][e] = 0
      BY <1>2, <1>5, ZenonT(60)
    <3> QED
      BY <3>2, <3>3, <3>4, <3>5, SMTT(60), Zenon
  <2>2. CASE ~(e > d.epoch)
    <3>1. c = [d EXCEPT !.count = d.count + 1]
      BY <2>2, Zenon DEF Count
    <3> USE <1>3
    <3>2. c.epoch = d.epoch /\ c.count = d.count + 1 /\ c \in DomainRateBucket
      BY <3>1, SMTT(60), Zenon DEF DomainRateBucket
    <3>3. d.epoch \in Nat /\ d.count \in Nat /\ e \in Nat
      BY <1>2, <1>4, ZenonT(60)
    <3>4. c.count = 1 /\ e \in Counted(k) => allows[k][e] = 0
      BY <1>6, <3>2, <3>3, SMTT(60), Zenon
    <3> QED
      BY <2>2, <3>2, <3>3, <3>4, SMTT(60), Zenon
  <2> QED
    BY <2>1, <2>2, Zenon
<1> HIDE DEF c

\* What is stored, and what it follows from.
<1>9. \E x \in {d, c} :
        /\ rrl'[k] = x \/ rrl'[k] = [x EXCEPT !.penalized_until = e + PenaltySecs]
        /\ x.count >= 1
        /\ \/ allows'[k] = allows[k]
           \/ x = c /\ c.count = 1 /\ allows'[k] = [allows[k] EXCEPT ![e] = allows[k][e] + 1]
  <2>1. CASE e < d.penalized_until /\ Penalize(k, d, e)
    BY <1>7, <2>1, Zenon DEF Penalize, TypeOK
  <2> USE <1>8
  <2>2. CASE /\ c.count = 1 /\ rrl' = [rrl EXCEPT ![k] = c]
             /\ AllowKey(k, e)
    BY <2>2, Zenon DEF TypeOK, AllowKey
  <2>3. CASE rrl' = [rrl EXCEPT ![k] = c] /\ UNCHANGED allows
    BY <2>3, Zenon DEF TypeOK
  <2>4. CASE Penalize(k, c, e)
    BY <2>4, Zenon DEF Penalize, TypeOK
  <2> QED
    BY <2>1, <2>2, <2>3, <2>4, ZenonT(60) DEF CountQuery, c, d
<1>10. PICK x \in {d, c} :
        /\ rrl'[k] = x \/ rrl'[k] = [x EXCEPT !.penalized_until = e + PenaltySecs]
        /\ x.count >= 1
        /\ \/ allows'[k] = allows[k]
           \/ x = c /\ c.count = 1 /\ allows'[k] = [allows[k] EXCEPT ![e] = allows[k][e] + 1]
  BY <1>9, Zenon
<1>11. /\ rrl'[k] \in DomainRateBucket /\ rrl'[k].count = x.count /\ rrl'[k].epoch = x.epoch
       /\ rrl'[k] # NoBucket
  <2>1. x \in DomainRateBucket /\ e + PenaltySecs \in Nat
    BY <1>2, <1>3, <1>8, RrlAssumption, SMTT(60), Zenon
  <2>2. \A y \in {x, [x EXCEPT !.penalized_until = e + PenaltySecs]} :
          y \in DomainRateBucket /\ y.count = x.count /\ y.epoch = x.epoch
    BY <2>1, Zenon DEF DomainRateBucket
  <2> QED
    BY <1>10, <2>2, NoBucketAssumption, ZenonT(60)
<1>12. allows[k] \in [Secs -> Nat] /\ \A f \in Counted(k) : allows[k][f] <= 1
  BY Zenon DEF TypeOK, Allowed
<1>13. /\ \A f \in Counted(k) : allows'[k][f] <= 1
       /\ \A f \in Counted(k) : f > x.epoch => allows'[k][f] = 0
  <2> USE <1>4
  <2>1. x.epoch \in Nat /\ x.epoch >= d.epoch /\ d.epoch \in Nat
    <3>1. d.epoch \in Nat /\ c.epoch \in Nat /\ c.epoch >= d.epoch
      BY <1>3, <1>8, ZenonT(60)
    <3> QED
      BY <3>1
  <2>2. \A f \in Counted(k) : f > x.epoch => f > d.epoch
    BY <2>1
  <2>3. CASE allows'[k] = allows[k]
    BY <1>5, <1>12, <2>3, <2>2, ZenonT(60)
  <2>4. CASE x = c /\ c.count = 1 /\ allows'[k] = [allows[k] EXCEPT ![e] = allows[k][e] + 1]
    BY <1>2, <1>5, <1>8, <1>12, <2>1, <2>4, SMTT(60), Zenon
  <2> QED
    BY <1>10, <2>3, <2>4, Zenon
<1> QED
  <2>1. Counted(k)' = Counted(k)
    BY Zenon DEF CountQuery, Counted
  <2> QED
    BY <1>10, <1>11, <1>13, <2>1, ZenonT(60) DEF Allowed

\* RRL's bucket goes once no call can ask about its second again.
LEMMA CleanKeepsAllowed ==
  ASSUME TypeOK, Clock, NEW k \in RrlKeys, Allowed(k), cleaner.at = "rrl",
         rrl[k] # NoBucket, rrl[k].epoch < cleaner.cutoff \div Millis,
         rrl'[k] = NoBucket, UNCHANGED <<top, allows, untracked>>
  PROVE  Allowed(k)'
<1>1. /\ top \in Int /\ cleaner.cutoff \in Int /\ cleaner.cutoff <= top - MaxAge
      /\ rrl[k].epoch \in Int /\ Secs \subseteq Int /\ allows[k] \in [Secs -> Nat]
  BY DEF TypeOK, Clock, DomainRateBucket, Secs
<1> USE <1>1
<1>2. ASSUME NEW f \in Counted(k), NEW ms \in 0..MaxTime, allows[k][f] # 0, ms >= Oldest
      PROVE  f < ms \div Millis
  <2>1. cleaner.cutoff <= ms
    BY <1>2, AgeIsLong, BucketAssumption DEF Oldest
  <2>2. /\ cleaner.cutoff \div Millis <= ms \div Millis
        /\ cleaner.cutoff \div Millis \in Int /\ ms \div Millis \in Int
    BY <2>1, Division, SMTT(60), Zenon
  <2>3. f <= rrl[k].epoch
    BY <1>2 DEF Allowed, Counted
  <2>4. f \in Int
    BY Zenon DEF Counted
  <2> QED
    BY <2>2, <2>3, <2>4, SMTT(60)
<1>3. Oldest' = Oldest /\ Counted(k)' = Counted(k)
  BY Zenon DEF Oldest, Counted
<1> QED
  BY <1>2, <1>3, Zenon DEF Allowed

\* A query let through for want of room marks its second.
LEMMA RoomKeepsAllowed ==
  ASSUME TypeOK, NEW k \in RrlKeys, Allowed(k), NEW w \in Workers, CheckRoom(w)
  PROVE  Allowed(k)'
<1>1. call[w].key \in RrlKeys /\ Second(w) \in Secs
  BY SecondOf, Zenon DEF TypeOK, Calls, Second
<1>2. Oldest' = Oldest /\ rrl' = rrl
  BY Zenon DEF CheckRoom, Oldest
<1>3. Counted(k)' \subseteq Counted(k)
  BY Zenon DEF CheckRoom, Counted
<1>4. \A f \in Counted(k)' : allows'[k][f] = allows[k][f]
  <2> SUFFICES ASSUME NEW f \in Counted(k)' PROVE allows'[k][f] = allows[k][f]
    BY Zenon
  <2>1. CASE UNCHANGED allows
    BY <2>1, Zenon
  <2>2. CASE /\ AllowKey(call[w].key, Second(w))
             /\ untracked' = untracked \cup {<<call[w].key, Second(w)>>}
    <3>1. f \in Secs /\ <<k, f>> # <<call[w].key, Second(w)>>
      BY <2>2, Zenon DEF Counted
    <3> QED
      BY <1>1, <2>2, <3>1, SMTT(60), Zenon DEF AllowKey, TypeOK
  <2> QED
    BY <2>1, <2>2, Zenon DEF CheckRoom
<1> QED
  BY <1>2, <1>3, <1>4, ZenonT(60) DEF Allowed

\* No step lets a key be allowed twice in a second.
LEMMA AllowedKept ==
  ASSUME TypeOK, Clock, TypeOK', [Next]_vars, NEW k \in RrlKeys, Allowed(k)
  PROVE  Allowed(k)'
<1>1. top \in Int
  BY DEF TypeOK
<1>2. CASE UNCHANGED <<top, rrl, allows, untracked>>
  BY <1>1, <1>2, LaterKeepsAllowed
<1>3. ASSUME NEW w \in Workers, CountQuery(w) PROVE Allowed(k)'
  <2>1. CASE call[w].key = k
    BY <1>3, <2>1, CountKeepsAllowed, Zenon
  <2>2. CASE call[w].key # k
    <3>1. UNCHANGED <<rrl[k], allows[k], top, untracked>>
      BY <1>3, <2>2, ZenonT(60) DEF CountQuery, Penalize, AllowKey, TypeOK
    <3> QED
      BY <1>1, <3>1, LaterKeepsAllowed, SMTT(60), Zenon
  <2> QED
    BY <2>1, <2>2, Zenon
<1>4. ASSUME NEW j \in RrlKeys, CleanKey(j) PROVE Allowed(k)'
  <2>1. CASE rrl'[k] = rrl[k]
    <3>1. UNCHANGED <<rrl[k], allows[k], top, untracked>>
      BY <1>4, <2>1, Zenon DEF CleanKey
    <3> QED
      BY <1>1, <3>1, LaterKeepsAllowed
  <2>2. CASE rrl'[k] # rrl[k]
    <3>1. /\ j = k /\ rrl[k] # NoBucket /\ rrl[k].epoch < cleaner.cutoff \div Millis
          /\ rrl'[k] = NoBucket /\ UNCHANGED <<top, allows, untracked>> /\ cleaner.at = "rrl"
      BY <1>4, <2>2, Zenon DEF CleanKey, TypeOK
    <3> QED
      BY <3>1, CleanKeepsAllowed, Zenon
  <2> QED
    BY <2>1, <2>2, Zenon
<1>5. CASE Tick
  <2>1. top <= top' /\ UNCHANGED <<rrl[k], allows[k], untracked>>
    BY <1>5, SMTT(60), Zenon DEF Tick, TypeOK
  <2> QED
    BY <2>1, LaterKeepsAllowed, Zenon
<1>6. ASSUME NEW w \in Workers,
             (\E j \in load.keys : Arrive(w, j)) \/ CheckSubnet(w)
      PROVE  UNCHANGED <<top, rrl, allows, untracked>>
  BY <1>6, Zenon DEF Arrive, CheckSubnet
<1>7. StartCleanup \/ (\E s \in Subnets : CleanSubnet(s)) \/ SetBack \/ UNCHANGED vars
        => UNCHANGED <<top, rrl, allows, untracked>>
  BY Zenon DEF StartCleanup, CleanSubnet, SetBack, vars
<1> QED
  BY <1>2, <1>3, <1>4, <1>5, <1>6, <1>7, RoomKeepsAllowed, Zenon DEF Next

\* A worker enters at most one key.
FewEntering == IsFiniteSet(Entering) /\ Cardinality(Entering) <= Cardinality(Workers)

(***************************************************************************)
(* RateLimiter: the sizes of finite sets. The facts of FiniteSetTheorems   *)
(* about IsFiniteSet and Cardinality, for the operators of the models.     *)
(***************************************************************************)
F == INSTANCE FiniteSetTheorems

LEMMA FiniteSame ==
  \A S : F!IsFiniteSet(S) <=> IsFiniteSet(S)
BY Zenon DEF F!IsFiniteSet, IsFiniteSet

LEMMA SizeSame ==
  \A S : F!Cardinality(S) = Cardinality(S)
BY Zenon DEF F!Cardinality, Cardinality

LEMMA SizeIsNumber ==
  ASSUME NEW S, IsFiniteSet(S)
  PROVE  Cardinality(S) \in Nat
BY FiniteSame, SizeSame, F!FS_CardinalityType, Zenon

LEMMA SizeOfEmpty ==
  /\ IsFiniteSet({}) /\ Cardinality({}) = 0
  /\ \A S : IsFiniteSet(S) => (Cardinality(S) = 0 <=> S = {})
BY FiniteSame, SizeSame, F!FS_EmptySet, Zenon

LEMMA SizeOfSubset ==
  ASSUME NEW S, IsFiniteSet(S), NEW T \in SUBSET S
  PROVE  /\ IsFiniteSet(T)
         /\ Cardinality(T) <= Cardinality(S)
         /\ Cardinality(S) = Cardinality(T) => S = T
BY FiniteSame, SizeSame, F!FS_Subset, Zenon

LEMMA SizeOfUnion ==
  ASSUME NEW S, IsFiniteSet(S), NEW T, IsFiniteSet(T)
  PROVE  /\ IsFiniteSet(S \cup T)
         /\ Cardinality(S \cup T) = Cardinality(S) + Cardinality(T) - Cardinality(S \cap T)
BY FiniteSame, SizeSame, F!FS_Union, Zenon

LEMMA SizeOfIntersection ==
  ASSUME NEW S, IsFiniteSet(S), NEW T
  PROVE  IsFiniteSet(S \cap T) /\ Cardinality(S \cap T) <= Cardinality(S)
BY FiniteSame, SizeSame, F!FS_Intersection, Zenon

LEMMA SizeOfProduct ==
  ASSUME NEW S, IsFiniteSet(S), NEW T, IsFiniteSet(T)
  PROVE  /\ IsFiniteSet(S \X T)
         /\ Cardinality(S \X T) = Cardinality(S) * Cardinality(T)
BY FiniteSame, SizeSame, F!FS_Product, Zenon

LEMMA SizeOfImage ==
  ASSUME NEW S, IsFiniteSet(S), NEW T, NEW f \in [S -> T],
         \A t \in T : \E s \in S : f[s] = t
  PROVE  IsFiniteSet(T) /\ Cardinality(T) <= Cardinality(S)
BY FiniteSame, SizeSame, F!FS_Surjection DEF F!Surjection

\* There are finitely many keys, and at most one a worker is entering.
LEMMA Counts ==
  ASSUME TypeOK
  PROVE  /\ IsFiniteSet(RrlKeys)
         /\ Tracked \cup Entering \in SUBSET RrlKeys
         /\ IsFiniteSet(Entering) /\ Cardinality(Entering) <= Cardinality(Workers)
         /\ Cardinality(Workers) \in Nat
<1>1. IsFiniteSet(RrlKeys)
  BY SetsAssumption, SizeOfProduct, Zenon DEF RrlKeys
<1> DEFINE W == {u \in Workers : call[u].at = "entry"}
           f == [u \in W |-> call[u].key]
<1>2. IsFiniteSet(W) /\ Cardinality(W) <= Cardinality(Workers)
  BY SetsAssumption, SizeOfSubset, Zenon
<1>3. f \in [W -> Entering] /\ \A k \in Entering : \E u \in W : f[u] = k
  BY Zenon DEF Entering
<1> HIDE DEF f
<1> USE <1>2
<1>4. IsFiniteSet(Entering) /\ Cardinality(Entering) <= Cardinality(W)
  BY <1>3, SizeOfImage, Zenon
<1>5. Cardinality(W) \in Nat /\ Cardinality(Workers) \in Nat /\ Cardinality(Entering) \in Nat
  BY <1>4, SetsAssumption, SizeIsNumber, Zenon
<1>6. Entering \subseteq RrlKeys
  BY DEF Entering, TypeOK, Calls
<1> QED
  BY <1>1, <1>4, <1>5, <1>6 DEF Tracked

\* That holds after a step as well.
LEMMA EnteringAfter == TypeOK' => FewEntering'
<1>1. TypeOK => FewEntering
  BY Counts, Zenon DEF FewEntering
<1> QED
  BY <1>1, PTL

\* The table and those entering it do not grow, but by a call that saw room.
LEMMA FewerKeepRoom ==
  ASSUME TypeOK, Room, Tracked' \cup Entering' \subseteq Tracked \cup Entering
  PROVE  Room'
<1>1. IsFiniteSet(Tracked \cup Entering)
  BY Counts, SizeOfSubset, Zenon
<1>2. /\ Cardinality(Tracked' \cup Entering') <= Cardinality(Tracked \cup Entering)
      /\ IsFiniteSet(Tracked' \cup Entering')
  BY <1>1, SizeOfSubset, Zenon
<1>3. Cardinality(Tracked' \cup Entering') \in Nat /\ Cardinality(Tracked \cup Entering) \in Nat
  BY <1>1, <1>2, SizeIsNumber, SMTT(60), Zenon
<1> QED
  BY <1>2, <1>3, Counts, RrlAssumption DEF Room

\* The table overshoots its limit by no more than the calls that saw room.
LEMMA RoomKept == TypeOK /\ TypeOK' /\ Room /\ [Next]_vars => Room'
<1> SUFFICES ASSUME TypeOK, TypeOK', Room, [Next]_vars PROVE Room'
  BY Zenon
<1>1. ASSUME \A u \in Workers : call'[u].at = "entry" => call[u].at = "entry" /\ call'[u].key = call[u].key
      PROVE  Entering' \subseteq Entering
  BY <1>1, Zenon DEF Entering
<1>2. CASE UNCHANGED <<call, rrl>>
  BY <1>2, FewerKeepRoom, Zenon DEF Tracked, Entering
<1>3. ASSUME NEW w \in Workers, (\E k \in load.keys : Arrive(w, k)) \/ CheckSubnet(w)
      PROVE  Room'
  <2>1. \A u \in Workers : call'[u].at = "entry" => call[u].at = "entry" /\ call'[u].key = call[u].key
    <3>1. ASSUME NEW k \in load.keys, Arrive(w, k)
          PROVE  call'[w].at # "entry" /\ \A u \in Workers \ {w} : call'[u] = call[u]
      BY <3>1, Zenon DEF Arrive, TypeOK
    <3>2. ASSUME Leave(w) \/ call' = [call EXCEPT ![w].at = "rrl"]
          PROVE  call'[w].at # "entry" /\ \A u \in Workers \ {w} : call'[u] = call[u]
      BY <3>2, SMTT(60), Zenon DEF Leave, NoCall, TypeOK, Calls
    <3>3. CheckSubnet(w) => Leave(w) \/ call' = [call EXCEPT ![w].at = "rrl"]
      BY ZenonT(60) DEF CheckSubnet
    <3> QED
      BY <1>3, <3>1, <3>2, <3>3, ZenonT(60)
  <2>2. Tracked' = Tracked
    BY <1>3, Zenon DEF Arrive, CheckSubnet, Tracked
  <2> QED
    BY <1>1, <2>1, <2>2, FewerKeepRoom, Zenon
<1>4. ASSUME NEW w \in Workers, CheckRoom(w) PROVE Room'
  <2> DEFINE k == call[w].key
  <2>1. Tracked' = Tracked /\ k \in RrlKeys
    BY <1>4, Zenon DEF CheckRoom, Tracked, TypeOK, Calls
  <2>2. CASE Leave(w)
    <3>1. \A u \in Workers : call'[u].at = "entry" => call[u].at = "entry" /\ call'[u].key = call[u].key
      BY <2>2, Zenon DEF Leave, NoCall, TypeOK
    <3> QED
      BY <1>1, <2>1, <3>1, FewerKeepRoom, Zenon
  <2>3. CASE ~Leave(w)
    <3>1. call' = [call EXCEPT ![w].at = "entry"]
      BY <1>4, <2>3, Zenon DEF CheckRoom
    <3>2. \A u \in Workers : u # w => call'[u] = call[u]
      BY <3>1, Zenon DEF TypeOK
    <3>3. call'[w].key = k
      BY <3>1 DEF TypeOK, Calls
    <3>4. Entering' \subseteq Entering \cup {k}
      BY <3>2, <3>3, Zenon DEF Entering
    <3>5. CASE k \in Tracked
      BY <2>1, <3>4, <3>5, FewerKeepRoom, SMTT(60), Zenon
    <3>6. CASE k \notin Tracked
      <4>1. Cardinality(Tracked) < MaxTracked
        <5>1. rrl[k] = NoBucket
          BY <2>1, <3>6, Zenon DEF Tracked
        <5>2. ~(Cardinality(Tracked) >= MaxTracked)
          BY <1>4, <2>3, <5>1, Zenon DEF CheckRoom
        <5>3. Cardinality(Tracked) \in Nat
          BY Counts, SizeOfSubset, SizeIsNumber, Zenon
        <5> QED
          BY <5>2, <5>3, RrlAssumption
      <4>2. IsFiniteSet(Tracked) /\ Cardinality(Tracked) \in Nat
        BY Counts, SizeOfSubset, SizeIsNumber, Zenon
      <4>3. IsFiniteSet(Entering') /\ Cardinality(Entering') <= Cardinality(Workers)
        BY EnteringAfter, Zenon DEF FewEntering
      <4> USE <4>3
      <4>4. Cardinality(Entering') \in Nat
        BY SizeIsNumber, Zenon
      <4> USE <4>2
      <4>5. /\ Cardinality(Tracked \cup Entering') =
                 Cardinality(Tracked) + Cardinality(Entering') - Cardinality(Tracked \cap Entering')
        BY SizeOfUnion, Zenon
      <4>6. Cardinality(Tracked \cap Entering') \in Nat
        BY SizeOfIntersection, SizeOfSubset, SizeIsNumber, Zenon
      <4> QED
        BY <2>1, <4>1, <4>4, <4>5, <4>6, Counts, RrlAssumption, SMTT(60), Zenon DEF Room
    <3> QED
      BY <3>5, <3>6, Zenon
  <2> QED
    BY <2>2, <2>3, Zenon
<1>5. ASSUME NEW w \in Workers, CountQuery(w) PROVE Room'
  <2> USE <1>5
  <2>1. \A u \in Workers : call'[u].at = "entry" => call[u].at = "entry" /\ call'[u].key = call[u].key
    BY ZenonT(60) DEF CountQuery, Leave, NoCall, TypeOK
  <2>2. call[w].key \in Entering
    BY ZenonT(60) DEF CountQuery, Entering
  <2>3. \A j \in RrlKeys : j # call[w].key => rrl'[j] = rrl[j]
    BY ZenonT(60) DEF CountQuery, Penalize, TypeOK
  <2>4. Tracked' \subseteq Tracked \cup Entering
    BY <2>2, <2>3, Zenon DEF Tracked
  <2> QED
    BY <1>1, <2>1, <2>4, FewerKeepRoom, SMTT(60), Zenon
<1>6. ASSUME NEW k \in RrlKeys, CleanKey(k) PROVE Room'
  <2>1. Tracked' \subseteq Tracked
    BY <1>6, Zenon DEF CleanKey, Tracked, TypeOK
  <2>2. Entering' = Entering
    BY <1>6, Zenon DEF CleanKey, Entering
  <2> QED
    BY <2>1, <2>2, FewerKeepRoom, Zenon
<1>7. StartCleanup \/ (\E s \in Subnets : CleanSubnet(s)) \/ Tick \/ SetBack \/ UNCHANGED vars
        => UNCHANGED <<call, rrl>>
  BY Zenon DEF StartCleanup, CleanSubnet, Tick, SetBack, vars
<1> QED
  BY <1>2, <1>3, <1>4, <1>5, <1>6, <1>7, Zenon DEF Next

\* Nothing is granted, tracked or under way at the start.
LEMMA InitIInv == Init => IInv
<1> SUFFICES ASSUME Init PROVE IInv
  BY Zenon
<1> USE BucketAssumption
<1>1. \A w \in Workers : call[w] = NoCall /\ call[w].at = "idle"
  BY Zenon DEF Init, NoCall
<1>2. TypeOK
  <2>1. call \in [Workers -> Calls]
    <3>1. PICK s \in Subnets, n \in Names : <<s, n>> \in RrlKeys
      BY SetsAssumption, Zenon DEF RrlKeys
    <3>2. (CHOOSE x \in RrlKeys : TRUE) \in RrlKeys
      BY <3>1, Zenon
    <3>3. NoCall \in Calls
      BY <3>2, SMTT(60), Zenon DEF NoCall, Calls
    <3> QED
      BY <3>3, Zenon DEF Init
  <2>2. allows \in [RrlKeys -> [Secs -> Nat]]
    BY Zenon DEF Init
  <2> QED
    BY <2>1, <2>2, SMTT(60), Zenon DEF Init, TypeOK, Rest
<1>3. Clock
  BY <1>1, SMTT(60), Zenon DEF Init, Clock, Rest
<1>4. \A s \in Subnets : Budget(s)
  BY Zenon DEF Init, Budget
<1>5. \A k \in RrlKeys : Allowed(k)
  BY DEF Init, Allowed, Counted
<1>6. Room
  <2>1. Tracked \cup Entering = {}
    BY <1>1, Zenon DEF Tracked, Entering, Init
  <2>2. Cardinality(Workers) > 0 /\ Cardinality(Workers) \in Nat
    BY SetsAssumption, SizeOfEmpty, SizeIsNumber
  <2> QED
    BY <2>1, <2>2, SizeOfEmpty, RrlAssumption DEF Room
<1> QED
  BY <1>2, <1>3, <1>4, <1>5, <1>6, Zenon DEF IInv

\* All of it, at every step.
THEOREM InductiveInvariant == Spec => []IInv
<1>1. IInv /\ [Next]_vars => IInv'
  <2> SUFFICES ASSUME IInv, [Next]_vars PROVE IInv'
    BY Zenon
  <2>1. TypeOK' /\ Clock'
    BY TypeKept, ClockKept, Zenon DEF IInv
  <2> USE <2>1
  <2>2. \A s \in Subnets : Budget(s)'
    BY BudgetKept, Zenon DEF IInv
  <2>3. \A k \in RrlKeys : Allowed(k)'
    BY AllowedKept, Zenon DEF IInv
  <2>4. Room'
    BY RoomKept, Zenon DEF IInv
  <2> QED
    BY <2>2, <2>3, <2>4, Zenon DEF IInv
<1> QED
  BY <1>1, InitIInv, PTL DEF Spec

\* The tables and the calls keep their types, tokens their cap.
THEOREM TypeCorrect == Spec => []TypeOK
<1>1. IInv => TypeOK
  BY Zenon DEF IInv
<1> QED
  BY <1>1, InductiveInvariant, PTL

\* check_query grants a subnet its burst and its refills, and no more, with
\* cleanup running and the clock set back.
THEOREM BudgetIsKept == Spec => []TokenBudget
<1>1. IInv => TokenBudget
  <2> SUFFICES ASSUME IInv, NEW s \in Subnets
               PROVE  granted[s] * Millis <= Capacity * Millis + RefillPerSec * top
    BY Zenon DEF TokenBudget
  <2> USE BucketAssumption
  <2>1. /\ top \in Nat /\ granted[s] \in Nat /\ Budget(s)
        /\ buckets[s] # NoBucket =>
             /\ buckets[s].tokens \in Nat /\ buckets[s].last_refill \in Int
             /\ buckets[s].last_refill <= top
    BY SMTT(60) DEF IInv, TypeOK, Bucket, Budget
  <2>2. /\ \A x, y \in Int : x <= y => RefillPerSec * x <= RefillPerSec * y
        /\ \A x \in Int : RefillPerSec * x \in Int /\ x * Millis \in Int
        /\ \A x \in Nat : RefillPerSec * x >= 0 /\ x * Millis >= 0
    BY RateTimes, MillisTimes, SMTT(60), Zenon
  <2> USE <2>1
  <2>3. CASE buckets[s] = NoBucket
    <3>1. Oldest <= top /\ Oldest \in Int
      BY DEF Oldest
    <3>2. granted[s] = 0 \/ granted[s] * Millis <= RefillPerSec * Oldest
      BY <2>3, Zenon DEF Budget
    <3>3. RefillPerSec * Oldest <= RefillPerSec * top
      BY <2>2, <3>1, SMTT(60), Zenon
    <3>4. /\ RefillPerSec * Oldest \in Int /\ RefillPerSec * top \in Nat
          /\ Capacity * Millis \in Nat /\ granted[s] * Millis \in Int
      BY <2>2, <3>1
    <3> QED
      BY <3>2, <3>3, <3>4
  <2>4. CASE buckets[s] # NoBucket
    <3> DEFINE b == buckets[s]
    <3> USE <2>4
    <3>1. granted[s] * Millis + b.tokens * Millis <= Capacity * Millis + RefillPerSec * b.last_refill
      BY Zenon DEF Budget
    <3>2. RefillPerSec * b.last_refill <= RefillPerSec * top
      BY <2>2, SMTT(60), Zenon
    <3>3. /\ RefillPerSec * b.last_refill \in Int /\ RefillPerSec * top \in Int
          /\ Capacity * Millis \in Int /\ granted[s] * Millis \in Int
          /\ b.tokens * Millis \in Nat
      BY <2>2
    <3> QED
      BY <3>1, <3>2, <3>3, SMTT(60), ZenonT(20), Zenon
  <2> QED
    BY <2>3, <2>4, Zenon
<1> QED
  BY <1>1, InductiveInvariant, PTL

\* Of all the UDP queries check_query allows, two are for one subnet, name and
\* second only if the table had no room for the key in that second.
THEOREM OneAnswerPerSecond == Spec => []OneAllowPerSecond
<1>1. IInv => OneAllowPerSecond
  <2> SUFFICES ASSUME IInv, NEW k \in RrlKeys, NEW e \in Secs, <<k, e>> \notin untracked
               PROVE  ~(allows[k][e] > 1)
    BY Zenon DEF OneAllowPerSecond
  <2>1. allows[k][e] <= 1 /\ allows[k][e] \in Nat
    BY Zenon DEF IInv, Allowed, Counted, TypeOK
  <2> QED
    BY <2>1
<1> QED
  BY <1>1, InductiveInvariant, PTL

\* The check of the room and the entry are two steps: the callers in between
\* are all the table can exceed its cap by.
THEOREM OvershootIsBounded == Spec => []OvershootBounded
<1>1. IInv => OvershootBounded
  <2> SUFFICES ASSUME IInv PROVE OvershootBounded
    BY Zenon
  <2>1. IsFiniteSet(Tracked \cup Entering) /\ Tracked \in SUBSET (Tracked \cup Entering)
    BY Counts, SizeOfSubset, Zenon DEF IInv
  <2>2. Cardinality(Tracked) <= Cardinality(Tracked \cup Entering) /\ IsFiniteSet(Tracked)
    BY <2>1, SizeOfSubset, Zenon
  <2>3. Cardinality(Tracked) \in Nat /\ Cardinality(Tracked \cup Entering) \in Nat
    BY <2>1, <2>2, SizeIsNumber, Zenon
  <2>4. Cardinality(Workers) \in Nat
    BY Counts, Zenon DEF IInv
  <2> QED
    BY <2>2, <2>3, <2>4, RrlAssumption DEF IInv, Room, OvershootBounded
<1> QED
  BY <1>1, InductiveInvariant, PTL
=============================================================================
