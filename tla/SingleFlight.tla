---------------------------- MODULE SingleFlight ----------------------------
(***************************************************************************)
(* Request coalescing (src/singleflight.rs): concurrent calls of `run`     *)
(* with one key share a OnceCell, and one of them executes the closure.    *)
(*                                                                         *)
(* A caller is one call of `run`.  A call that finds its key vacant makes  *)
(* a new cell and is its leader, so a cell is named by the call that made  *)
(* it.  The leader alone holds a FlightGuard, whose drop removes the key.  *)
(*                                                                         *)
(* A call whose future is dropped before it completes (the HTTP client of  *)
(* a DoH request went away) gives back the cell's permit if it was the one *)
(* initializing it, and drops its guard if it was the leader.              *)
(***************************************************************************)

CONSTANTS
  Callers,      \* the calls of run
  Cancellable,  \* the calls whose future may be dropped half way
  Keys,         \* cache keys
  Values,       \* what the closure can return
  NoCaller,     \* no call
  NoValue       \* the cell is not initialized

ASSUME CancellableAssumption == Cancellable \subseteq Callers
ASSUME NoCallerAssumption == NoCaller \notin Callers
ASSUME NoValueAssumption == NoValue \notin Values

VARIABLES
  flights,  \* flights[k]: the cell registered for k, the DashMap
  permit,   \* permit[x]: the call initializing cell x
  value,    \* value[x]: what cell x was initialized with
  pc,       \* pc[c]: where call c is
  key,      \* key[c]: the key c was called with
  cell      \* cell[c]: the cell c shares

sfVars == <<flights, permit, value, pc, key, cell>>

PC == {"idle", "waiting", "running", "returned", "dropped"}

FlightTypeOK ==
  /\ flights \in [Keys -> Callers \cup {NoCaller}]
  /\ permit \in [Callers -> Callers \cup {NoCaller}]
  /\ value \in [Callers -> Values \cup {NoValue}]
  /\ pc \in [Callers -> PC]
  /\ key \in [Callers -> Keys]
  /\ cell \in [Callers -> Callers \cup {NoCaller}]

FlightInit ==
  /\ flights = [k \in Keys |-> NoCaller]
  /\ permit = [x \in Callers |-> NoCaller]
  /\ value = [x \in Callers |-> NoValue]
  /\ pc = [c \in Callers |-> "idle"]
  /\ key \in [Callers -> Keys]
  /\ cell = [c \in Callers |-> NoCaller]

(***************************************************************************)
(* A call is live while its future exists, and is the leader of the cell   *)
(* it made.                                                                *)
(***************************************************************************)
Live(c) == pc[c] \in {"waiting", "running"}
Leader(c) == cell[c] = c

\* FlightGuard::drop, or nothing for a call that holds no guard.
ReleaseGuard(c) ==
  flights' = IF Leader(c) THEN [flights EXCEPT ![key[c]] = NoCaller]
                          ELSE flights

\* The lookup in the map: join the registered cell, or register a new one.
Enter(c) ==
  /\ pc[c] = "idle"
  /\ pc' = [pc EXCEPT ![c] = "waiting"]
  /\ \/ /\ flights[key[c]] # NoCaller
        /\ cell' = [cell EXCEPT ![c] = flights[key[c]]]
        /\ UNCHANGED flights
     \/ /\ flights[key[c]] = NoCaller
        /\ cell' = [cell EXCEPT ![c] = c]
        /\ flights' = [flights EXCEPT ![key[c]] = c]
  /\ UNCHANGED <<permit, value, key>>

\* Variant of Acquire: a call runs its closure though another one does.
AcquireTaken(c) ==
  /\ pc[c] = "waiting"
  /\ value[cell[c]] = NoValue
  /\ permit' = [permit EXCEPT ![cell[c]] = c]
  /\ pc' = [pc EXCEPT ![c] = "running"]
  /\ UNCHANGED <<flights, value, key, cell>>

\* get_or_init finds the cell empty and its permit free: c runs its closure.
\* Any call sharing the cell may be the one that does.
Acquire(c) ==
  /\ pc[c] = "waiting"
  /\ value[cell[c]] = NoValue
  /\ permit[cell[c]] = NoCaller
  /\ permit' = [permit EXCEPT ![cell[c]] = c]
  /\ pc' = [pc EXCEPT ![c] = "running"]
  /\ UNCHANGED <<flights, value, key, cell>>

\* The closure returns v, which initializes the cell for everyone sharing it.
Finish(c, v) ==
  /\ pc[c] = "running"
  /\ value' = [value EXCEPT ![cell[c]] = v]
  /\ permit' = [permit EXCEPT ![cell[c]] = NoCaller]
  /\ pc' = [pc EXCEPT ![c] = "waiting"]
  /\ UNCHANGED <<flights, key, cell>>

\* Variant of Return: the leader's guard is forgotten, not dropped.
ReturnKeepingGuard(c) ==
  /\ pc[c] = "waiting"
  /\ value[cell[c]] # NoValue
  /\ pc' = [pc EXCEPT ![c] = "returned"]
  /\ UNCHANGED <<flights, permit, value, key, cell>>

\* get_or_init yields the cell's value, and run returns it with was_leader.
Return(c) ==
  /\ pc[c] = "waiting"
  /\ value[cell[c]] # NoValue
  /\ pc' = [pc EXCEPT ![c] = "returned"]
  /\ ReleaseGuard(c)
  /\ UNCHANGED <<permit, value, key, cell>>

\* Variant of Drop: a dropped initializer keeps the permit.
DropKeepingPermit(c) ==
  /\ c \in Cancellable
  /\ Live(c)
  /\ pc' = [pc EXCEPT ![c] = "dropped"]
  /\ ReleaseGuard(c)
  /\ UNCHANGED <<permit, value, key, cell>>

\* The future of run is dropped while it waits or runs.
Drop(c) ==
  /\ c \in Cancellable
  /\ Live(c)
  /\ pc' = [pc EXCEPT ![c] = "dropped"]
  /\ permit' = IF pc[c] = "running" THEN [permit EXCEPT ![cell[c]] = NoCaller]
                                    ELSE permit
  /\ ReleaseGuard(c)
  /\ UNCHANGED <<value, key, cell>>

FlightNext ==
  \E c \in Callers :
    \/ Enter(c)
    \/ Acquire(c)
    \/ \E v \in Values : Finish(c, v)
    \/ Return(c)
    \/ Drop(c)

FlightSpec == FlightInit /\ [][FlightNext]_sfVars

(***************************************************************************)
(* A task that can take a step is polled again by the runtime.  Nothing    *)
(* forces a client to call or to go away, nor the closure (a resolution)   *)
(* to end.                                                                 *)
(***************************************************************************)
Fairness == \A c \in Callers : WF_sfVars(Acquire(c)) /\ WF_sfVars(Return(c))

FairSpec == FlightSpec /\ Fairness

(***************************************************************************)
(* Properties                                                              *)
(***************************************************************************)
Running(k) == {c \in Callers : pc[c] = "running" /\ key[c] = k}

\* A key is registered exactly while the leader of its cell is live, so the
\* remove in FlightGuard::drop takes out the leader's own cell and never one
\* that a later call registered under the same key.
FlightOwned ==
  /\ \A k \in Keys : flights[k] # NoCaller =>
       Live(flights[k]) /\ Leader(flights[k]) /\ key[flights[k]] = k
  /\ \A c \in Callers : Live(c) /\ Leader(c) => flights[key[c]] = c

\* Two closures of one key run at once only on different cells, one of which
\* lost its leader half way: get_or_init then hands the closure to a waiter,
\* while the guard has already made room for a new leader.
DuplicateOnlyAfterDrop ==
  \A k \in Keys : \A c, d \in Running(k) : c # d =>
    /\ cell[c] # cell[d]
    /\ pc[cell[c]] = "dropped" \/ pc[cell[d]] = "dropped"

\* resolve_and_validate is "called at most once per unique cache key at a
\* time by single-flight".
AtMostOnce == \A k \in Keys : \A c, d \in Running(k) : c = d

\* A call that shares cell x is running its closure.
Resolving(x) == \E c \in Callers : pc[c] = "running" /\ cell[c] = x

\* Every call that joins a flight returns or is dropped, whichever of the
\* other calls are dropped on the way, unless a closure of its own flight runs
\* for ever: nobody waits on an abandoned cell.
CallsEnd == \A c \in Callers : Live(c) ~> (~Live(c) \/ []Resolving(cell[c]))

\* A registered key is vacated again, unless a closure of the flight registered
\* runs for ever: an abandoned or finished flight does not keep later misses
\* of its key away from the resolver.
FlightsEnd ==
  \A k \in Keys :
    flights[k] # NoCaller ~> (flights[k] = NoCaller \/ []Resolving(flights[k]))
=============================================================================
