------------------------------ MODULE Recursor ------------------------------
(***************************************************************************)
(* Iterative resolution (src/recursor): resolve_internal, which follows    *)
(* referrals from the root or from a cached delegation, calls itself for   *)
(* aliases and for nameservers without glue, and shares one delegation     *)
(* cache with every other resolution (RootZone has the loader's side).     *)
(*                                                                         *)
(* A name is the sequence of its labels, the root is <<>>.  A task is one  *)
(* call of resolve; frames[t][d] is its call of resolve_internal at depth  *)
(* d, which waits for servers ("ask") or for a call of its own ("alias",   *)
(* "ns").  Between two awaits the code runs as one action.  Addresses are  *)
(* only counted: what a server answers depends on nothing here.            *)
(***************************************************************************)
EXTENDS Integers, Sequences, FiniteSets

CONSTANTS
  Tasks,             \* calls of resolve
  Names,             \* names within the limits on length
  Questions,         \* Questions[t]: the <<name, type>> t may be called with
  Responses,         \* Responses[t]: what query_servers_with_fallback can return to t
  Yields,            \* numbers of usable addresses in an answer
  RootZoneTlds,      \* zones the root zone loader may have inserted
  MaxDepth,          \* MAX_DEPTH
  MaxSteps,          \* MAX_STEPS
  MaxServers,        \* 4: nameservers looked up, addresses that are enough
  MaxDelegationTtl,  \* MAX_DELEGATION_TTL
  MaxTime,           \* bound on the clock
  NoZone, NoFrame, NoEntry, NoOutcome

Types == {"A", "AAAA", "DS"}
Errors == {"DepthExceeded", "StepLimitExceeded", "AllNameserversFailed",
           "GlueResolutionFailed", "NoProgress"}
Outcomes == Errors \cup {"Ok"}

\* answer: what the answer section holds for the question (its type, also at
\* the end of a chain of aliases; a chain that loops; an alias whose target is
\* not there), terminal: an authoritative SOA or AA, authority: its NS set.
Response ==
  [answer : {"none", "target", "loop", "cname", "dname"},  \* of owner, to target
   owner : Names, target : Names,
   terminal : BOOLEAN,
   authority : {"empty", "no_ns", "mixed", "ns"},
   zone : Names, servers : Seq(Names), glue : Nat, ttl : Nat]

ASSUME NamesAssumption ==
  /\ Names \subseteq Seq(STRING) /\ <<>> \in Names
  /\ \A n \in Names : n # <<>> => Len(n) > 0 /\ Tail(n) \in Names
ASSUME QuestionsAssumption == \A t \in Tasks : Questions[t] \subseteq Names \X Types
ASSUME ResponsesAssumption == \A t \in Tasks : Responses[t] \subseteq Response
ASSUME RootZoneAssumption == RootZoneTlds \subseteq Names
ASSUME BoundsAssumption ==
  /\ MaxDepth \in Nat /\ MaxSteps \in Nat \ {0} /\ MaxServers \in Nat \ {0}
  /\ MaxDelegationTtl \in Nat /\ MaxTime \in Nat /\ Yields \subseteq Nat
ASSUME SentinelsAssumption == NoOutcome \notin Outcomes /\ NoZone \notin Names

VARIABLES
  now,               \* now_secs()
  delegation_cache,  \* delegation_cache[z]: the DelegationEntry of zone z
  frames,            \* frames[t][d]: the call at depth d
  depth,             \* depth[t]: the innermost call, -1 outside
  visited,           \* visited[t]: the keys the calls of t share
  returned,          \* returned[t]: what the call at depth[t] + 1 returned
  calls              \* calls[t]: calls of resolve_internal so far (history)

taskVars == <<frames, depth, visited, returned, calls>>
vars == <<now, delegation_cache, taskVars>>

Depths == 0..MaxDepth

DelegationEntry == [expires_at : Nat, source : {"Dynamic", "RootZone"}]

\* What the root zone loader has inserted does not expire within the model.
RootZoneEntry == [expires_at |-> MaxTime + 1, source |-> "RootZone"]

\* The locals of resolve_internal.  todo: nameservers to look up, rtype of the
\* lookup under way, found: addresses so far, for the referral to zone.
Frame ==
  [name : Names, rtype : Types, step : 0..(MaxSteps - 1), using_cached : BOOLEAN,
   last_zone : Names \cup {NoZone}, bailiwick : Names,
   at : {"ask", "alias", "ns", "ns_a", "ns_aaaa"},
   zone : Names, todo : Seq(Names), found : Nat, ttl : Nat]

Keys == {"cname", "dname", "ns"} \X Names

TypeOK ==
  /\ now \in 0..MaxTime
  /\ delegation_cache \in [Names -> DelegationEntry \cup {NoEntry}]
  /\ frames \in [Tasks -> [Depths -> Frame \cup {NoFrame}]]
  /\ depth \in [Tasks -> -1..MaxDepth]
  /\ visited \in [Tasks -> SUBSET Keys]
  /\ returned \in [Tasks -> Outcomes \cup {NoOutcome}]
  /\ calls \in [Tasks -> Nat]

Init ==
  /\ now = 0
  /\ \E preloaded \in SUBSET RootZoneTlds :
       delegation_cache = [z \in Names |-> IF z \in preloaded THEN RootZoneEntry
                                          ELSE NoEntry]
  /\ frames = [t \in Tasks |-> [d \in Depths |-> NoFrame]]
  /\ depth = [t \in Tasks |-> -1]
  /\ visited = [t \in Tasks |-> {}]
  /\ returned = [t \in Tasks |-> NoOutcome]
  /\ calls = [t \in Tasks |-> 0]

(***************************************************************************)
(* Names                                                                   *)
(***************************************************************************)
\* Name::zone_of: z is an ancestor of n, or n.
zone_of(z, n) == Len(z) <= Len(n) /\ SubSeq(n, Len(n) - Len(z) + 1, Len(n)) = z

\* The zones the walks of delegation.rs visit: a DS is looked for at the
\* parent, whose base_name, for the root, is the root.
Path(n, rtype) ==
  {z \in Names : zone_of(z, IF rtype = "DS" /\ n # <<>> THEN Tail(n) ELSE n)}

\* dname_substitute: NoZone when the result is too long to be a name.  The code
\* cuts and joins text, which for a DNAME at or to the root gives another name
\* or none; no response here has one.
dname_substitute(n, owner, target) ==
  LET s == SubSeq(n, 1, Len(n) - Len(owner)) \o target
  IN  IF s \in Names THEN s ELSE NoZone

(***************************************************************************)
(* The delegation cache.  Its walks read key after key; only whether an    *)
(* entry was found, and which one is taken out, makes a difference.        *)
(***************************************************************************)
delegation_ttl(r) == IF r.ttl < MaxDelegationTtl THEN r.ttl ELSE MaxDelegationTtl

find_cached_start(n, rtype) ==
  \E z \in Path(n, rtype) :
    delegation_cache[z] # NoEntry /\ delegation_cache[z].expires_at > now

\* The closest entry goes, whether or not it is the one that was used.
purge_delegation(n, rtype) ==
  LET on == {z \in Path(n, rtype) : delegation_cache[z] # NoEntry}
      first == {z \in on : \A y \in on : Len(y) <= Len(z)}
  IN  [z \in Names |-> IF z \in first THEN NoEntry ELSE delegation_cache[z]]

(***************************************************************************)
(* Calls and returns.                                                      *)
(***************************************************************************)
Top(t) == frames[t][depth[t]]
SetTop(t, f) == frames' = [frames EXCEPT ![t][depth[t]] = f]

Busy(t) == depth[t] >= 0 /\ returned[t] = NoOutcome
Waiting(t, p) == Busy(t) /\ Top(t).at = p

\* The call at depth[t] returns.
Return(t, out) ==
  /\ returned' = [returned EXCEPT ![t] = out]
  /\ frames' = [frames EXCEPT ![t][depth[t]] = NoFrame]
  /\ depth' = [depth EXCEPT ![t] = @ - 1]

NewFrame(n, rtype) ==
  [name |-> n, rtype |-> rtype, step |-> 0, using_cached |-> find_cached_start(n, rtype),
   last_zone |-> NoZone, bailiwick |-> <<>>,
   at |-> "ask", zone |-> <<>>, todo |-> <<>>, found |-> 0, ttl |-> 0]

\* The call at depth[t] becomes f and calls resolve_internal for n.
Call(t, f, n, rtype) ==
  LET d == depth[t] + 1 IN
  /\ calls' = [calls EXCEPT ![t] = @ + 1]
  /\ IF d > MaxDepth
     THEN /\ returned' = [returned EXCEPT ![t] = "DepthExceeded"]
          /\ SetTop(t, f)
          /\ UNCHANGED depth
     ELSE /\ returned' = [returned EXCEPT ![t] = NoOutcome]
          /\ frames' = [frames EXCEPT ![t] =
               [e \in Depths |-> IF e = d THEN NewFrame(n, rtype)
                                 ELSE IF e = depth[t] THEN f ELSE frames[t][e]]]
          /\ depth' = [depth EXCEPT ![t] = d]

\* The first MaxServers nameservers.
Take(s) == IF Len(s) <= MaxServers THEN s ELSE SubSeq(s, 1, MaxServers)

\* A frame f in the next iteration of the loop; that gave up its cached start;
\* that calls for an alias; in phase p of the lookups; past its first
\* nameserver; with n more addresses; after the response r; with r's
\* delegation taken.
Iterated(f) == [f EXCEPT !.step = @ + 1, !.at = "ask"]
Restarted(f) == [f EXCEPT !.using_cached = FALSE, !.last_zone = NoZone, !.bailiwick = <<>>]
Redirected(f) == [f EXCEPT !.at = "alias", !.using_cached = FALSE]
InPhase(f, p) == [f EXCEPT !.at = p]
Skipped(f) == [f EXCEPT !.todo = Tail(@)]
Supplied(f, n) == [f EXCEPT !.found = @ + n]
Referred(f, r) ==
  [f EXCEPT !.using_cached = FALSE, !.zone = r.zone, !.found = r.glue,
            !.ttl = delegation_ttl(r), !.todo = Take(r.servers)]
Delegated(f) ==
  [f EXCEPT !.last_zone = f.zone, !.bailiwick = f.zone,
            !.todo = <<>>, !.found = 0, !.zone = <<>>, !.ttl = 0]

\* The end of an iteration of the loop, as f.
EndStep(t, f) ==
  IF f.step + 1 = MaxSteps
  THEN Return(t, "StepLimitExceeded")
  ELSE /\ SetTop(t, Iterated(f))
       /\ returned' = [returned EXCEPT ![t] = NoOutcome]
       /\ UNCHANGED depth

(***************************************************************************)
(* resolve_internal                                                        *)
(***************************************************************************)
\* resolve: a fresh set of visited keys, and the call at depth 0.
Resolve(t, q) ==
  /\ depth[t] = -1 /\ returned[t] = NoOutcome
  /\ calls' = [calls EXCEPT ![t] = 1]
  /\ frames' = [frames EXCEPT ![t][0] = NewFrame(q[1], q[2])]
  /\ depth' = [depth EXCEPT ![t] = 0]
  /\ UNCHANGED <<now, delegation_cache, visited, returned>>

\* No server gave a usable answer.  A cached start is given up for the root.
NoAnswer(t) ==
  /\ Waiting(t, "ask")
  /\ LET f == Top(t) IN
     \/ /\ f.using_cached
        /\ delegation_cache' = purge_delegation(f.name, f.rtype)
        /\ EndStep(t, Restarted(f))
     \/ /\ ~f.using_cached
        /\ Return(t, "AllNameserversFailed")
        /\ UNCHANGED delegation_cache
  /\ UNCHANGED <<now, visited, calls>>

\* Variant of Follow: an alias may be followed again.
FollowAgain(t, kind, target) ==
  /\ visited' = [visited EXCEPT ![t] = @ \cup {<<kind, target>>}]
  /\ Call(t, Redirected(Top(t)), target, Top(t).rtype)

\* The alias is followed once per resolution, through a call of its own.
Follow(t, kind, target) ==
  \/ /\ <<kind, target>> \in visited[t]
     /\ Return(t, "NoProgress")
     /\ UNCHANGED <<visited, calls>>
  \/ /\ <<kind, target>> \notin visited[t]
     /\ visited' = [visited EXCEPT ![t] = @ \cup {<<kind, target>>}]
     /\ Call(t, Redirected(Top(t)), target, Top(t).rtype)

\* An answer section that settles the question, or redirects it.
Answer(t, r) ==
  LET f == Top(t)
      s == dname_substitute(f.name, r.owner, r.target)
  IN
  \/ r.answer = "target" /\ Return(t, "Ok") /\ UNCHANGED <<visited, calls>>
  \/ r.answer = "loop" /\ Return(t, "NoProgress") /\ UNCHANGED <<visited, calls>>
  \/ r.answer = "cname" /\ Follow(t, "cname", r.target)
  \/ /\ r.answer = "dname" /\ s = NoZone  \* YXDOMAIN
     /\ Return(t, "Ok")
     /\ UNCHANGED <<visited, calls>>
  \/ r.answer = "dname" /\ s # NoZone /\ Follow(t, "dname", s)

\* Does the answer section say anything about the question?  A DNAME does if
\* its owner is a proper ancestor.
Answers(r, n) ==
  /\ r.answer # "none"
  /\ r.answer = "dname" => zone_of(r.owner, n) /\ r.owner # n

\* Variant of Progress: a referral may lead to the zone that was asked.
ProgressAgain(f, z) == zone_of(z, f.name) /\ zone_of(f.bailiwick, z)

\* A referral makes progress: towards the name, within the zone that was
\* asked, and not to that zone again.
Progress(f, z) ==
  /\ f.last_zone # z
  /\ zone_of(z, f.name)
  /\ zone_of(f.bailiwick, z)

\* Variant of Delegate: the call starts over, now from the cache.
DelegateAfresh(t, f) ==
  IF f.found = 0
  THEN Return(t, "GlueResolutionFailed") /\ UNCHANGED delegation_cache
  ELSE /\ delegation_cache' = [delegation_cache EXCEPT ![f.zone] =
            [expires_at |-> now + f.ttl, source |-> "Dynamic"]]
       /\ SetTop(t, NewFrame(f.name, f.rtype))
       /\ returned' = [returned EXCEPT ![t] = NoOutcome]
       /\ UNCHANGED depth

\* The referral of f is taken, if its nameservers have an address.
Delegate(t, f) ==
  IF f.found = 0
  THEN Return(t, "GlueResolutionFailed") /\ UNCHANGED delegation_cache
  ELSE /\ delegation_cache' = [delegation_cache EXCEPT ![f.zone] =
            [expires_at |-> now + f.ttl, source |-> "Dynamic"]]
       /\ EndStep(t, Delegated(f))

\* Glue is used as it is; without glue the nameservers have to be looked up.
Referral(t, r) ==
  LET f == Referred(Top(t), r) IN
  \/ ~Progress(f, r.zone) /\ Return(t, "NoProgress") /\ UNCHANGED delegation_cache
  \/ Progress(f, r.zone) /\ r.glue > 0 /\ Delegate(t, f)
  \/ /\ Progress(f, r.zone) /\ r.glue = 0
     /\ SetTop(t, InPhase(f, "ns"))
     /\ UNCHANGED <<delegation_cache, depth, returned>>

\* A response is processed, in the order of the code's checks.
Answered(t, r) ==
  /\ Waiting(t, "ask")
  /\ LET silent == ~Answers(r, Top(t).name) IN
     \/ ~silent /\ Answer(t, r) /\ UNCHANGED delegation_cache
     \/ /\ silent
        /\ \/ /\ r.terminal \/ r.authority = "no_ns"
              /\ Return(t, "Ok")
              /\ UNCHANGED delegation_cache
           \/ /\ ~r.terminal /\ r.authority \in {"empty", "mixed"}
              /\ Return(t, "NoProgress")
              /\ UNCHANGED delegation_cache
           \/ ~r.terminal /\ r.authority = "ns" /\ Referral(t, r)
        /\ UNCHANGED <<visited, calls>>
  /\ UNCHANGED now

\* The next nameserver to look up, unless this resolution already has.
LookUp(t) ==
  /\ Waiting(t, "ns")
  /\ LET f == Top(t)
         n == Head(f.todo)
     IN
     \/ /\ f.todo = <<>>
        /\ Delegate(t, f)
        /\ UNCHANGED <<visited, calls>>
     \/ /\ f.todo # <<>> /\ <<"ns", n>> \in visited[t]
        /\ SetTop(t, Skipped(f))
        /\ UNCHANGED <<delegation_cache, depth, visited, returned, calls>>
     \/ /\ f.todo # <<>> /\ <<"ns", n>> \notin visited[t]
        /\ visited' = [visited EXCEPT ![t] = @ \cup {<<"ns", n>>}]
        /\ Call(t, InPhase(f, "ns_a"), n, "A")
        /\ UNCHANGED delegation_cache
  /\ UNCHANGED now

\* A call has returned to the frame that made it.  An alias passes the result
\* on.  A lookup of A addresses, even a failed one, is followed by one of
\* AAAA, and that by the next nameserver unless the addresses are enough.
Resume(t) ==
  /\ returned[t] # NoOutcome /\ depth[t] >= 0
  /\ LET f == Top(t) IN
     \/ /\ f.at = "alias"
        /\ Return(t, returned[t])
        /\ UNCHANGED <<delegation_cache, calls>>
     \/ \E n \in IF returned[t] = "Ok" THEN Yields ELSE {0} :
          LET g == Supplied(f, n) IN
          \/ /\ f.at = "ns_a"
             /\ Call(t, InPhase(g, "ns_aaaa"), Head(f.todo), "AAAA")
             /\ UNCHANGED delegation_cache
          \/ /\ f.at = "ns_aaaa" /\ g.found >= MaxServers
             /\ Delegate(t, g)
             /\ UNCHANGED calls
          \/ /\ f.at = "ns_aaaa" /\ g.found < MaxServers
             /\ SetTop(t, InPhase(Skipped(g), "ns"))
             /\ returned' = [returned EXCEPT ![t] = NoOutcome]
             /\ UNCHANGED <<delegation_cache, depth, calls>>
  /\ UNCHANGED <<now, visited>>

Tick ==
  /\ now < MaxTime
  /\ now' = now + 1
  /\ UNCHANGED <<delegation_cache, taskVars>>

Step(t) ==
  \/ \E q \in Questions[t] : Resolve(t, q)
  \/ NoAnswer(t) \/ LookUp(t) \/ Resume(t)
  \/ \E r \in Responses[t] : Answered(t, r)

Next ==
  \/ \E t \in Tasks : Step(t)
  \/ Tick

Spec == Init /\ [][Next]_vars

\* A task that can run is polled.  That query_servers_with_fallback returns is
\* not assumed.
FairSpec == Spec /\ \A t \in Tasks : WF_vars(LookUp(t) \/ Resume(t))

(***************************************************************************)
(* Properties                                                              *)
(***************************************************************************)
\* However the servers answer, and whatever other resolutions do to the cache
\* meanwhile, a call asks at most one round of servers per label of its name,
\* one for the root, one that answers and one for a stale cached start: every
\* referral taken leads strictly down, so MAX_STEPS only limits longer names.
StepsBoundedByLabels ==
  \A t \in Tasks, d \in Depths : frames[t][d] # NoFrame =>
    frames[t][d].step <= Len(frames[t][d].name) + 2

Visited(t, kinds) == {k \in visited[t] : k[1] \in kinds}

\* The calls of a resolution, nested or one after the other, are bounded by
\* the distinct names it met, not by the tree of its redirections: each alias
\* is followed once and each nameserver looked up once, for A and AAAA.
WorkBounded ==
  \A t \in Tasks :
    calls[t] <= 1 + Cardinality(Visited(t, {"cname", "dname"}))
                  + 2 * Cardinality(Visited(t, {"ns"}))

\* No round of servers that t waits for lasts for ever: RoundEnds of Upstream,
\* which excepts a TCP retry that is never answered.
RoundsReturn(t) == WF_vars(NoAnswer(t) \/ \E r \in Responses[t] : Answered(t, r))

\* Every resolution whose rounds all return ends, through loops of aliases,
\* nameservers that depend on each other and cached delegations that are
\* purged under it.
ResolutionsEnd ==
  \A t \in Tasks : RoundsReturn(t) => (depth[t] >= 0 ~> depth[t] = -1)
=============================================================================
