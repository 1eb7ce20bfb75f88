--------------------------- MODULE RecursorProofs ---------------------------
(***************************************************************************)
(* Proofs about Recursor.  A step of a resolution replaces the innermost   *)
(* frame, pops it, or pushes one on it; the lemmas of the second part say  *)
(* so once, and each action is one of these.                               *)
(***************************************************************************)
EXTENDS Recursor, FiniteSetTheorems, TLAPS

(***************************************************************************)
(* The invariant                                                           *)
(***************************************************************************)
NsPhases == {"ns", "ns_a", "ns_aaaa"}

\* What a frame knows of its own descent: the zone it asks encloses its name,
\* and the steps taken are bounded by the labels of that zone.
Level(f) ==
  /\ f.last_zone = NoZone => f.bailiwick = <<>> /\ f.step <= 1
  /\ f.last_zone # NoZone => /\ f.bailiwick = f.last_zone
                             /\ zone_of(f.last_zone, f.name)
                             /\ f.step <= Len(f.last_zone) + 2

\* A cached start is used in the first step only, and nameservers are looked
\* up for a referral that makes progress.
Phase(f) ==
  /\ f.using_cached => f.step = 0 /\ f.at = "ask"
  /\ f.at \in NsPhases => Progress(f, f.zone)
  /\ f.at \in {"ns_a", "ns_aaaa"} => f.todo # <<>>

Good(f) == f \in Frame /\ Level(f) /\ Phase(f)

\* The frames in use are those up to the innermost one.
Stack(t) ==
  \A d \in Depths : /\ d <= depth[t] => Good(frames[t][d])
                    /\ d > depth[t] => frames[t][d] = NoFrame

\* The frames that have looked up A addresses and owe a lookup of AAAA.
Owing(t) == {d \in Depths : d <= depth[t] /\ frames[t][d].at = "ns_a"}

Bound(t) == 1 + Cardinality(Visited(t, {"cname", "dname"}))
              + 2 * Cardinality(Visited(t, {"ns"}))

Work(t) == IsFiniteSet(visited[t]) /\ calls[t] + Cardinality(Owing(t)) <= Bound(t)

IInv == TypeOK /\ \A t \in Tasks : Stack(t) /\ Work(t)

(***************************************************************************)
(* Names                                                                   *)
(***************************************************************************)
\* A zone that lies in another one, and is not that one, has more labels.
LEMMA ProperZoneIsLonger ==
  ASSUME NEW z \in Names, NEW n \in Names, zone_of(z, n)
  PROVE  /\ Len(z) \in Nat /\ Len(n) \in Nat
         /\ Len(z) <= Len(n)
         /\ z # n => Len(z) < Len(n)
<1>1. z \in Seq(STRING) /\ n \in Seq(STRING)
  BY NamesAssumption, Zenon
<1>2. Len(z) \in Nat /\ Len(n) \in Nat /\ Len(z) <= Len(n)
  BY <1>1 DEF zone_of
<1>3. ASSUME Len(z) = Len(n) PROVE z = n
  <2>1. SubSeq(n, Len(n) - Len(z) + 1, Len(n)) = z
    BY Zenon DEF zone_of
  <2>2. Len(n) - Len(z) + 1 = 1
    BY <1>2, <1>3
  <2> QED BY <2>1, <2>2, <1>1
<1> QED BY <1>2, <1>3

\* The root is a name of no labels, and not the absence of a zone.
LEMMA RootZoneFacts == <<>> \in Names /\ Len(<<>>) = 0 /\ NoZone \notin Names
BY NamesAssumption, SentinelsAssumption, Zenon

\* The nameservers of a response that are looked up are names.
LEMMA TakeTyped ==
  ASSUME NEW s \in Seq(Names)
  PROVE  Take(s) \in Seq(Names)
<1>1. CASE Len(s) <= MaxServers
  BY <1>1, Zenon DEF Take
<1>2. CASE ~(Len(s) <= MaxServers)
  <2>1. Len(s) \in Nat /\ \A i \in 1..Len(s) : s[i] \in Names
    OBVIOUS
  <2>2. \A i \in 1..MaxServers : s[i] \in Names
    BY <2>1, <1>2, BoundsAssumption
  <2>3. SubSeq(s, 1, MaxServers) \in Seq(Names)
    BY <2>2, BoundsAssumption
  <2> QED BY <2>3, <1>2, Zenon DEF Take
<1> QED BY <1>1, <1>2, Zenon

(***************************************************************************)
(* Frames                                                                  *)
(***************************************************************************)
\* A call starts with a good frame, at the root or at a cached delegation.
LEMMA NewFrameGood ==
  ASSUME NEW n \in Names, NEW rtype \in Types
  PROVE  Good(NewFrame(n, rtype)) /\ NewFrame(n, rtype).at = "ask"
<1>1. find_cached_start(n, rtype) \in BOOLEAN
  BY Zenon DEF find_cached_start
<1>2. <<>> \in Seq(Names) /\ <<>> \in Names
  BY NamesAssumption
<1>3. 0 \in 0..(MaxSteps - 1)
  BY BoundsAssumption
<1>4. NewFrame(n, rtype) \in Frame
  BY <1>1, <1>2, <1>3, Zenon DEF NewFrame, Frame
<1>5. Level(NewFrame(n, rtype)) /\ Phase(NewFrame(n, rtype))
  BY DEF NewFrame, Level, Phase, NsPhases
<1> QED BY <1>4, <1>5, Zenon DEF Good, NewFrame

\* The end of an iteration changes the step and the phase of a frame.
LEMMA IteratedTyped ==
  ASSUME NEW f \in Frame, f.step + 1 # MaxSteps
  PROVE  /\ Iterated(f) \in Frame /\ Iterated(f).at = "ask"
         /\ Iterated(f).step = f.step + 1 /\ Iterated(f).name = f.name
         /\ Iterated(f).last_zone = f.last_zone
         /\ Iterated(f).bailiwick = f.bailiwick
         /\ Iterated(f).using_cached = f.using_cached
<1>1. f.step + 1 \in 0..(MaxSteps - 1)
  BY BoundsAssumption DEF Frame
<1> QED BY <1>1, ZenonT(60) DEF Frame, Iterated

\* A frame whose cached start failed starts over from the root.
LEMMA RestartedGood ==
  ASSUME NEW f, Good(f), f.using_cached
  PROVE  /\ Restarted(f) \in Frame
         /\ Restarted(f).step + 1 # MaxSteps => Good(Iterated(Restarted(f)))
<1> DEFINE g == Restarted(f)
           h == Iterated(g)
<1>1. f \in Frame /\ f.step = 0
  BY Zenon DEF Good, Phase
<1>2. g \in Frame /\ g.step = 0 /\ g.last_zone = NoZone /\ g.bailiwick = <<>>
      /\ g.using_cached = FALSE
  BY <1>1, NamesAssumption, ZenonT(60) DEF Frame, Restarted
<1>3. ASSUME g.step + 1 # MaxSteps PROVE Good(h)
  <2> HIDE DEF g
  <2>1. h \in Frame /\ h.at = "ask" /\ h.step = 1 /\ h.last_zone = NoZone
        /\ h.bailiwick = <<>> /\ h.using_cached = FALSE
    BY <1>2, <1>3, IteratedTyped
  <2> HIDE DEF h
  <2>2. Level(h) /\ Phase(h)
    BY <2>1 DEF Level, Phase, NsPhases
  <2> QED BY <2>1, <2>2, Zenon DEF Good
<1> QED BY <1>2, <1>3, Zenon

\* A frame that takes its referral.
LEMMA DelegatedTyped ==
  ASSUME NEW f \in Frame
  PROVE  /\ Delegated(f) \in Frame
         /\ Delegated(f).step = f.step /\ Delegated(f).name = f.name
         /\ Delegated(f).last_zone = f.zone /\ Delegated(f).bailiwick = f.zone
         /\ Delegated(f).using_cached = f.using_cached
<1>1. <<>> \in Names /\ <<>> \in Seq(Names) /\ 0 \in Nat
  BY NamesAssumption
<1>2. \A z \in Names : LET g == [f EXCEPT !.last_zone = z, !.bailiwick = z, !.todo = <<>>,
                                          !.found = 0, !.zone = <<>>, !.ttl = 0]
                       IN  /\ g \in Frame
                           /\ g.step = f.step /\ g.name = f.name
                           /\ g.last_zone = z /\ g.bailiwick = z
                           /\ g.using_cached = f.using_cached
  <2> TAKE z \in Names
  <2>1. [f EXCEPT !.last_zone = z, !.bailiwick = z, !.todo = <<>>,
                  !.found = 0, !.zone = <<>>, !.ttl = 0] \in Frame
    BY <1>1, ZenonT(60) DEF Frame
  <2> QED BY <2>1, ZenonT(60) DEF Frame
<1>3. f.zone \in Names
  BY Zenon DEF Frame
<1> QED BY <1>2, <1>3, ZenonT(60) DEF Delegated

\* A frame that makes progress to its zone descends to it: one more step, and
\* at least one more label.
LEMMA DelegatedGood ==
  ASSUME NEW f \in Frame, Level(f), Progress(f, f.zone), f.using_cached = FALSE
  PROVE  /\ Delegated(f) \in Frame
         /\ Delegated(f).step + 1 # MaxSteps => Good(Iterated(Delegated(f)))
<1> DEFINE g == Delegated(f)
           h == Iterated(g)
<1>1. f.zone \in Names /\ f.step \in 0..(MaxSteps - 1) /\ f.bailiwick \in Names
      /\ f.name \in Names
  BY Zenon DEF Frame
<1>2. f.last_zone # f.zone /\ zone_of(f.zone, f.name) /\ zone_of(f.bailiwick, f.zone)
  BY Zenon DEF Progress
<1>3. Len(f.zone) \in Nat
  BY <1>1, <1>2, ProperZoneIsLonger, Zenon
<1>4. f.step + 1 <= Len(f.zone) + 2
  <2> USE <1>1
  <2>1. CASE f.last_zone = NoZone
    BY <2>1, <1>3, BoundsAssumption DEF Level
  <2>2. CASE f.last_zone # NoZone
    <3>1. f.bailiwick = f.last_zone /\ f.step <= Len(f.last_zone) + 2
      BY <2>2, Zenon DEF Level
    <3>2. Len(f.bailiwick) \in Nat /\ Len(f.bailiwick) < Len(f.zone)
      BY <3>1, <1>2, ProperZoneIsLonger, Zenon
    <3> QED BY <3>1, <3>2, <1>3, BoundsAssumption
  <2> QED BY <2>1, <2>2, Zenon
<1>5. /\ g \in Frame /\ g.step = f.step /\ g.last_zone = f.zone /\ g.bailiwick = f.zone
      /\ g.using_cached = FALSE /\ g.name = f.name
  BY DelegatedTyped, Zenon
<1>6. ASSUME g.step + 1 # MaxSteps PROVE Good(h)
  <2> HIDE DEF g
  <2>1. /\ h \in Frame /\ h.at = "ask" /\ h.step = f.step + 1 /\ h.last_zone = f.zone
        /\ h.bailiwick = f.zone /\ h.using_cached = FALSE /\ h.name = f.name
    BY <1>5, <1>6, IteratedTyped, Zenon
  <2> HIDE DEF h
  <2>2. Level(h) /\ Phase(h)
    <3>1. f.zone # NoZone
      BY <1>1, SentinelsAssumption, Zenon
    <3> QED BY <2>1, <3>1, <1>2, <1>4, Zenon DEF Level, Phase, NsPhases
  <2> QED BY <2>1, <2>2, Zenon DEF Good
<1> QED BY <1>5, <1>6, Zenon

\* A frame that waits for the target of an alias.
LEMMA RedirectedGood ==
  ASSUME NEW f, Good(f)
  PROVE  Good(Redirected(f)) /\ Redirected(f).at = "alias"
<1> DEFINE g == Redirected(f)
<1>1. f \in Frame /\ Level(f)
  BY Zenon DEF Good
<1>2. g \in Frame /\ g.at = "alias" /\ g.using_cached = FALSE
      /\ g.last_zone = f.last_zone /\ g.bailiwick = f.bailiwick
      /\ g.step = f.step /\ g.name = f.name
  BY <1>1, ZenonT(60) DEF Frame, Redirected
<1> HIDE DEF g
<1>3. Level(g) /\ Phase(g)
  BY <1>1, <1>2, Zenon DEF Level, Phase, NsPhases
<1> QED BY <1>2, <1>3, Zenon DEF Good, g

\* What a frame that looks up nameservers may change: the phase, the
\* nameservers left and the addresses found.
LEMMA LookingUpGood ==
  ASSUME NEW f, Good(f), f.at \in NsPhases,
         NEW g \in Frame, g.at \in NsPhases,
         g.at # "ns" => g.todo # <<>>,
         g.name = f.name, g.step = f.step, g.using_cached = f.using_cached,
         g.last_zone = f.last_zone, g.bailiwick = f.bailiwick, g.zone = f.zone
  PROVE  Good(g)
<1>1. Level(f) /\ Progress(f, f.zone) /\ ~f.using_cached
  BY Zenon DEF Good, Phase, NsPhases
<1> USE <1>1
<1>2. Level(g)
  BY Zenon DEF Level
<1>3. Progress(g, g.zone)
  BY Zenon DEF Progress
<1>4. Phase(g)
  BY <1>3, Zenon DEF Phase, NsPhases
<1> QED BY <1>2, <1>4, Zenon DEF Good

\* The helpers on frames that look up nameservers.
LEMMA LookingUpTyped ==
  ASSUME NEW f \in Frame, NEW p \in NsPhases, NEW n \in Nat
  PROVE  /\ InPhase(f, p) \in Frame /\ InPhase(f, p).at = p
         /\ InPhase(f, p).todo = f.todo
         /\ InPhase(f, p).name = f.name /\ InPhase(f, p).step = f.step
         /\ InPhase(f, p).using_cached = f.using_cached
         /\ InPhase(f, p).last_zone = f.last_zone
         /\ InPhase(f, p).bailiwick = f.bailiwick /\ InPhase(f, p).zone = f.zone
         /\ Supplied(f, n) \in Frame /\ Supplied(f, n).at = f.at
         /\ Supplied(f, n).todo = f.todo
         /\ Supplied(f, n).name = f.name /\ Supplied(f, n).step = f.step
         /\ Supplied(f, n).using_cached = f.using_cached
         /\ Supplied(f, n).last_zone = f.last_zone
         /\ Supplied(f, n).bailiwick = f.bailiwick /\ Supplied(f, n).zone = f.zone
         /\ f.todo # <<>> =>
              /\ Head(f.todo) \in Names
              /\ Skipped(f) \in Frame /\ Skipped(f).at = f.at
              /\ Skipped(f).name = f.name /\ Skipped(f).step = f.step
              /\ Skipped(f).using_cached = f.using_cached
              /\ Skipped(f).last_zone = f.last_zone
              /\ Skipped(f).bailiwick = f.bailiwick /\ Skipped(f).zone = f.zone
<1>1. InPhase(f, p) \in Frame
  BY Zenon DEF InPhase, Frame, NsPhases
<1>2. Supplied(f, n) \in Frame
  BY DEF Supplied, Frame
<1>3. f.todo # <<>> => Head(f.todo) \in Names /\ Tail(f.todo) \in Seq(Names)
  BY DEF Frame
<1>4. f.todo # <<>> => Skipped(f) \in Frame
  BY <1>3, ZenonT(60) DEF Skipped, Frame
<1>5. /\ InPhase(f, p).at = p /\ InPhase(f, p).todo = f.todo
      /\ InPhase(f, p).name = f.name /\ InPhase(f, p).step = f.step
      /\ InPhase(f, p).using_cached = f.using_cached
      /\ InPhase(f, p).last_zone = f.last_zone
      /\ InPhase(f, p).bailiwick = f.bailiwick /\ InPhase(f, p).zone = f.zone
  BY Zenon DEF InPhase, Frame
<1>6. /\ Supplied(f, n).at = f.at /\ Supplied(f, n).todo = f.todo
      /\ Supplied(f, n).name = f.name /\ Supplied(f, n).step = f.step
      /\ Supplied(f, n).using_cached = f.using_cached
      /\ Supplied(f, n).last_zone = f.last_zone
      /\ Supplied(f, n).bailiwick = f.bailiwick /\ Supplied(f, n).zone = f.zone
  BY Zenon DEF Supplied, Frame
<1>7. /\ Skipped(f).at = f.at
      /\ Skipped(f).name = f.name /\ Skipped(f).step = f.step
      /\ Skipped(f).using_cached = f.using_cached
      /\ Skipped(f).last_zone = f.last_zone
      /\ Skipped(f).bailiwick = f.bailiwick /\ Skipped(f).zone = f.zone
  BY Zenon DEF Skipped, Frame
<1> QED BY <1>1, <1>2, <1>3, <1>4, <1>5, <1>6, <1>7, Zenon

\* A referral is noted in the frame; nothing of its descent changes.
LEMMA ReferredTyped ==
  ASSUME NEW f, Good(f), NEW r \in Response
  PROVE  /\ Referred(f, r) \in Frame /\ Level(Referred(f, r))
         /\ Referred(f, r).using_cached = FALSE /\ Referred(f, r).at = f.at
         /\ Referred(f, r).zone = r.zone
<1> DEFINE g == Referred(f, r)
           E(z, n, m, s) == [f EXCEPT !.using_cached = FALSE, !.zone = z, !.found = n,
                                      !.ttl = m, !.todo = s]
<1>1. f \in Frame /\ Level(f)
  BY Zenon DEF Good
<1>2. r.zone \in Names /\ r.glue \in Nat /\ r.ttl \in Nat /\ r.servers \in Seq(Names)
  BY Zenon DEF Response
<1>3. delegation_ttl(r) \in Nat
  BY <1>2, BoundsAssumption, Zenon DEF delegation_ttl
<1>4. Take(r.servers) \in Seq(Names)
  BY <1>2, TakeTyped, Zenon
<1> USE <1>1
<1>5. \A z \in Names, n \in Nat, m \in Nat, s \in Seq(Names) :
        /\ E(z, n, m, s) \in Frame /\ E(z, n, m, s).using_cached = FALSE
        /\ E(z, n, m, s).zone = z /\ E(z, n, m, s).at = f.at
        /\ E(z, n, m, s).name = f.name /\ E(z, n, m, s).step = f.step
        /\ E(z, n, m, s).last_zone = f.last_zone
        /\ E(z, n, m, s).bailiwick = f.bailiwick
  <2> TAKE z \in Names, n \in Nat, m \in Nat, s \in Seq(Names)
  <2>1. E(z, n, m, s) \in Frame
    BY ZenonT(60) DEF Frame
  <2> QED BY <2>1, ZenonT(60) DEF Frame
<1>6. g = E(r.zone, r.glue, delegation_ttl(r), Take(r.servers))
  BY Zenon DEF Referred
<1> HIDE DEF E, g
<1>7. /\ g \in Frame /\ g.using_cached = FALSE /\ g.zone = r.zone /\ g.at = f.at
      /\ g.name = f.name /\ g.step = f.step
      /\ g.last_zone = f.last_zone /\ g.bailiwick = f.bailiwick
  BY <1>2, <1>3, <1>4, <1>5, <1>6, SMTT(60), Zenon
<1>8. Level(g)
  BY <1>7, Zenon DEF Level
<1> QED BY <1>7, <1>8, Zenon DEF g

(***************************************************************************)
(* Steps on the stack of frames                                            *)
(***************************************************************************)
FramesType == [Tasks -> [Depths -> Frame \cup {NoFrame}]]

\* A step of t leaves the stacks of the others alone, its own well formed,
\* and the lookups it owes those of P.
Moved(t, P) ==
  /\ frames' \in FramesType
  /\ depth' \in [Tasks -> -1..MaxDepth]
  /\ returned' \in [Tasks -> Outcomes \cup {NoOutcome}]
  /\ \A u \in Tasks : u # t => frames'[u] = frames[u] /\ depth'[u] = depth[u]
  /\ Stack(t)'
  /\ Owing(t)' = P

\* The innermost call of a running resolution has a good frame.
LEMMA TopGood ==
  ASSUME TypeOK, NEW t \in Tasks, Stack(t), depth[t] >= 0
  PROVE  Good(Top(t)) /\ depth[t] \in Depths
<1>1. depth[t] \in Depths
  BY BoundsAssumption DEF TypeOK, Depths
<1> QED BY <1>1, BoundsAssumption DEF Stack, Top, Depths

\* A return pops a frame.
LEMMA ReturnMoves ==
  ASSUME TypeOK, NEW t \in Tasks, Stack(t), depth[t] >= 0,
         NEW out \in Outcomes, Return(t, out)
  PROVE  Moved(t, Owing(t) \ {depth[t]})
<1>1. depth[t] \in Depths
  BY TopGood, Zenon
<1> USE <1>1
<1>2. /\ depth' \in [Tasks -> -1..MaxDepth]
      /\ depth'[t] = depth[t] - 1
      /\ \A u \in Tasks : u # t => depth'[u] = depth[u]
  BY BoundsAssumption DEF TypeOK, Return, Depths
<1>3. returned' \in [Tasks -> Outcomes \cup {NoOutcome}]
  BY Zenon DEF TypeOK, Return
<1>4. /\ frames' \in FramesType
      /\ frames'[t][depth[t]] = NoFrame
      /\ \A d \in Depths : d # depth[t] => frames'[t][d] = frames[t][d]
      /\ \A u \in Tasks : u # t => frames'[u] = frames[u]
  BY Zenon DEF TypeOK, Return, FramesType
<1> USE <1>2, <1>4
<1>5. Stack(t)'
  <2> SUFFICES ASSUME NEW d \in Depths
               PROVE  /\ d <= depth'[t] => Good(frames'[t][d])
                      /\ d > depth'[t] => frames'[t][d] = NoFrame
    BY Zenon DEF Stack, Good, Level, Phase, Progress
  <2>1. CASE d = depth[t]
    BY <2>1, BoundsAssumption DEF Depths
  <2>2. CASE d # depth[t]
    BY <2>2, BoundsAssumption, SMTT(60), Zenon DEF Depths, Stack
  <2> QED BY <2>1, <2>2, ZenonT(60)
<1>6. Owing(t)' = Owing(t) \ {depth[t]}
  <2>1. \A d \in Depths : d <= depth'[t] <=> d <= depth[t] /\ d # depth[t]
    BY BoundsAssumption, SMTT(60), Zenon DEF Depths
  <2> QED BY <2>1, Zenon DEF Owing
<1> QED BY <1>3, <1>5, <1>6, Zenon DEF Moved

\* A frame is replaced.
LEMMA SetTopMoves ==
  ASSUME TypeOK, NEW t \in Tasks, Stack(t), depth[t] >= 0,
         NEW f, Good(f), SetTop(t, f), depth' = depth,
         returned' \in [Tasks -> Outcomes \cup {NoOutcome}]
  PROVE  /\ f.at # "ns_a" => Moved(t, Owing(t) \ {depth[t]})
         /\ f.at = "ns_a" => Moved(t, Owing(t) \cup {depth[t]})
<1>1. depth[t] \in Depths
  BY TopGood, Zenon
<1>2. depth' \in [Tasks -> -1..MaxDepth]
  BY Zenon DEF TypeOK
<1> USE <1>1
<1>3. /\ frames' \in FramesType
      /\ frames'[t][depth[t]] = f
      /\ \A d \in Depths : d # depth[t] => frames'[t][d] = frames[t][d]
      /\ \A u \in Tasks : u # t => frames'[u] = frames[u]
  BY Zenon DEF TypeOK, SetTop, FramesType, Good
<1> USE <1>3
<1>4. Stack(t)'
  <2> SUFFICES ASSUME NEW d \in Depths
               PROVE  /\ d <= depth[t] => Good(frames'[t][d])
                      /\ d > depth[t] => frames'[t][d] = NoFrame
    BY Zenon DEF Stack, Good, Level, Phase, Progress
  <2>1. CASE d = depth[t]
    BY <2>1, BoundsAssumption, SMTT(60), Zenon DEF Depths
  <2>2. CASE d # depth[t]
    BY <2>2, Zenon DEF Stack
  <2> QED BY <2>1, <2>2, ZenonT(60)
<1>5. depth[t] <= depth[t]
  BY BoundsAssumption DEF Depths
<1>6. f.at # "ns_a" => Owing(t)' = Owing(t) \ {depth[t]}
  BY <1>5, Zenon DEF Owing
<1>7. f.at = "ns_a" => Owing(t)' = Owing(t) \cup {depth[t]}
  BY <1>5, Zenon DEF Owing
<1> QED BY <1>2, <1>4, <1>6, <1>7, SMTT(60), Zenon DEF Moved

\* A call pushes a frame, or fails at once for its depth.
LEMMA CallMoves ==
  ASSUME TypeOK, NEW t \in Tasks, Stack(t), depth[t] >= 0,
         NEW f, Good(f), NEW n \in Names, NEW rtype \in Types, Call(t, f, n, rtype)
  PROVE  /\ f.at # "ns_a" => Moved(t, Owing(t) \ {depth[t]})
         /\ f.at = "ns_a" => Moved(t, Owing(t) \cup {depth[t]})
<1>1. depth[t] \in Depths
  BY TopGood, Zenon
<1>2. CASE depth[t] + 1 > MaxDepth
  <2>1. SetTop(t, f) /\ depth' = depth
        /\ returned' = [returned EXCEPT ![t] = "DepthExceeded"]
    BY <1>2, Zenon DEF Call
  <2>2. returned' \in [Tasks -> Outcomes \cup {NoOutcome}]
    BY <2>1, SMTT(60), Zenon DEF TypeOK, Outcomes, Errors
  <2> QED BY <2>1, <2>2, SetTopMoves, Zenon
<1> USE <1>1
<1>3. CASE ~(depth[t] + 1 > MaxDepth)
  <2> DEFINE new == NewFrame(n, rtype)
             stack == [e \in Depths |-> IF e = depth[t] + 1 THEN new
                                        ELSE IF e = depth[t] THEN f ELSE frames[t][e]]
  <2>1. /\ returned' = [returned EXCEPT ![t] = NoOutcome]
        /\ frames' = [frames EXCEPT ![t] = stack]
        /\ depth' = [depth EXCEPT ![t] = depth[t] + 1]
    BY <1>3, Zenon DEF Call
  <2>2. Good(new) /\ new.at = "ask"
    BY NewFrameGood, Zenon
  <2> HIDE DEF new
  <2>3. returned' \in [Tasks -> Outcomes \cup {NoOutcome}]
    BY <2>1, Zenon DEF TypeOK
  <2>4. /\ depth' \in [Tasks -> -1..MaxDepth]
        /\ depth'[t] = depth[t] + 1
        /\ \A u \in Tasks : u # t => depth'[u] = depth[u]
    BY <2>1, <1>3, BoundsAssumption DEF TypeOK, Depths
  <2>5. stack \in [Depths -> Frame \cup {NoFrame}]
    BY <2>2, Zenon DEF TypeOK, Good
  <2>6. depth[t] + 1 \in Depths /\ depth[t] + 1 # depth[t]
    BY <1>3, BoundsAssumption DEF Depths
  <2>7. /\ stack[depth[t]] = f
        /\ stack[depth[t] + 1] = new
        /\ \A d \in Depths : d # depth[t] /\ d # depth[t] + 1 => stack[d] = frames[t][d]
    BY <2>6, Zenon
  <2> HIDE DEF stack
  <2>8. /\ frames' \in FramesType
        /\ frames'[t] = stack
        /\ \A u \in Tasks : u # t => frames'[u] = frames[u]
    BY <2>1, <2>5, Zenon DEF TypeOK, FramesType
  <2>9. Stack(t)'
    <3> SUFFICES ASSUME NEW d \in Depths
                 PROVE  /\ d <= depth[t] + 1 => Good(stack[d])
                        /\ d > depth[t] + 1 => stack[d] = NoFrame
      BY <2>4, <2>8, ZenonT(60) DEF Stack, Good, Level, Phase, Progress
    <3> USE BoundsAssumption, <2>7
    <3>1. CASE d = depth[t]
      BY <3>1, SMTT(60), Zenon DEF Depths
    <3>2. CASE d = depth[t] + 1
      BY <3>2, <2>2, SMTT(60), Zenon DEF Depths
    <3>3. CASE d # depth[t] /\ d # depth[t] + 1
      <4>1. d <= depth[t] + 1 => d <= depth[t]
        BY <3>3 DEF Depths
      <4>2. d > depth[t] + 1 => d > depth[t]
        BY DEF Depths
      <4> QED BY <3>3, <4>1, <4>2, Zenon DEF Stack
    <3> QED BY <3>1, <3>2, <3>3, Zenon
  <2>10. Owing(t)' = {d \in Depths : d <= depth[t] + 1 /\ stack[d].at = "ns_a"}
    BY <2>4, <2>8, Zenon DEF Owing
  <2>11. \A d \in Depths : (d <= depth[t] + 1 <=> d <= depth[t] \/ d = depth[t] + 1)
    BY BoundsAssumption DEF Depths
  <2>12. depth[t] <= depth[t] /\ ~(depth[t] + 1 <= depth[t])
    BY BoundsAssumption, SMTT(60), Zenon DEF Depths
  <2>13. f.at # "ns_a" => Owing(t)' = Owing(t) \ {depth[t]}
    BY <2>10, <2>11, <2>12, <2>7, <2>2, ZenonT(60) DEF Owing
  <2>14. f.at = "ns_a" => Owing(t)' = Owing(t) \cup {depth[t]}
    BY <2>10, <2>11, <2>12, <2>7, <2>2, SMTT(60), Zenon DEF Owing
  <2> QED BY <2>3, <2>4, <2>8, <2>9, <2>13, <2>14, SMTT(60), Zenon DEF Moved
<1> QED BY <1>2, <1>3, Zenon

\* The end of an iteration replaces the frame, or pops it at the limit.
LEMMA EndStepMoves ==
  ASSUME TypeOK, NEW t \in Tasks, Stack(t), depth[t] >= 0,
         NEW f \in Frame, f.step + 1 # MaxSteps => Good(Iterated(f)), EndStep(t, f)
  PROVE  Moved(t, Owing(t) \ {depth[t]})
<1>1. CASE f.step + 1 = MaxSteps
  <2>1. Return(t, "StepLimitExceeded")
    BY <1>1, Zenon DEF EndStep
  <2>2. "StepLimitExceeded" \in Outcomes
    BY Zenon DEF Outcomes, Errors
  <2> QED BY <2>1, <2>2, ReturnMoves, Zenon
<1>2. CASE f.step + 1 # MaxSteps
  <2>1. SetTop(t, Iterated(f)) /\ depth' = depth
        /\ returned' = [returned EXCEPT ![t] = NoOutcome]
    BY <1>2, Zenon DEF EndStep
  <2>2. returned' \in [Tasks -> Outcomes \cup {NoOutcome}]
    BY <2>1, Zenon DEF TypeOK
  <2>3. Good(Iterated(f)) /\ Iterated(f).at # "ns_a"
    BY <1>2, IteratedTyped, Zenon
  <2> QED BY <2>1, <2>2, <2>3, SetTopMoves, ZenonT(60)
<1> QED BY <1>1, <1>2, Zenon
(***************************************************************************)
(* The work of a resolution                                                *)
(***************************************************************************)
\* The sets that are counted are finite.
LEMMA Counts ==
  ASSUME NEW t \in Tasks, IsFiniteSet(visited[t])
  PROVE  /\ IsFiniteSet(Owing(t)) /\ Cardinality(Owing(t)) \in Nat
         /\ \A kinds : /\ IsFiniteSet(Visited(t, kinds))
                       /\ Cardinality(Visited(t, kinds)) \in Nat
<1>1. IsFiniteSet(Depths)
  <2>1. 0 \in Int /\ MaxDepth \in Int
    BY BoundsAssumption, SMTT(60), Zenon
  <2> QED BY <2>1, FS_Interval, ZenonT(60) DEF Depths
<1>2. Owing(t) \in SUBSET Depths
  BY Zenon DEF Owing
<1>3. IsFiniteSet(Owing(t))
  BY <1>1, <1>2, FS_Subset, Zenon
<1>4. ASSUME NEW kinds
      PROVE  IsFiniteSet(Visited(t, kinds)) /\ Cardinality(Visited(t, kinds)) \in Nat
  <2>1. Visited(t, kinds) \in SUBSET visited[t]
    BY Zenon DEF Visited
  <2>2. IsFiniteSet(Visited(t, kinds))
    BY <2>1, FS_Subset, Zenon
  <2> QED BY <2>2, FS_CardinalityType, Zenon
<1> QED BY <1>3, <1>4, FS_CardinalityType, Zenon

\* Without a call, the lookups owed can only become fewer.
LEMMA NoCall ==
  ASSUME NEW t \in Tasks, Work(t), calls[t] \in Nat,
         visited'[t] = visited[t], calls'[t] = calls[t],
         NEW P \in SUBSET Owing(t), Owing(t)' = P
  PROVE  Work(t)'
<1>1. IsFiniteSet(visited[t]) /\ calls[t] + Cardinality(Owing(t)) <= Bound(t)
  BY Zenon DEF Work
<1> USE <1>1
<1>2. Cardinality(P) \in Nat /\ Cardinality(P) <= Cardinality(Owing(t))
  BY Counts, FS_Subset, FS_CardinalityType, Zenon
<1>3. Bound(t)' = Bound(t)
  BY Zenon DEF Bound, Visited
<1>4. Bound(t) \in Nat
  BY Counts, SMTT(60), Zenon DEF Bound
<1>5. calls[t] + Cardinality(P) <= Bound(t)
  BY <1>2, <1>4, Counts, SMTT(60), Zenon
<1> QED BY <1>3, <1>5, Zenon DEF Work

\* A key that is met for the first time adds one alias or one nameserver.
LEMMA KeyAdded ==
  ASSUME NEW t \in Tasks, IsFiniteSet(visited[t]),
         NEW kind \in {"cname", "dname", "ns"}, NEW n, <<kind, n>> \notin visited[t],
         visited'[t] = visited[t] \cup {<<kind, n>>}
  PROVE  /\ IsFiniteSet(visited'[t])
         /\ kind # "ns" => Bound(t)' = Bound(t) + 1
         /\ kind = "ns" => Bound(t)' = Bound(t) + 2
         /\ Bound(t) \in Nat
<1> DEFINE k == <<kind, n>>
           A == Visited(t, {"cname", "dname"})
           N == Visited(t, {"ns"})
<1>1. IsFiniteSet(visited'[t])
  BY FS_AddElement, Zenon
<1>2. /\ IsFiniteSet(A) /\ Cardinality(A) \in Nat
      /\ IsFiniteSet(N) /\ Cardinality(N) \in Nat
  BY Counts, Zenon
<1>3. k[1] = kind /\ k \notin A /\ k \notin N
  BY Zenon DEF Visited
<1>4. Bound(t) = 1 + Cardinality(A) + 2 * Cardinality(N)
  BY Zenon DEF Bound
<1>5. Bound(t) \in Nat
  <2> HIDE DEF A, N
  <2> QED BY <1>2, <1>4
<1> USE <1>3
<1>6. CASE kind # "ns"
  <2> USE <1>6
  <2>1. Visited(t, {"cname", "dname"})' = A \cup {k}
    BY Zenon DEF Visited
  <2>2. Visited(t, {"ns"})' = N
    BY Zenon DEF Visited
  <2>3. Cardinality(A \cup {k}) = Cardinality(A) + 1
    BY <1>2, FS_AddElement, ZenonT(60)
  <2>4. Bound(t)' = 1 + (Cardinality(A) + 1) + 2 * Cardinality(N)
    BY <2>1, <2>2, <2>3, ZenonT(60) DEF Bound
  <2> HIDE DEF A, N
  <2> QED BY <1>1, <1>2, <1>4, <1>5, <2>4
<1>7. CASE kind = "ns"
  <2> USE <1>7
  <2>1. Visited(t, {"ns"})' = N \cup {k}
    BY Zenon DEF Visited
  <2>2. Visited(t, {"cname", "dname"})' = A
    BY Zenon DEF Visited
  <2>3. Cardinality(N \cup {k}) = Cardinality(N) + 1
    BY <1>2, FS_AddElement, ZenonT(60)
  <2>4. Bound(t)' = 1 + Cardinality(A) + 2 * (Cardinality(N) + 1)
    BY <2>1, <2>2, <2>3, ZenonT(60) DEF Bound
  <2> HIDE DEF A, N
  <2> QED BY <1>1, <1>2, <1>4, <1>5, <2>4, SMTT(60), Zenon
<1> QED BY <1>6, <1>7, Zenon

\* The call for an alias is paid for by its key.
LEMMA AliasCall ==
  ASSUME NEW t \in Tasks, Work(t), calls[t] \in Nat,
         NEW kind \in {"cname", "dname"}, NEW n, <<kind, n>> \notin visited[t],
         visited'[t] = visited[t] \cup {<<kind, n>>}, calls'[t] = calls[t] + 1,
         Owing(t)' = Owing(t) \ {depth[t]}
  PROVE  Work(t)'
<1>1. IsFiniteSet(visited[t]) /\ calls[t] + Cardinality(Owing(t)) <= Bound(t)
  BY Zenon DEF Work
<1>2. IsFiniteSet(visited'[t]) /\ Bound(t)' = Bound(t) + 1 /\ Bound(t) \in Nat
  <2>1. kind \in {"cname", "dname", "ns"} /\ kind # "ns"
    BY Zenon
  <2> QED BY <1>1, <2>1, KeyAdded, ZenonT(60)
<1>3. /\ Cardinality(Owing(t)) \in Nat
      /\ Cardinality(Owing(t) \ {depth[t]}) \in Nat
      /\ Cardinality(Owing(t) \ {depth[t]}) <= Cardinality(Owing(t))
  <2>1. IsFiniteSet(Owing(t)) /\ Cardinality(Owing(t)) \in Nat
    BY <1>1, Counts, Zenon
  <2>2. Owing(t) \ {depth[t]} \in SUBSET Owing(t)
    BY Zenon
  <2> QED BY <2>1, <2>2, FS_Subset, FS_CardinalityType, Zenon
<1>4. calls[t] + 1 + Cardinality(Owing(t) \ {depth[t]}) <= Bound(t) + 1
  BY <1>1, <1>2, <1>3, SMTT(60), Zenon
<1> QED BY <1>2, <1>4, Zenon DEF Work

\* The key of a nameserver pays for its two lookups, the second still owed.
LEMMA AddressCall ==
  ASSUME NEW t \in Tasks, Work(t), calls[t] \in Nat,
         NEW n, <<"ns", n>> \notin visited[t],
         visited'[t] = visited[t] \cup {<<"ns", n>>}, calls'[t] = calls[t] + 1,
         Owing(t)' = Owing(t) \cup {depth[t]}
  PROVE  Work(t)'
<1>1. IsFiniteSet(visited[t]) /\ calls[t] + Cardinality(Owing(t)) <= Bound(t)
  BY Zenon DEF Work
<1>2. IsFiniteSet(visited'[t]) /\ Bound(t)' = Bound(t) + 2 /\ Bound(t) \in Nat
  <2>1. "ns" \in {"cname", "dname", "ns"}
    BY Zenon
  <2> QED BY <1>1, <2>1, KeyAdded, ZenonT(60)
<1>3. /\ Cardinality(Owing(t)) \in Nat
      /\ Cardinality(Owing(t) \cup {depth[t]}) \in Nat
      /\ Cardinality(Owing(t) \cup {depth[t]}) <= Cardinality(Owing(t)) + 1
  <2>1. IsFiniteSet(Owing(t)) /\ Cardinality(Owing(t)) \in Nat
    BY <1>1, Counts, Zenon
  <2>2. Cardinality(Owing(t) \cup {depth[t]}) =
          IF depth[t] \in Owing(t) THEN Cardinality(Owing(t)) ELSE Cardinality(Owing(t)) + 1
    BY <2>1, FS_AddElement, ZenonT(60)
  <2> QED BY <2>1, <2>2, SMTT(60), Zenon
<1>4. calls[t] + 1 + Cardinality(Owing(t) \cup {depth[t]}) <= Bound(t) + 2
  BY <1>1, <1>2, <1>3, SMTT(60), Zenon
<1> QED BY <1>2, <1>4, Zenon DEF Work

\* The lookup of AAAA was owed.
LEMMA OwedCall ==
  ASSUME NEW t \in Tasks, Work(t), calls[t] \in Nat, depth[t] \in Owing(t),
         visited'[t] = visited[t], calls'[t] = calls[t] + 1,
         Owing(t)' = Owing(t) \ {depth[t]}
  PROVE  Work(t)'
<1>1. IsFiniteSet(visited[t]) /\ calls[t] + Cardinality(Owing(t)) <= Bound(t)
  BY Zenon DEF Work
<1> USE <1>1
<1>2. Bound(t)' = Bound(t) /\ Bound(t) \in Nat
  <2>1. Bound(t)' = Bound(t)
    BY Zenon DEF Bound, Visited
  <2> QED BY <2>1, Counts, SMTT(60), Zenon DEF Bound
<1>3. /\ Cardinality(Owing(t)) \in Nat
      /\ Cardinality(Owing(t) \ {depth[t]}) = Cardinality(Owing(t)) - 1
  BY Counts, FS_RemoveElement, ZenonT(60)
<1>4. calls[t] + 1 + Cardinality(Owing(t) \ {depth[t]}) <= Bound(t)
  BY <1>2, <1>3, SMTT(60), Zenon
<1> QED BY <1>2, <1>4, Zenon DEF Work

\* A call is counted, for its own resolution alone.
LEMMA CallCounts ==
  ASSUME TypeOK, NEW t \in Tasks, NEW f, NEW n, NEW rtype, Call(t, f, n, rtype)
  PROVE  /\ calls' \in [Tasks -> Nat] /\ calls'[t] = calls[t] + 1 /\ calls[t] \in Nat
         /\ \A u \in Tasks : u # t => calls'[u] = calls[u]
<1>1. calls \in [Tasks -> Nat]
  BY ZenonT(60) DEF TypeOK
<1>2. calls' = [calls EXCEPT ![t] = @ + 1]
  BY ZenonT(60) DEF Call
<1> QED BY <1>1, <1>2, SMTT(60), Zenon

(***************************************************************************)
(* The actions                                                             *)
(***************************************************************************)
\* A step of t that moves its stack and pays for its calls keeps the invariant.
LEMMA MoveKeeps ==
  ASSUME IInv, NEW t \in Tasks, NEW P, Moved(t, P), Work(t)',
         now' = now,
         delegation_cache' \in [Names -> DelegationEntry \cup {NoEntry}],
         visited' \in [Tasks -> SUBSET Keys], calls' \in [Tasks -> Nat],
         \A u \in Tasks : u # t => visited'[u] = visited[u] /\ calls'[u] = calls[u]
  PROVE  IInv'
<1>1. TypeOK'
  BY Zenon DEF IInv, TypeOK, Moved, FramesType, Depths
<1>2. ASSUME NEW u \in Tasks PROVE Stack(u)' /\ Work(u)'
  <2>1. CASE u = t
    BY <2>1, Zenon DEF Moved
  <2>2. CASE u # t
    <3>1. frames'[u] = frames[u] /\ depth'[u] = depth[u]
          /\ visited'[u] = visited[u] /\ calls'[u] = calls[u]
      BY <2>2, Zenon DEF Moved
    <3>2. Stack(u) /\ Work(u)
      BY Zenon DEF IInv
    <3>3. Stack(u)'
      BY <3>1, <3>2, ZenonT(60) DEF Stack, Good, Level, Phase, Progress
    <3>4. Work(u)'
      BY <3>1, <3>2, Zenon DEF Work, Owing, Bound, Visited
    <3> QED BY <3>3, <3>4, Zenon
  <2> QED BY <2>1, <2>2, Zenon
<1> QED BY <1>1, <1>2, Zenon DEF IInv

\* The same for a step without a call.
LEMMA QuietMoveKeeps ==
  ASSUME IInv, NEW t \in Tasks, Moved(t, Owing(t) \ {depth[t]}),
         UNCHANGED <<now, visited, calls>>,
         delegation_cache' \in [Names -> DelegationEntry \cup {NoEntry}]
  PROVE  IInv'
<1>1. Work(t) /\ calls[t] \in Nat
  BY Zenon DEF IInv, TypeOK
<1>2. Owing(t)' = Owing(t) \ {depth[t]}
  BY Zenon DEF Moved
<1>3. Work(t)'
  BY <1>1, <1>2, NoCall, Zenon
<1>4. visited' \in [Tasks -> SUBSET Keys] /\ calls' \in [Tasks -> Nat]
  BY Zenon DEF IInv, TypeOK
<1> QED BY <1>3, <1>4, MoveKeeps, Zenon

\* A frame that takes its referral keeps its resolution's stack well formed.
LEMMA DelegateMoves ==
  ASSUME IInv, NEW t \in Tasks, depth[t] >= 0,
         NEW f \in Frame, Level(f), Progress(f, f.zone), f.using_cached = FALSE,
         Delegate(t, f)
  PROVE  /\ Moved(t, Owing(t) \ {depth[t]})
         /\ delegation_cache' \in [Names -> DelegationEntry \cup {NoEntry}]
<1>1. TypeOK /\ Stack(t)
  BY Zenon DEF IInv
<1>2. CASE f.found = 0
  <2>1. Return(t, "GlueResolutionFailed") /\ delegation_cache' = delegation_cache
    BY <1>2, Zenon DEF Delegate
  <2>2. "GlueResolutionFailed" \in Outcomes
    BY Zenon DEF Outcomes, Errors
  <2> QED BY <2>1, <2>2, <1>1, ReturnMoves, Zenon DEF TypeOK
<1>3. CASE f.found # 0
  <2> DEFINE entry == [expires_at |-> now + f.ttl, source |-> "Dynamic"]
  <2>1. /\ delegation_cache' = [delegation_cache EXCEPT ![f.zone] = entry]
        /\ EndStep(t, Delegated(f))
    BY <1>3, Zenon DEF Delegate
  <2> USE <1>1
  <2>2. entry \in DelegationEntry
    <3>1. now \in Nat /\ f.ttl \in Nat
      BY BoundsAssumption, SMTT(60), Zenon DEF TypeOK, Frame
    <3> QED BY <3>1 DEF DelegationEntry
  <2> HIDE DEF entry
  <2>3. delegation_cache' \in [Names -> DelegationEntry \cup {NoEntry}]
    BY <2>1, <2>2, ZenonT(60) DEF TypeOK
  <2>4. /\ Delegated(f) \in Frame
        /\ Delegated(f).step + 1 # MaxSteps => Good(Iterated(Delegated(f)))
    BY DelegatedGood, ZenonT(60)
  <2>5. Moved(t, Owing(t) \ {depth[t]})
    BY <2>1, <2>4, EndStepMoves, ZenonT(60)
  <2> QED BY <2>3, <2>5, Zenon
<1> QED BY <1>2, <1>3, Zenon
\* A task starts: its first call is the one of the bound.
LEMMA ResolveKeeps ==
  ASSUME IInv, NEW t \in Tasks, NEW q \in Questions[t], Resolve(t, q)
  PROVE  IInv'
<1>1. TypeOK /\ Stack(t) /\ Work(t) /\ depth[t] = -1
  BY Zenon DEF IInv, Resolve
<1>2. q[1] \in Names /\ q[2] \in Types
  BY QuestionsAssumption, Zenon
<1> DEFINE new == NewFrame(q[1], q[2])
<1>3. Good(new) /\ new.at = "ask"
  BY <1>2, NewFrameGood, Zenon
<1> HIDE DEF new
<1>4. 0 \in Depths
  BY BoundsAssumption, SMTT(60), Zenon DEF Depths
<1>5. /\ depth' \in [Tasks -> -1..MaxDepth] /\ depth'[t] = 0
      /\ \A u \in Tasks : u # t => depth'[u] = depth[u]
  BY <1>1, BoundsAssumption, SMTT(60), Zenon DEF Resolve, TypeOK
<1>6. frames' = [frames EXCEPT ![t][0] = new]
  BY ZenonT(60) DEF Resolve, new
<1>7. /\ frames' \in FramesType
      /\ frames'[t][0] = new
      /\ \A d \in Depths : d # 0 => frames'[t][d] = frames[t][d]
      /\ \A u \in Tasks : u # t => frames'[u] = frames[u]
  BY <1>1, <1>3, <1>4, <1>6, ZenonT(60) DEF TypeOK, FramesType, Good
<1>8. Stack(t)'
  <2> SUFFICES ASSUME NEW d \in Depths
               PROVE  /\ d <= depth'[t] => Good(frames'[t][d])
                      /\ d > depth'[t] => frames'[t][d] = NoFrame
    BY ZenonT(60) DEF Stack, Good, Level, Phase, Progress
  <2>1. CASE d = 0
    BY <2>1, <1>3, <1>5, <1>7, SMTT(60), Zenon
  <2>2. CASE d # 0
    BY <2>2, <1>1, <1>5, <1>7, BoundsAssumption, SMTT(60), Zenon DEF Stack, Depths
  <2> QED BY <2>1, <2>2, ZenonT(60)
<1>9. Owing(t)' = {}
  <2>1. \A d \in Depths : d <= 0 => d = 0
    BY BoundsAssumption, SMTT(60), Zenon DEF Depths
  <2> QED BY <2>1, <1>3, <1>5, <1>7, ZenonT(60) DEF Owing
<1>10. /\ calls' \in [Tasks -> Nat] /\ calls'[t] = 1 /\ visited' = visited
       /\ \A u \in Tasks : u # t => calls'[u] = calls[u]
       /\ now' = now /\ delegation_cache' = delegation_cache /\ returned' = returned
  BY <1>1, ZenonT(60) DEF Resolve, TypeOK
<1> USE <1>10
<1>11. Work(t)'
  <2>1. IsFiniteSet(visited[t])
    BY <1>1, Zenon DEF Work
  <2>2. /\ Cardinality(Visited(t, {"cname", "dname"})) \in Nat
        /\ Cardinality(Visited(t, {"ns"})) \in Nat
    BY <2>1, Counts, SMTT(60), Zenon
  <2>3. Bound(t)' = Bound(t)
    BY Zenon DEF Bound, Visited
  <2>4. 1 + Cardinality({}) <= Bound(t)
    BY <2>2, FS_EmptySet, SMTT(60), Zenon DEF Bound
  <2> QED BY <2>1, <2>3, <2>4, <1>9, ZenonT(60) DEF Work
<1>12. Moved(t, {})
  BY <1>1, <1>5, <1>7, <1>8, <1>9, ZenonT(60) DEF Moved, TypeOK
<1> QED BY <1>1, <1>11, <1>12, MoveKeeps, SMTT(60), Zenon DEF TypeOK

\* A failed round ends the call, or restarts it from the root once.
LEMMA NoAnswerKeeps ==
  ASSUME IInv, NEW t \in Tasks, NoAnswer(t)
  PROVE  IInv'
<1>1. TypeOK /\ Stack(t) /\ depth[t] >= 0 /\ UNCHANGED <<now, visited, calls>>
  BY Zenon DEF IInv, NoAnswer, Waiting, Busy
<1> USE <1>1
<1>2. Good(Top(t))
  BY TopGood, Zenon
<1>3. CASE /\ Top(t).using_cached
           /\ delegation_cache' = purge_delegation(Top(t).name, Top(t).rtype)
           /\ EndStep(t, Restarted(Top(t)))
  <2>1. delegation_cache' \in [Names -> DelegationEntry \cup {NoEntry}]
    BY <1>3, Zenon DEF TypeOK, purge_delegation
  <2>2. Moved(t, Owing(t) \ {depth[t]})
    BY <1>2, <1>3, RestartedGood, EndStepMoves, SMTT(60), Zenon
  <2> QED BY <2>1, <2>2, QuietMoveKeeps, SMTT(60), Zenon
<1>4. CASE Return(t, "AllNameserversFailed") /\ delegation_cache' = delegation_cache
  <2>1. "AllNameserversFailed" \in Outcomes
    BY Zenon DEF Outcomes, Errors
  <2>2. Moved(t, Owing(t) \ {depth[t]})
    BY <1>4, <2>1, ReturnMoves, SMTT(60), Zenon
  <2> QED BY <1>4, <2>2, QuietMoveKeeps, SMTT(60), Zenon DEF TypeOK
<1> QED BY <1>3, <1>4, ZenonT(60) DEF NoAnswer

\* An alias is followed once, in a call of its own.
LEMMA FollowKeeps ==
  ASSUME IInv, NEW t \in Tasks, depth[t] >= 0, UNCHANGED <<now, delegation_cache>>,
         NEW kind \in {"cname", "dname"}, NEW target \in Names, Follow(t, kind, target)
  PROVE  IInv'
<1>1. TypeOK /\ Stack(t) /\ Work(t)
  BY Zenon DEF IInv
<1> USE <1>1
<1>2. Good(Top(t))
  BY TopGood, Zenon
<1>3. CASE Return(t, "NoProgress") /\ UNCHANGED <<visited, calls>>
  <2>1. "NoProgress" \in Outcomes
    BY Zenon DEF Outcomes, Errors
  <2>2. Moved(t, Owing(t) \ {depth[t]})
    BY <1>3, <2>1, ReturnMoves, SMTT(60), Zenon
  <2> QED BY <1>3, <2>2, QuietMoveKeeps, Zenon DEF TypeOK
<1>4. CASE /\ <<kind, target>> \notin visited[t]
           /\ visited' = [visited EXCEPT ![t] = @ \cup {<<kind, target>>}]
           /\ Call(t, Redirected(Top(t)), target, Top(t).rtype)
  <2>1. Good(Redirected(Top(t))) /\ Redirected(Top(t)).at # "ns_a"
    BY <1>2, RedirectedGood, Zenon
  <2>2. Top(t).rtype \in Types
    BY <1>2, Zenon DEF Good, Frame
  <2> USE <1>4
  <2>3. Moved(t, Owing(t) \ {depth[t]})
    BY <2>1, <2>2, CallMoves, ZenonT(60)
  <2>4. <<kind, target>> \in Keys
    BY Zenon DEF Keys
  <2>5. /\ visited' \in [Tasks -> SUBSET Keys]
        /\ visited'[t] = visited[t] \cup {<<kind, target>>}
        /\ \A u \in Tasks : u # t => visited'[u] = visited[u]
    BY <2>4, ZenonT(60) DEF TypeOK
  <2>6. /\ calls' \in [Tasks -> Nat] /\ calls'[t] = calls[t] + 1 /\ calls[t] \in Nat
        /\ \A u \in Tasks : u # t => calls'[u] = calls[u]
    BY CallCounts, ZenonT(60)
  <2>7. Owing(t)' = Owing(t) \ {depth[t]}
    BY <2>3, SMTT(60), Zenon DEF Moved
  <2>8. Work(t)'
    BY <2>5, <2>6, <2>7, AliasCall, ZenonT(60)
  <2> QED BY <2>3, <2>5, <2>6, <2>8, MoveKeeps, ZenonT(60) DEF TypeOK
<1> QED BY <1>3, <1>4, Zenon DEF Follow

\* A referral is refused, taken, or has its nameservers looked up.
LEMMA ReferralKeeps ==
  ASSUME IInv, NEW t \in Tasks, depth[t] >= 0, UNCHANGED <<now, visited, calls>>,
         NEW r \in Response, Referral(t, r)
  PROVE  IInv'
<1> DEFINE f == Referred(Top(t), r)
<1>1. TypeOK /\ Stack(t)
  BY Zenon DEF IInv
<1>2. Good(Top(t))
  BY <1>1, TopGood, SMTT(60), Zenon
<1>3. f \in Frame /\ Level(f) /\ f.using_cached = FALSE /\ f.zone = r.zone
  BY <1>2, ReferredTyped, ZenonT(60)
<1> HIDE DEF f
<1>4. CASE Return(t, "NoProgress") /\ delegation_cache' = delegation_cache
  <2>1. "NoProgress" \in Outcomes
    BY Zenon DEF Outcomes, Errors
  <2>2. Moved(t, Owing(t) \ {depth[t]})
    BY <1>1, <1>4, <2>1, ReturnMoves, Zenon
  <2> QED BY <1>1, <1>4, <2>2, QuietMoveKeeps, Zenon DEF TypeOK
<1>5. CASE Progress(f, r.zone) /\ Delegate(t, f)
  BY <1>3, <1>5, DelegateMoves, QuietMoveKeeps, ZenonT(60)
<1>6. CASE /\ Progress(f, r.zone)
           /\ SetTop(t, InPhase(f, "ns"))
           /\ UNCHANGED <<delegation_cache, depth, returned>>
  <2> DEFINE g == InPhase(f, "ns")
  <2>1. /\ g \in Frame /\ g.at = "ns" /\ g.name = f.name /\ g.step = f.step
        /\ g.using_cached = FALSE /\ g.last_zone = f.last_zone
        /\ g.bailiwick = f.bailiwick /\ g.zone = f.zone
    <3>1. "ns" \in NsPhases /\ 0 \in Nat
      BY Zenon DEF NsPhases
    <3> QED BY <1>3, <3>1, LookingUpTyped, SMTT(60), Zenon
  <2> USE <1>6
  <2>2. SetTop(t, g)
    BY ZenonT(60)
  <2> HIDE DEF g
  <2> USE <2>1
  <2>3. Level(g)
    BY <1>3, ZenonT(60) DEF Level
  <2>4. Phase(g)
    BY <1>3, SMTT(60), Zenon DEF Phase, Progress, NsPhases
  <2>5. Moved(t, Owing(t) \ {depth[t]})
    BY <1>1, <2>2, <2>3, <2>4, SetTopMoves, ZenonT(60) DEF Good, TypeOK
  <2> QED BY <1>1, <2>5, QuietMoveKeeps, ZenonT(60) DEF TypeOK
<1> QED BY <1>4, <1>5, <1>6, Zenon DEF Referral, f

\* A response keeps the invariant, whatever it says.
LEMMA AnsweredKeeps ==
  ASSUME IInv, NEW t \in Tasks, NEW r \in Responses[t], Answered(t, r)
  PROVE  IInv'
<1>1. TypeOK /\ Stack(t) /\ depth[t] >= 0 /\ now' = now
  BY ZenonT(60) DEF IInv, Answered, Waiting, Busy
<1>2. r \in Response /\ r.target \in Names
  BY ResponsesAssumption, SMTT(60), Zenon DEF Response
<1> USE <1>1
<1>3. ASSUME NEW out \in Outcomes, Return(t, out),
             UNCHANGED <<visited, calls, delegation_cache>>
      PROVE  IInv'
  <2>1. Moved(t, Owing(t) \ {depth[t]})
    BY <1>3, ReturnMoves, Zenon
  <2> QED BY <1>3, <2>1, QuietMoveKeeps, ZenonT(60) DEF TypeOK
<1>4. "Ok" \in Outcomes /\ "NoProgress" \in Outcomes
  BY Zenon DEF Outcomes, Errors
<1>5. CASE Answer(t, r) /\ delegation_cache' = delegation_cache
  <2> DEFINE s == dname_substitute(Top(t).name, r.owner, r.target)
  <2>1. s # NoZone => s \in Names
    BY ZenonT(60) DEF dname_substitute
  <2> HIDE DEF s
  <2>2. \/ \E out \in {"Ok", "NoProgress"} : Return(t, out) /\ UNCHANGED <<visited, calls>>
        \/ Follow(t, "cname", r.target)
        \/ s # NoZone /\ Follow(t, "dname", s)
    BY <1>5, Zenon DEF Answer, s
  <2> QED BY <1>2, <1>3, <1>4, <1>5, <2>1, <2>2, FollowKeeps, ZenonT(60)
<1>6. CASE \E out \in {"Ok", "NoProgress"} :
             Return(t, out) /\ UNCHANGED <<visited, calls, delegation_cache>>
  BY <1>3, <1>4, <1>6, Zenon
<1>7. CASE Referral(t, r) /\ UNCHANGED <<visited, calls>>
  BY <1>2, <1>7, ReferralKeeps, ZenonT(60)
<1>8. \/ Answer(t, r) /\ delegation_cache' = delegation_cache
      \/ \E out \in {"Ok", "NoProgress"} :
           Return(t, out) /\ UNCHANGED <<visited, calls, delegation_cache>>
      \/ Referral(t, r) /\ UNCHANGED <<visited, calls>>
  BY ZenonT(60) DEF Answered
<1> QED BY <1>5, <1>6, <1>7, <1>8, ZenonT(60)

\* A nameserver is looked up once per resolution.
LEMMA LookUpKeeps ==
  ASSUME IInv, NEW t \in Tasks, LookUp(t)
  PROVE  IInv'
<1> DEFINE f == Top(t)
<1>1. TypeOK /\ Stack(t) /\ Work(t) /\ depth[t] >= 0 /\ f.at = "ns" /\ now' = now
  BY Zenon DEF IInv, LookUp, Waiting, Busy
<1>2. Good(f)
  BY <1>1, TopGood, SMTT(60), Zenon
<1> HIDE DEF f
<1>3. /\ f \in Frame /\ Level(f) /\ f.at \in NsPhases
      /\ Progress(f, f.zone) /\ f.using_cached = FALSE
  BY <1>1, <1>2, Zenon DEF Good, Phase, NsPhases, Frame
<1>4. "ns_a" \in NsPhases /\ 0 \in Nat
  BY Zenon DEF NsPhases
<1>5. CASE Delegate(t, f) /\ UNCHANGED <<visited, calls>>
  BY <1>1, <1>3, <1>5, DelegateMoves, QuietMoveKeeps, ZenonT(60)
<1>6. CASE /\ f.todo # <<>> /\ SetTop(t, Skipped(f))
           /\ UNCHANGED <<delegation_cache, depth, visited, returned, calls>>
  <2>1. /\ Skipped(f) \in Frame /\ Skipped(f).at = "ns"
        /\ Skipped(f).name = f.name /\ Skipped(f).step = f.step
        /\ Skipped(f).using_cached = f.using_cached
        /\ Skipped(f).last_zone = f.last_zone
        /\ Skipped(f).bailiwick = f.bailiwick /\ Skipped(f).zone = f.zone
    BY <1>1, <1>3, <1>4, <1>6, LookingUpTyped, ZenonT(60)
  <2>2. Good(Skipped(f))
    BY <1>1, <1>2, <1>3, <2>1, LookingUpGood, ZenonT(60)
  <2>3. Moved(t, Owing(t) \ {depth[t]})
    BY <1>1, <1>6, <2>1, <2>2, SetTopMoves, ZenonT(60) DEF TypeOK
  <2> QED BY <1>1, <1>6, <2>3, QuietMoveKeeps, Zenon DEF TypeOK
<1>7. CASE /\ f.todo # <<>> /\ <<"ns", Head(f.todo)>> \notin visited[t]
           /\ visited' = [visited EXCEPT ![t] = @ \cup {<<"ns", Head(f.todo)>>}]
           /\ Call(t, InPhase(f, "ns_a"), Head(f.todo), "A")
           /\ UNCHANGED delegation_cache
  <2> DEFINE g == InPhase(f, "ns_a")
             n == Head(f.todo)
  <2>1. /\ g \in Frame /\ g.at = "ns_a" /\ g.todo = f.todo
        /\ g.name = f.name /\ g.step = f.step /\ g.using_cached = f.using_cached
        /\ g.last_zone = f.last_zone /\ g.bailiwick = f.bailiwick /\ g.zone = f.zone
        /\ n \in Names
    BY <1>3, <1>4, <1>7, LookingUpTyped, ZenonT(60)
  <2>2. /\ <<"ns", n>> \notin visited[t]
        /\ visited' = [visited EXCEPT ![t] = @ \cup {<<"ns", n>>}]
        /\ Call(t, g, n, "A")
    BY <1>7, ZenonT(60)
  <2> HIDE DEF g, n
  <2>3. Good(g)
    BY <1>2, <1>3, <1>4, <1>7, <2>1, LookingUpGood, ZenonT(60)
  <2>4. Moved(t, Owing(t) \cup {depth[t]})
    <3>1. "A" \in Types
      BY Zenon DEF Types
    <3> QED BY <1>1, <2>1, <2>2, <2>3, <3>1, CallMoves, ZenonT(60)
  <2>5. <<"ns", n>> \in Keys
    BY <2>1, Zenon DEF Keys
  <2>6. /\ visited' \in [Tasks -> SUBSET Keys]
        /\ visited'[t] = visited[t] \cup {<<"ns", n>>}
        /\ \A u \in Tasks : u # t => visited'[u] = visited[u]
    BY <1>1, <2>2, <2>5, ZenonT(60) DEF TypeOK
  <2>7. /\ calls' \in [Tasks -> Nat] /\ calls'[t] = calls[t] + 1 /\ calls[t] \in Nat
        /\ \A u \in Tasks : u # t => calls'[u] = calls[u]
    BY <1>1, <2>2, CallCounts, ZenonT(60)
  <2>8. Owing(t)' = Owing(t) \cup {depth[t]}
    BY <2>4, SMTT(60), Zenon DEF Moved
  <2>9. Work(t)'
    BY <1>1, <2>2, <2>6, <2>7, <2>8, AddressCall, ZenonT(60)
  <2> QED BY <1>1, <1>7, <2>4, <2>6, <2>7, <2>9, MoveKeeps, ZenonT(60) DEF TypeOK
<1> QED BY <1>5, <1>6, <1>7, ZenonT(60) DEF LookUp, f

\* A call that has returned is taken up by its frame.
LEMMA ResumeKeeps ==
  ASSUME IInv, NEW t \in Tasks, Resume(t)
  PROVE  IInv'
<1> DEFINE f == Top(t)
<1>1. /\ TypeOK /\ Stack(t) /\ Work(t) /\ depth[t] >= 0 /\ now' = now
      /\ visited' = visited /\ returned[t] \in Outcomes
  BY ZenonT(60) DEF IInv, Resume, TypeOK
<1>2. Good(f)
  BY <1>1, TopGood, SMTT(60), Zenon
<1>3. f = frames[t][depth[t]]
  BY Zenon DEF Top
<1> HIDE DEF f
<1>4. CASE Return(t, returned[t]) /\ UNCHANGED <<delegation_cache, calls>>
  <2>1. Moved(t, Owing(t) \ {depth[t]})
    BY <1>1, <1>4, ReturnMoves, SMTT(60), Zenon
  <2> QED BY <1>1, <1>4, <2>1, QuietMoveKeeps, ZenonT(60) DEF TypeOK
<1>5. ASSUME NEW n \in Nat, f.at \in {"ns_a", "ns_aaaa"},
             \/ /\ f.at = "ns_a"
                /\ Call(t, InPhase(Supplied(f, n), "ns_aaaa"), Head(f.todo), "AAAA")
                /\ UNCHANGED delegation_cache
             \/ Delegate(t, Supplied(f, n)) /\ UNCHANGED calls
             \/ /\ SetTop(t, InPhase(Skipped(Supplied(f, n)), "ns"))
                /\ returned' = [returned EXCEPT ![t] = NoOutcome]
                /\ UNCHANGED <<delegation_cache, depth, calls>>
      PROVE  IInv'
  <2> DEFINE g == Supplied(f, n)
  <2>1. /\ f \in Frame /\ Level(f) /\ f.at \in NsPhases /\ f.todo # <<>>
        /\ Progress(f, f.zone) /\ f.using_cached = FALSE
    BY <1>2, <1>5, ZenonT(60) DEF Good, Phase, NsPhases, Frame
  <2>2. "ns" \in NsPhases /\ "ns_aaaa" \in NsPhases
    BY ZenonT(60) DEF NsPhases
  <2>3. /\ g \in Frame /\ g.at = f.at /\ g.todo = f.todo
        /\ g.name = f.name /\ g.step = f.step /\ g.using_cached = f.using_cached
        /\ g.last_zone = f.last_zone /\ g.bailiwick = f.bailiwick /\ g.zone = f.zone
        /\ Head(f.todo) \in Names
    <3>1. f \in Frame /\ f.todo # <<>> /\ "ns" \in NsPhases /\ n \in Nat
      BY <2>1, <2>2, SMTT(60), Zenon
    <3> QED BY ONLY <3>1, LookingUpTyped, ZenonT(60)
  <2>4. \/ /\ f.at = "ns_a"
           /\ Call(t, InPhase(g, "ns_aaaa"), Head(f.todo), "AAAA")
           /\ UNCHANGED delegation_cache
        \/ Delegate(t, g) /\ UNCHANGED calls
        \/ /\ SetTop(t, InPhase(Skipped(g), "ns"))
           /\ returned' = [returned EXCEPT ![t] = NoOutcome]
           /\ UNCHANGED <<delegation_cache, depth, calls>>
    BY <1>5, ZenonT(60)
  <2> HIDE DEF g
  <2>5. Good(g)
    BY <1>2, <2>1, <2>3, LookingUpGood, ZenonT(60)
  <2>6. CASE /\ f.at = "ns_a"
             /\ Call(t, InPhase(g, "ns_aaaa"), Head(f.todo), "AAAA")
             /\ UNCHANGED delegation_cache
    <3> DEFINE h == InPhase(g, "ns_aaaa")
    <3>1. /\ h \in Frame /\ h.at = "ns_aaaa" /\ h.todo = g.todo
          /\ h.name = g.name /\ h.step = g.step /\ h.using_cached = g.using_cached
          /\ h.last_zone = g.last_zone /\ h.bailiwick = g.bailiwick /\ h.zone = g.zone
      BY <2>2, <2>3, LookingUpTyped, Zenon
    <3>2. Call(t, h, Head(f.todo), "AAAA")
      BY <2>6, ZenonT(60)
    <3> HIDE DEF h
    <3>3. Good(h)
      BY <2>1, <2>2, <2>3, <2>5, <3>1, LookingUpGood, ZenonT(60)
    <3>4. Moved(t, Owing(t) \ {depth[t]})
      <4>1. "AAAA" \in Types
        BY ZenonT(60) DEF Types
      <4> QED BY <1>1, <2>3, <3>1, <3>2, <3>3, <4>1, CallMoves, ZenonT(60)
    <3>5. /\ calls' \in [Tasks -> Nat] /\ calls'[t] = calls[t] + 1 /\ calls[t] \in Nat
          /\ \A u \in Tasks : u # t => calls'[u] = calls[u]
      BY <1>1, <3>2, SMTT(60), Zenon DEF TypeOK, Call
    <3>6. depth[t] \in Owing(t)
      <4>1. depth[t] \in Depths /\ depth[t] <= depth[t]
        BY <1>1, TopGood, BoundsAssumption, SMTT(60), Zenon DEF Depths
      <4> QED BY <1>3, <2>6, <4>1, ZenonT(60) DEF Owing
    <3>7. Owing(t)' = Owing(t) \ {depth[t]}
      BY <3>4, ZenonT(60) DEF Moved
    <3>8. Work(t)'
      BY <1>1, <3>5, <3>6, <3>7, OwedCall, SMTT(60), Zenon
    <3> QED BY <1>1, <2>6, <3>4, <3>5, <3>8, MoveKeeps, ZenonT(60) DEF TypeOK
  <2>7. CASE Delegate(t, g) /\ UNCHANGED calls
    <3>1. Level(g) /\ Progress(g, g.zone) /\ g.using_cached = FALSE
      BY <2>1, <2>3, <2>5, Zenon DEF Good, Phase
    <3> QED BY <1>1, <2>3, <2>7, <3>1, DelegateMoves, QuietMoveKeeps, ZenonT(60)
  <2>8. CASE /\ SetTop(t, InPhase(Skipped(g), "ns"))
             /\ returned' = [returned EXCEPT ![t] = NoOutcome]
             /\ UNCHANGED <<delegation_cache, depth, calls>>
    <3> DEFINE e == Skipped(g)
               h == InPhase(e, "ns")
    <3>1. /\ e \in Frame
          /\ e.name = g.name /\ e.step = g.step /\ e.using_cached = g.using_cached
          /\ e.last_zone = g.last_zone /\ e.bailiwick = g.bailiwick /\ e.zone = g.zone
      BY <2>1, <2>2, <2>3, LookingUpTyped, ZenonT(60)
    <3> HIDE DEF e
    <3>2. /\ h \in Frame /\ h.at = "ns"
          /\ h.name = e.name /\ h.step = e.step /\ h.using_cached = e.using_cached
          /\ h.last_zone = e.last_zone /\ h.bailiwick = e.bailiwick /\ h.zone = e.zone
      BY <2>2, <3>1, LookingUpTyped, SMTT(60), Zenon
    <3>3. SetTop(t, h)
      BY <2>8, ZenonT(60) DEF e
    <3> HIDE DEF h
    <3>4. Good(h)
      BY <2>1, <2>2, <2>3, <2>5, <3>1, <3>2, LookingUpGood, ZenonT(60)
    <3>5. returned' \in [Tasks -> Outcomes \cup {NoOutcome}]
      BY <1>1, <2>8, SMTT(60), Zenon DEF TypeOK
    <3>6. Moved(t, Owing(t) \ {depth[t]})
      BY <1>1, <2>8, <3>2, <3>3, <3>4, <3>5, SetTopMoves, ZenonT(60)
    <3> QED BY <1>1, <2>8, <3>6, QuietMoveKeeps, SMTT(60), Zenon DEF TypeOK
  <2> QED BY <2>6, <2>7, <2>8, <2>4, ZenonT(60)
<1>6. \A n : n \in (IF returned[t] = "Ok" THEN Yields ELSE {0}) => n \in Nat
  BY BoundsAssumption
<1> QED BY <1>4, <1>5, <1>6, ZenonT(60) DEF Resume, f

\* Initially there is no call and nothing is owed.
LEMMA InitInvariant == Init => IInv
<1> SUFFICES ASSUME Init PROVE IInv
  BY Zenon
<1>1. PICK preloaded \in SUBSET RootZoneTlds :
        delegation_cache = [z \in Names |-> IF z \in preloaded THEN RootZoneEntry
                                           ELSE NoEntry]
  BY ZenonT(60) DEF Init
<1>2. RootZoneEntry \in DelegationEntry
  BY BoundsAssumption, SMTT(60), Zenon DEF RootZoneEntry, DelegationEntry
<1>3. TypeOK
  BY <1>1, <1>2, BoundsAssumption, SMTT(60), Zenon DEF Init, TypeOK
<1>4. ASSUME NEW t \in Tasks PROVE Stack(t) /\ Work(t)
  <2>1. \A d \in Depths : ~(d <= -1)
    BY BoundsAssumption DEF Depths
  <2>2. Stack(t)
    BY <2>1, Zenon DEF Init, Stack
  <2>3. Owing(t) = {}
    BY <2>1, Zenon DEF Init, Owing
  <2>4. visited[t] = {} /\ calls[t] = 0
    BY Zenon DEF Init
  <2>5. IsFiniteSet(visited[t])
    BY <2>4, FS_EmptySet, SMTT(60), Zenon
  <2>6. Bound(t) \in Nat
    BY <2>5, Counts DEF Bound
  <2> QED BY <2>2, <2>3, <2>4, <2>5, <2>6, FS_EmptySet, SMTT(60), Zenon DEF Work
<1> QED BY <1>3, <1>4, Zenon DEF IInv

\* A step that leaves the resolutions alone leaves their stacks and work alone.
LEMMA TasksUnchanged ==
  ASSUME IInv, UNCHANGED taskVars
  PROVE  \A t \in Tasks : Stack(t)' /\ Work(t)'
<1> TAKE t \in Tasks
<1>1. frames' = frames /\ depth' = depth /\ visited' = visited /\ calls' = calls
  BY Zenon DEF taskVars
<1>2. Stack(t) /\ Work(t)
  BY Zenon DEF IInv
<1>3. Stack(t)'
  BY <1>1, <1>2, ZenonT(60) DEF Stack, Good, Level, Phase, Progress
<1>4. Work(t)'
  BY <1>1, <1>2, Zenon DEF Work, Owing, Bound, Visited
<1> QED BY <1>3, <1>4, Zenon

\* The clock is read by the cache alone.
LEMMA TickKeeps ==
  ASSUME IInv, Tick
  PROVE  IInv'
<1>1. UNCHANGED taskVars /\ UNCHANGED delegation_cache /\ now' \in 0..MaxTime
  BY BoundsAssumption, SMTT(60), Zenon DEF IInv, TypeOK, Tick
<1>2. TypeOK'
  BY <1>1, Zenon DEF IInv, TypeOK, taskVars, Depths
<1>3. \A t \in Tasks : Stack(t)' /\ Work(t)'
  BY <1>1, TasksUnchanged, Zenon
<1> QED BY <1>2, <1>3, SMTT(60), Zenon DEF IInv

(***************************************************************************)
(* Theorems                                                                *)
(***************************************************************************)
\* The frames of resolve_internal stay on their descent, and every call is
\* paid for by a name that was met.
THEOREM InductiveInvariant == Spec => []IInv
<1>1. IInv /\ [Next]_vars => IInv'
  <2> SUFFICES ASSUME IInv, [Next]_vars PROVE IInv'
    BY Zenon
  <2>1. ASSUME NEW t \in Tasks, Step(t) PROVE IInv'
    BY <2>1, ResolveKeeps, NoAnswerKeeps, LookUpKeeps, ResumeKeeps, AnsweredKeeps, SMTT(60), Zenon DEF Step
  <2>2. CASE Tick
    BY <2>2, TickKeeps, Zenon
  <2>3. CASE UNCHANGED vars
    <3>1. TypeOK'
      BY <2>3, Zenon DEF IInv, TypeOK, vars, taskVars, Depths
    <3>2. \A t \in Tasks : Stack(t)' /\ Work(t)'
      BY <2>3, TasksUnchanged, Zenon DEF vars
    <3> QED BY <3>1, <3>2, SMTT(60), Zenon DEF IInv
  <2> QED BY <2>1, <2>2, <2>3, Zenon DEF Next
<1> QED BY <1>1, InitInvariant, PTL DEF Spec

\* The locals of resolve_internal, the delegation cache and the counters of
\* every resolution have their types: no lookup is made of an empty list of
\* nameservers, and the step counter stays below MAX_STEPS.
THEOREM TypeCorrect == Spec => []TypeOK
<1>1. IInv => TypeOK
  BY Zenon DEF IInv
<1> QED BY <1>1, InductiveInvariant, PTL

\* For every set of names, responses and resolutions: a call of
\* resolve_internal takes at most two steps more than its name has labels.
THEOREM StepsAreBounded == Spec => []StepsBoundedByLabels
<1>1. IInv => StepsBoundedByLabels
  <2> SUFFICES ASSUME IInv, NEW t \in Tasks, NEW d \in Depths, frames[t][d] # NoFrame
               PROVE  frames[t][d].step <= Len(frames[t][d].name) + 2
    BY Zenon DEF StepsBoundedByLabels
  <2> DEFINE f == frames[t][d]
  <2>1. Good(f)
    <3>1. depth[t] \in Int /\ d \in Int
      BY BoundsAssumption, SMTT(60), Zenon DEF IInv, TypeOK, Depths
    <3> QED BY <3>1, SMTT(60), Zenon DEF IInv, Stack
  <2> HIDE DEF f
  <2>2. f \in Frame /\ Level(f) /\ f.name \in Names /\ f.step \in 0..(MaxSteps - 1)
        /\ f.bailiwick \in Names
    BY <2>1, ZenonT(60) DEF Good, Frame
  <2> USE <2>2
  <2>3. CASE f.last_zone = NoZone
    <3>1. Len(f.name) \in Nat
      BY NamesAssumption
    <3> QED BY <2>3, <3>1, BoundsAssumption, SMTT(60), Zenon DEF Level, f
  <2>4. CASE f.last_zone # NoZone
    <3>1. zone_of(f.bailiwick, f.name) /\ f.step <= Len(f.bailiwick) + 2
      BY <2>4, SMTT(60), Zenon DEF Level
    <3>2. Len(f.bailiwick) \in Nat /\ Len(f.name) \in Nat
          /\ Len(f.bailiwick) <= Len(f.name)
      BY <3>1, ProperZoneIsLonger, SMTT(60), Zenon
    <3>3. f.step <= Len(f.name) + 2
      BY <3>1, <3>2, BoundsAssumption, SMTT(60), Zenon
    <3> QED BY <3>3, SMTT(60), Zenon DEF f
  <2> QED BY <2>3, <2>4, SMTT(60), Zenon
<1> QED BY <1>1, InductiveInvariant, PTL

\* For every set of names, responses and resolutions: the calls of a
\* resolution are bounded by the distinct names it met, however its aliases
\* and nameservers lead to each other.
THEOREM WorkIsBounded == Spec => []WorkBounded
<1>1. IInv => WorkBounded
  <2> SUFFICES ASSUME IInv, NEW t \in Tasks PROVE calls[t] <= Bound(t)
    BY Zenon DEF WorkBounded, Bound
  <2>1. IsFiniteSet(visited[t]) /\ calls[t] + Cardinality(Owing(t)) <= Bound(t)
        /\ calls[t] \in Nat
    BY Zenon DEF IInv, Work, TypeOK
  <2>2. Cardinality(Owing(t)) \in Nat /\ Bound(t) \in Nat
    BY <2>1, Counts, SMTT(60), Zenon DEF Bound
  <2> QED BY <2>1, <2>2, SMTT(60), Zenon
<1> QED BY <1>1, InductiveInvariant, PTL
=============================================================================
