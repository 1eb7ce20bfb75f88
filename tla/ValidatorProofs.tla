-------------------------- MODULE ValidatorProofs ---------------------------
(***************************************************************************)
(* Safety of DNSSEC validation, and that it ends: the steps of Validator   *)
(* keep the invariant of ValidatorFrames, and what follows from it.        *)
(***************************************************************************)
EXTENDS ValidatorRely

(***************************************************************************)
(* The order of WorkShrinks.                                               *)
(***************************************************************************)
LEMMA RankIsInt ==
  ASSUME NEW f \in Frame
  PROVE  Rank(f) \in Int
<1> DEFINE T == f.target
           z == f.zone
<1>1. T \in Int /\ z \in Int /\ Depth \in Int
  BY FrameFields, ZonesAssumption DEF Names
<1> HIDE DEF T, z
<1>2. 3 * (T + 1 - z) + 3 \in Int /\ 3 * (T + 1 - z) + 2 \in Int /\ 3 * (T + 1 - z) + 1 \in Int
  BY <1>1
<1>3. 3 * Depth + 9 \in Int /\ 3 * Depth + 8 \in Int /\ 3 * Depth + 7 \in Int
  BY <1>1
<1> QED
  BY <1>2, <1>3 DEF Rank, T, z

(***************************************************************************)
(* The start of a validation.                                              *)
(***************************************************************************)
\* An RRset as it comes with a message.
LEMMA Arrives ==
  ASSUME Typed, NEW link \in [owner : Names, how : Damage]
  PROVE  LET r == [owner |-> link.owner, bare |-> Bare(link), sigs |-> Signatures(link)] IN
         /\ r \in RRset
         /\ \A j \in 1..Len(r.sigs) : r.sigs[j].keys[1] <= r.owner
         /\ link.how \in {"genuine", "extra"} => Genuine(r)
<1> DEFINE n == link.owner
           k == KeysOf(Apex(n))
           s == [keys |-> k, good |-> TRUE]
           b == [keys |-> k, good |-> FALSE]
           q == Signatures(link)
           r == [owner |-> n, bare |-> Bare(link), sigs |-> q]
<1>1. n \in Names /\ n \in Nat /\ link.how \in Damage
  BY ZonesAssumption DEF Names
<1>2. k \in Names \X Nat /\ k[1] = Apex(n) /\ k[1] <= n /\ Kind(k[1]) # "none"
  BY <1>1, ApexFacts, ZoneFacts DEF KeysOf
<1>3. q = IF Kind(k[1]) \in {"unsigned", "none"} THEN <<>>
          ELSE CASE link.how = "genuine" -> <<s>>
                 [] link.how = "broken" -> <<b>>
                 [] link.how = "extra" -> <<b, s>>
                 [] OTHER -> <<>>
  BY Zenon DEF Signatures
<1> HIDE DEF k, q, n
<1>4. s \in Sig /\ b \in Sig /\ s.keys = k /\ b.keys = k /\ s.good
  BY <1>2, Zenon DEF Sig
<1> HIDE DEF s, b
<1>5. q \in {<<>>, <<s>>, <<b>>, <<b, s>>}
  BY <1>3, Zenon
<1>6. q \in Seq(Sig) /\ \A j \in 1..Len(q) : q[j].keys = k
  <2>1. CASE q = <<>>
    BY <2>1
  <2>2. ASSUME NEW u \in {s, b}, q = <<u>> PROVE q \in Seq(Sig) /\ \A j \in 1..Len(q) : q[j].keys = k
    <3> USE <2>2
    <3>1. u \in Sig /\ u.keys = k
      BY <1>4, Zenon
    <3>2. Len(q) = 1 /\ q[1] = u
      BY Zenon
    <3> QED
      BY <3>1, <3>2
  <2>3. CASE q = <<b, s>>
    <3>1. Len(q) = 2 /\ q[1] = b /\ q[2] = s /\ q \in Seq(Sig)
      BY <1>4, <2>3
    <3>2. \A j \in 1..2 : j = 1 \/ j = 2
      OBVIOUS
    <3> QED
      BY <1>4, <3>1, <3>2, Zenon
  <2> QED
    BY <1>5, <2>1, <2>2, <2>3, Zenon
<1>7. r \in RRset
  BY <1>1, <1>6, Zenon DEF RRset, Bare
<1>8. \A j \in 1..Len(q) : q[j].keys[1] <= n
  BY <1>2, <1>6, Zenon
<1>9. ASSUME link.how \in {"genuine", "extra"} PROVE Genuine(r)
  <2>1. r.owner = n /\ r.sigs = q /\ r.bare = Bare(link)
    BY Zenon
  <2> HIDE DEF r
  <2>2. Bare(link) = (Kind(Apex(n)) \in {"unsigned", "none"})
    BY <1>9 DEF Bare, n
  <2>3. CASE Kind(Apex(n)) = "unsigned"
    BY <2>1, <2>2, <2>3, Zenon DEF Genuine
  <2>4. CASE Kind(Apex(n)) # "unsigned"
    <3> USE <2>4
    <3>1. q = <<s>> \/ q = <<b, s>>
      BY <1>2, <1>3, <1>9, Zenon
    <3>2. q # <<>> /\ q[Len(q)] = s
      BY <3>1
    <3>3. ~r.bare
      BY <1>2, <2>1, <2>2, Zenon
    <3>4. \A j \in 1..Len(q) : q[j].keys = KeysOf(Apex(n))
      BY <1>6, Zenon DEF k
    <3> QED
      BY <1>4, <2>1, <3>2, <3>3, <3>4, Zenon DEF Genuine
  <2> QED
    BY <2>3, <2>4, Zenon
<1> QED
  BY <1>7, <1>8, <1>9, Zenon DEF n, q

\* The SOA is the first of its links.
LEMMA FirstOf ==
  ASSUME NEW E, NEW s \in Seq(E), s # <<>>
  PROVE  Head(s) \in E
OBVIOUS

\* The frame a validation starts with.
LEMMA StartInv ==
  ASSUME Typed, NEW m \in Message, m.sort \in {"answer", "negative"} => m.links # <<>>
  PROVE  LET links == Examined(m)
             f == [Idle EXCEPT
                     !.links = [i \in 1..Len(links) |->
                                  [owner |-> links[i].owner, bare |-> Bare(links[i]),
                                   sigs |-> Signatures(links[i])]],
                     !.bare = m.bare, !.wildcard = m.wildcard, !.proof = m.proof,
                     !.good = /\ \A i \in 1..Len(links) : links[i].how \in {"genuine", "extra"}
                              /\ m.sort = "negative" => m.proof # "Bogus"
                              /\ Settled,
                     !.todo = Len(links)]
             g == CASE m.sort = "answer" -> [f EXCEPT !.pc = "rrset"]
                    [] m.sort = "loop" \/ Foreign(m) -> Done([f EXCEPT !.good = FALSE], "Bogus")
                    [] m.sort = "negative" /\ ~Foreign(m) -> Walk(f, links[1].owner, "negative")
                    [] OTHER -> Done(f, "InsecureUnknown")
         IN  FrameInv(g) /\ ~SaysUnsigned(g)
<1> DEFINE M == Examined(m)
           L == [i \in 1..Len(M) |->
                   [owner |-> M[i].owner, bare |-> Bare(M[i]), sigs |-> Signatures(M[i])]]
           v == /\ \A i \in 1..Len(M) : M[i].how \in {"genuine", "extra"}
                /\ m.sort = "negative" => m.proof # "Bogus"
                /\ Settled
           p == m.proof
           x == m.bare
           w == m.wildcard
           d == Len(M)
           f == [Idle EXCEPT !.links = L, !.bare = x, !.wildcard = w, !.proof = p,
                             !.good = v, !.todo = d]
           a == [f EXCEPT !.pc = "rrset"]
           b == [f EXCEPT !.good = FALSE]
           n == M[1].owner
           g == CASE m.sort = "answer" -> a
                  [] m.sort = "loop" \/ Foreign(m) -> Done(b, "Bogus")
                  [] m.sort = "negative" /\ ~Foreign(m) -> Walk(f, n, "negative")
                  [] OTHER -> Done(f, "InsecureUnknown")
<1> SUFFICES FrameInv(g) /\ ~SaysUnsigned(g)
  BY Zenon
<1>1. /\ M \in Seq([owner : Names, how : Damage]) /\ d \in Nat
      /\ p \in DnssecStatus /\ x \in BOOLEAN /\ w \in BOOLEAN /\ v \in BOOLEAN
      /\ m.sort \in {"answer", "loop", "negative", "no_soa", "other"}
      /\ m.sort \in {"answer", "negative"} => M # <<>>
  <2>1. /\ m.links \in Seq([owner : Names, how : Damage])
        /\ p \in DnssecStatus /\ x \in BOOLEAN /\ w \in BOOLEAN /\ v \in BOOLEAN
        /\ m.sort \in {"answer", "loop", "negative", "no_soa", "other"}
    BY DEF Message
  <2> USE <2>1
  <2>2. CASE m.sort = "negative"
    <3>1. M = <<Head(m.links)>> /\ m.links # <<>>
      BY <2>2, Zenon DEF Examined
    <3>2. Head(m.links) \in [owner : Names, how : Damage]
      BY <2>1, <3>1, FirstOf, Zenon
    <3> HIDE DEF M, d
    <3>3. M \in Seq([owner : Names, how : Damage]) /\ M # <<>>
      BY <3>1, <3>2
    <3>4. d \in Nat
      BY <3>1 DEF d
    <3> QED
      BY <2>1, <3>3, <3>4, Zenon
  <2>3. CASE m.sort # "negative"
    <3>1. M = m.links
      BY <2>3, Zenon DEF Examined
    <3> HIDE DEF M
    <3>2. d \in Nat
      BY <2>1, <3>1
    <3> QED
      BY <2>1, <2>3, <3>1, <3>2, Zenon
  <2> QED
    BY <2>2, <2>3, Zenon
<1>2. \A i \in 1..Len(M) : M[i] \in [owner : Names, how : Damage]
  <2> DEFINE E == [owner : Names, how : Damage]
  <2>1. M \in Seq(E)
    BY <1>1, Zenon
  <2> HIDE DEF E, M
  <2>2. \A i \in 1..Len(M) : M[i] \in E
    BY <2>1
  <2> QED
    BY <2>2, Zenon DEF E
<1> HIDE DEF M
<1>3. \A i \in 1..Len(M) :
        /\ L[i] \in RRset
        /\ \A j \in 1..Len(L[i].sigs) : L[i].sigs[j].keys[1] <= L[i].owner
        /\ M[i].how \in {"genuine", "extra"} => Genuine(L[i])
        /\ L[i].owner = M[i].owner
  <2> SUFFICES ASSUME NEW i \in 1..Len(M)
               PROVE  /\ L[i] \in RRset
                      /\ \A j \in 1..Len(L[i].sigs) : L[i].sigs[j].keys[1] <= L[i].owner
                      /\ M[i].how \in {"genuine", "extra"} => Genuine(L[i])
                      /\ L[i].owner = M[i].owner
    BY Zenon
  <2> DEFINE r == [owner |-> M[i].owner, bare |-> Bare(M[i]), sigs |-> Signatures(M[i])]
  <2>1. L[i] = r
    BY Zenon
  <2>2. /\ r \in RRset
        /\ \A j \in 1..Len(r.sigs) : r.sigs[j].keys[1] <= r.owner
        /\ M[i].how \in {"genuine", "extra"} => Genuine(r)
    BY <1>2, Arrives, Zenon
  <2>3. r.owner = M[i].owner
    BY Zenon
  <2> HIDE DEF L, r
  <2> QED
    BY <2>1, <2>2, <2>3, Zenon
<1>4. L \in Seq(RRset) /\ Len(L) = d
  <2>1. DOMAIN L = 1..d
    BY Zenon
  <2>2. \A i \in 1..d : L[i] \in RRset
    BY <1>3, Zenon
  <2>3. L = [i \in 1..d |-> L[i]]
    BY Zenon
  <2> HIDE DEF L, d
  <2> QED
    BY <1>1, <2>1, <2>2, <2>3
<1>5. /\ v => Settled /\ \A i \in 1..d : Genuine(L[i])
      /\ v /\ m.sort = "negative" => p # "Bogus"
  BY <1>3, Zenon
<1>6. \A i \in 1..d : \A j \in 1..Len(L[i].sigs) : L[i].sigs[j].keys[1] <= L[i].owner
  BY <1>3, Zenon
<1>7. M # <<>> => n \in Names /\ L # <<>> /\ L[1].owner = n
  <2>1. ASSUME M # <<>> PROVE 1 \in 1..Len(M) /\ Len(L) # 0
    BY <1>1, <1>4, <2>1
  <2> USE <2>1
  <2>2. ASSUME M # <<>> PROVE n \in Names
    BY <1>2, <2>2, Zenon
  <2>3. ASSUME M # <<>> PROVE L[1].owner = n
    BY <1>3, <2>3, Zenon
  <2>4. ASSUME M # <<>> PROVE L # <<>>
    <3> HIDE DEF L
    <3> QED
      BY <2>4, Zenon
  <2> QED
    BY <2>2, <2>3, <2>4, Zenon
<1> HIDE DEF L, v, p, x, w, d, n
<1>8. f \in Frame
  <2> DEFINE h == [Idle EXCEPT !.links = L, !.bare = x, !.wildcard = w]
  <2>1. h \in Frame
    BY <1>1, <1>4, IdleFormed, Zenon DEF Frame
  <2>2. f = [h EXCEPT !.proof = p, !.good = v, !.todo = d]
    BY Zenon
  <2>3. p \in DnssecStatus /\ v \in BOOLEAN /\ d \in Int
    BY <1>1
  <2> HIDE DEF h, f
  <2>4. [h EXCEPT !.proof = p, !.good = v, !.todo = d] \in Frame
    BY <2>1, <2>3, Zenon DEF Frame
  <2> QED
    BY <2>2, <2>4, Zenon
<1>9. /\ f.links = L /\ f.good = v /\ f.todo = d /\ f.proof = p
      /\ f.refused = Idle.refused /\ f.any_trusted = Idle.any_trusted
      /\ f.last_ttl = Idle.last_ttl
  BY IdleFormed, Zenon DEF Frame
<1>10. ~f.refused /\ ~f.any_trusted /\ f.last_ttl = DefaultTtl
  <2>1. ~Idle.refused /\ ~Idle.any_trusted /\ Idle.last_ttl = DefaultTtl
    BY Zenon DEF Idle
  <2> HIDE DEF f
  <2> QED
    BY <1>9, <2>1, Zenon
<1> HIDE DEF f
<1>11. Formed(f)
  BY <1>4, <1>6, <1>8, <1>9, <1>10, Lifetimes, Zenon DEF Formed
<1>12. f.good => Honest(f)
  BY <1>4, <1>5, <1>9, <1>10, Zenon DEF Honest
<1>13. f.refused \in BOOLEAN /\ f.good \in BOOLEAN /\ f.todo \in Int
  BY <1>8, FrameFields, Zenon
<1>14. CASE m.sort = "answer"
  <2>1. /\ a \in Frame /\ a.pc = "rrset" /\ a.links = f.links /\ a.good = f.good
        /\ a.todo = f.todo /\ a.refused = f.refused /\ a.any_trusted = f.any_trusted
        /\ a.last_ttl = f.last_ttl
    BY <1>8, Zenon DEF Frame
  <2>2. g = a
    BY <1>14, Zenon DEF Foreign
  <2> HIDE DEF a
  <2> USE <2>1
  <2>3. Formed(a) /\ Pending(a)
    BY <1>1, <1>4, <1>7, <1>9, <1>10, <1>11, <1>14, Zenon DEF Formed, Pending
  <2>4. Shape(a)
    BY <2>3, Zenon DEF Shape, Walking
  <2>5. Trusts(a) /\ Deserving(a)
    BY <1>12, Zenon DEF Trusts, Deserving, Honest, Walking
  <2> QED
    BY <2>2, <2>4, <2>5, Zenon DEF FrameInv, SaysUnsigned
<1>15. CASE m.sort = "loop" \/ Foreign(m)
  <2>1. b.good = FALSE /\ b.refused = f.refused /\ b.todo = f.todo
    BY <1>8, Zenon DEF Frame
  <2>2. g = Done(b, "Bogus") /\ "Bogus" \in DnssecStatus
    BY <1>15, Zenon DEF DnssecStatus, Foreign
  <2> HIDE DEF b
  <2>3. b.refused \in BOOLEAN /\ ~b.refused /\ b.good \in BOOLEAN /\ b.todo \in Int /\ ~b.good
    BY <1>10, <1>13, <2>1, Zenon
  <2> USE <2>2
  <2>4. FrameInv(Done(b, "Bogus"))
    BY <2>3, DoneInv
  <2>5. Done(b, "Bogus").verdict = "Bogus"
    BY <2>3, DoneFields
  <2> QED
    BY <2>4, <2>5, Zenon DEF SaysUnsigned
<1>16. CASE m.sort = "negative" /\ ~Foreign(m)
  <2>1. g = Walk(f, n, "negative") /\ M # <<>>
    BY <1>1, <1>16, Zenon
  <2> USE <1>9, <1>7, <2>1
  <2>2. Pending(f)
    BY <1>4, <1>10, Zenon DEF Pending
  <2>3. Purposed(f, n, "negative")
    BY ZonesAssumption DEF Purposed, Names
  <2>4. f.good => Promising(f, n, "negative")
    BY <1>5, <1>16, Zenon DEF Promising
  <2>5. FrameInv(Walk(f, n, "negative"))
    BY <1>8, <1>11, <1>12, <2>2, <2>3, <2>4, WalkInv, Zenon
  <2>6. Walk(f, n, "negative").pc = "walk"
    BY <1>8, WalkFields, Zenon
  <2> QED
    BY <2>5, <2>6, Zenon DEF SaysUnsigned
<1>17. CASE m.sort \in {"no_soa", "other"}
  <2>1. g = Done(f, "InsecureUnknown") /\ "InsecureUnknown" \in DnssecStatus
    BY <1>17, Zenon DEF DnssecStatus, Foreign
  <2> USE <2>1
  <2>2. FrameInv(Done(f, "InsecureUnknown"))
    BY <1>10, <1>12, <1>13, DoneInv DEF Honest
  <2>3. Done(f, "InsecureUnknown").verdict = "InsecureUnknown"
    BY <1>13, DoneFields
  <2> QED
    BY <2>2, <2>3, Zenon DEF SaysUnsigned
<1> QED
  BY <1>1, <1>14, <1>15, <1>16, <1>17, ZenonT(20)

(***************************************************************************)
(* What a step of validation t does: its frame becomes one that satisfies  *)
(* the invariant and has less to do, and what it caches is justified.      *)
(***************************************************************************)
\* Every frame but t's is as it was.
LEMMA FramesInv ==
  ASSUME ValidatorInv, UNCHANGED zones, NEW t \in Tasks, NEW g, FrameInv(g), Set(t, g)
  PROVE  frames' \in [Tasks -> Frame] /\ \A u \in Tasks : FrameInv(frames[u])'
<1>1. frames \in [Tasks -> Frame] /\ frames' = [frames EXCEPT ![t] = g]
  BY Zenon DEF ValidatorInv, Typed, TypeOK, Set
<1>2. g \in Frame
  BY Zenon DEF FrameInv, Shape, Formed
<1>3. ASSUME NEW u \in Tasks PROVE FrameInv(frames[u])'
  <2>1. PICK x : x = frames'[u]
    BY Zenon
  <2>2. FrameInv(x)
    BY <1>1, <2>1, Zenon DEF ValidatorInv
  <2>3. FrameInv(x)'
    BY <2>2, FrameSame, Zenon
  <2> QED
    BY <2>1, <2>3, Zenon
<1> QED
  BY <1>1, <1>2, <1>3, Zenon

\* Where the walk for is_zone_signed ends, Signed may be cached.
LEMMA EndJustified ==
  ASSUME Typed, NEW f, FrameInv(f), f.pc = "walk", f.zone > f.target
  PROVE  \/ Kind(Apex(f.target)) = "signed"
         \/ \E y \in 1..f.target : \E i \in 1..Len(past[y]) : past[y][i].age < DsTtl
<1> DEFINE k == f.keys
           n == f.target
<1>1. /\ f.target \in Names /\ f.zone = f.target + 1
      /\ k \in Names \X Nat /\ k[1] <= f.target
  BY WalkEnd, Zenon
<1>2. n \in Nat /\ k[1] \in Nat /\ k[2] \in Nat /\ k[1] \in Names /\ f.zone > 0
      /\ f.zone - 1 = n
  BY <1>1, ZonesAssumption DEF Names
<1> USE <1>2
<1>3. /\ Keyed(k)
      /\ k[2] < Epoch(k[1]) => past[k[1]][k[2] + 1].age < DsTtl
      /\ \A y \in (k[1] + 1)..n :
           Kind(y) = "none" \/ \E i \in 1..Len(past[y]) : past[y][i].age < DsTtl
  BY Zenon DEF FrameInv, Trusts
<1> HIDE DEF k, n
<1>4. CASE k[2] < Epoch(k[1])
  <2> USE <1>4
  <2>1. k[1] # 0
    BY ZoneFacts
  <2>2. k[1] \in Zones /\ k[1] \in 1..n
    BY <1>1, <2>1, ZonesAssumption DEF Zones, Names, n
  <2>3. k[2] + 1 \in 1..Len(past[k[1]])
    BY <2>2, PastFacts
  <2> QED
    BY <1>3, <2>2, <2>3, Zenon DEF n
<1>5. CASE k[2] = Epoch(k[1]) /\ \A y \in (k[1] + 1)..n : Kind(y) = "none"
  <2>1. Kind(k[1]) = "signed" /\ k[1] \in 0..n /\ n \in Names
    BY <1>1, <1>3, <1>5 DEF Keyed, n
  <2>2. Apex(n) = k[1]
    BY <1>5, <2>1, ApexIs, Zenon
  <2> QED
    BY <2>1, <2>2, Zenon DEF n
<1>6. CASE ~ \A y \in (k[1] + 1)..n : Kind(y) = "none"
  <2>1. PICK y \in (k[1] + 1)..n : \E i \in 1..Len(past[y]) : past[y][i].age < DsTtl
    BY <1>3, <1>6, Zenon
  <2>2. y \in 1..n
    OBVIOUS
  <2> QED
    BY <2>1, <2>2, Zenon DEF n
<1>7. k[2] < Epoch(k[1]) \/ k[2] = Epoch(k[1])
  BY <1>3, ZoneFacts DEF Keyed
<1> QED
  BY <1>4, <1>5, <1>6, <1>7, Zenon

Becomes(t, g) ==
  /\ Set(t, g) /\ FrameInv(g) /\ Less(g, frames[t])
  /\ SaysUnsigned(g) => \/ frames[t].proof = "InsecureUnsigned"
                        \/ ProvenAbove(frames[t].links[1].owner)

LEMMA CachesSame ==
  ASSUME Typed, UNCHANGED caches
  PROVE  CachesJustified
BY CachesTyped, Zenon DEF caches, CachesJustified, Justified

LEMMA FrameAt ==
  ASSUME ValidatorInv, NEW t \in Tasks
  PROVE  Typed /\ FrameInv(frames[t]) /\ \A n \in Names : KeysCached(n) /\ SignednessCached(n)
BY Zenon DEF ValidatorInv

LEMMA SyncSteps ==
  ASSUME ValidatorInv, NEW t \in Tasks,
         \/ Rrset(t) \/ SignedCached(t) \/ FindApex(t) \/ WalkCached(t) \/ FetchFails(t)
  PROVE  UNCHANGED zones /\ CachesJustified /\ \E g : Becomes(t, g)
<1> DEFINE f == frames[t]
<1>1. Typed /\ FrameInv(f) /\ \A n \in Names : KeysCached(n) /\ SignednessCached(n)
  BY FrameAt, ZenonT(20)
<1>2. UNCHANGED zones /\ UNCHANGED caches
  BY Zenon DEF Rrset, SignedCached, FindApex, WalkCached, FetchFails
<1>3. CachesJustified
  BY <1>1, <1>2, CachesSame, Zenon
<1>4. ASSUME Rrset(t) PROVE \E g : Becomes(t, g)
  <2> DEFINE r == f.links[1]
             g == IF r.bare THEN [f EXCEPT !.pc = "signed"]
                  ELSE IF r.sigs = <<>> THEN Done(f, "Bogus")
                  ELSE Walk(f, r.sigs[1].keys[1], "rrset")
  <2>1. f.pc = "rrset" /\ Set(t, g)
    BY <1>4, Zenon DEF Rrset
  <2>2. FrameInv(g) /\ Less(g, f) /\ ~SaysUnsigned(g)
    BY <1>1, <2>1, RrsetInv, Zenon
  <2> HIDE DEF g
  <2> QED
    BY <2>1, <2>2, Zenon DEF Becomes
<1>5. ASSUME SignedCached(t) PROVE \E g : Becomes(t, g)
  <2> DEFINE n == f.links[1].owner
             g == IF Cached(n, "Signed") THEN Done(f, "Bogus")
                  ELSE IF \E c \in 0..n : Cached(c, "ProvenUnsigned")
                    THEN Done(f, "InsecureUnsigned")
                  ELSE [f EXCEPT !.pc = "apex", !.waited = 0]
  <2>1. f.pc = "signed" /\ Set(t, g)
    BY <1>5, Zenon DEF SignedCached
  <2>2. FrameInv(g) /\ Less(g, f) /\ (SaysUnsigned(g) => ProvenAbove(f.links[1].owner))
    BY <1>1, <2>1, SignedCachedInv, Zenon
  <2> HIDE DEF g
  <2> QED
    BY <2>1, <2>2, Zenon DEF Becomes
<1>6. ASSUME FindApex(t) PROVE \E g : Becomes(t, g)
  <2> DEFINE n == f.links[1].owner
             W(b, target) == Walk([f EXCEPT !.good = @ /\ b], target, "signed")
  <2>1. f.pc = "apex"
    BY <1>6, Zenon DEF FindApex
  <2>2. f \in Frame /\ f.good \in BOOLEAN /\ n \in Names /\ n \in Nat
    BY <1>1, <2>1, FramePending, ZonesAssumption DEF Active, Names
  <2>3. ASSUME NEW target \in Names, target <= n, NEW b \in BOOLEAN,
               b => target = Apex(n), Set(t, W(b, target))
        PROVE  \E g : Becomes(t, g)
    <3>1. FrameInv(W(b, target)) /\ Less(W(b, target), f) /\ ~SaysUnsigned(W(b, target))
      BY <1>1, <2>1, <2>3, FindApexInv, Zenon
    <3> QED
      BY <2>3, <3>1, Zenon DEF Becomes
  <2>4. \/ \E c \in 0..n : Set(t, W(c = n, Apex(c)))
        \/ Set(t, Walk([f EXCEPT !.good = FALSE], IF n = 0 THEN 0 ELSE n - 1, "signed"))
    BY <1>6, Zenon DEF FindApex
  <2>5. ASSUME NEW c \in 0..n, Set(t, W(c = n, Apex(c))) PROVE \E g : Becomes(t, g)
    <3>1. c \in Names
      BY <2>2, ZonesAssumption DEF Names
    <3>2. Apex(c) \in 0..c /\ Apex(c) \in Names
      BY <1>1, <3>1, ApexFacts, Zenon
    <3>3. Apex(c) <= n /\ (c = n => Apex(c) = Apex(n)) /\ (c = n) \in BOOLEAN
      BY <2>2, <3>2
    <3> HIDE DEF W
    <3> QED
      BY <2>3, <2>5, <3>2, <3>3, Zenon
  <2>6. ASSUME Set(t, Walk([f EXCEPT !.good = FALSE], IF n = 0 THEN 0 ELSE n - 1, "signed"))
        PROVE  \E g : Becomes(t, g)
    <3> DEFINE m == IF n = 0 THEN 0 ELSE n - 1
    <3>1. m \in Names /\ m <= n
      BY <2>2, ZonesAssumption DEF Names
    <3>2. [f EXCEPT !.good = @ /\ FALSE] = [f EXCEPT !.good = FALSE]
      BY <2>2, Zenon DEF Frame
    <3>3. Set(t, W(FALSE, m))
      BY <2>6, <3>2, Zenon
    <3> HIDE DEF m, W
    <3> QED
      BY <2>3, <3>1, <3>3, Zenon
  <2> QED
    BY <2>4, <2>5, <2>6, Zenon
<1>7. ASSUME WalkCached(t) PROVE \E g : Becomes(t, g)
  <2> DEFINE e == key_trust_cache[f.zone]
             g == IF e # NoEntry
                    THEN [f EXCEPT !.keys = <<f.zone, e.epoch>>, !.zone = @ + 1]
                  ELSE IF f.zone = 0 THEN [f EXCEPT !.pc = "dnskey", !.ds = 0, !.waited = 0]
                  ELSE [f EXCEPT !.pc = "ds", !.waited = 0]
  <2>1. f.pc = "walk" /\ f.zone <= f.target /\ Set(t, g)
    BY <1>7, Zenon DEF WalkCached
  <2>2. FrameInv(g) /\ Less(g, f) /\ ~SaysUnsigned(g)
    BY <1>1, <2>1, WalkCachedInv, Zenon
  <2> HIDE DEF g
  <2> QED
    BY <2>1, <2>2, Zenon DEF Becomes
<1>8. ASSUME FetchFails(t) PROVE \E g : Becomes(t, g)
  <2> DEFINE g == ChainBogus([f EXCEPT !.good = FALSE])
  <2>1. f.pc \in {"ds", "dnskey"} /\ Set(t, g)
    BY <1>8, Zenon DEF FetchFails
  <2>2. FrameInv(g) /\ Less(g, f) /\ ~SaysUnsigned(g)
    BY <1>1, <2>1, FetchFailsInv, Zenon
  <2> HIDE DEF g
  <2> QED
    BY <2>1, <2>2, Zenon DEF Becomes
<1> QED
  BY <1>2, <1>3, <1>4, <1>5, <1>6, <1>7, <1>8, Zenon

LEMMA WalkDoneStep ==
  ASSUME ValidatorInv, NEW t \in Tasks, NEW n \in 1..MaxTries, WalkDone(t, n)
  PROVE  UNCHANGED zones /\ CachesJustified /\ \E g : Becomes(t, g)
<1> DEFINE f == frames[t]
           g == CASE f.use = "rrset" -> RrsetTrusted(f, n)
                  [] f.use = "negative" -> NegativeTrusted(f, n)
                  [] f.use = "signed" -> Done(f, "Bogus")
           e == [signedness |-> "Signed", left |-> f.last_ttl]
<1>1. Typed /\ FrameInv(f) /\ n \in Nat
  BY FrameAt
<1>2. f.pc = "walk" /\ f.zone > f.target /\ Set(t, g) /\ UNCHANGED <<zones, key_trust_cache>>
  BY Zenon DEF WalkDone
<1>3. /\ FrameInv(g) /\ Less(g, f)
      /\ SaysUnsigned(g) => f.proof = "InsecureUnsigned"
  BY <1>1, <1>2, WalkDoneInv, Zenon
<1> HIDE DEF g
<1>4. \E x : Becomes(t, x)
  BY <1>2, <1>3, Zenon DEF Becomes
<1>5. CASE f.use # "signed"
  <2>1. signed_zone_cache' = signed_zone_cache
    BY <1>5, Zenon DEF WalkDone
  <2> QED
    BY <1>1, <1>2, <1>4, <2>1, CachesSame, Zenon DEF caches
<1>6. CASE f.use = "signed"
  <2>1. signed_zone_cache' = [signed_zone_cache EXCEPT ![f.target] = e]
    BY <1>6, Zenon DEF WalkDone
  <2>2. f.target \in Names /\ Formed(f)
    BY <1>1, <1>2, WalkEnd, Zenon
  <2>3. /\ e \in SignedEntries /\ e.signedness = "Signed" /\ e.left <= SignedTtl
    <3>1. f.last_ttl \in 1..SignedTtl /\ f.last_ttl \in 1..(DsTtl + SignedTtl)
      BY <2>2, Lifetimes DEF Formed
    <3> QED
      BY <3>1 DEF SignedEntries, Signed
  <2> HIDE DEF e
  <2>4. /\ key_trust_cache \in [Names -> KeyEntries]
        /\ signed_zone_cache \in [Names -> SignedEntries]
    BY <1>1, CachesTyped, Zenon
  <2> USE <2>4
  <2>5. signed_zone_cache' \in [Names -> SignedEntries]
    BY <2>1, <2>2, <2>3, Zenon
  <2>6. ASSUME NEW m \in Names
        PROVE  Justified(m, key_trust_cache'[m], signed_zone_cache'[m])
    <3> USE <1>2
    <3>1. CASE m # f.target
      <4>1. key_trust_cache'[m] = key_trust_cache[m] /\ signed_zone_cache'[m] = signed_zone_cache[m]
        BY <2>1, <3>1, Zenon
      <4> QED
        BY <4>1, Zenon DEF Justified
    <3>2. CASE m = f.target
      <4>1. key_trust_cache'[m] = key_trust_cache[m] /\ signed_zone_cache'[m] = e
        BY <2>1, <3>2, Zenon
      <4> QED
        BY <1>1, <2>3, <3>2, <4>1, EndJustified, Zenon DEF Justified
    <3> QED
      BY <3>1, <3>2, Zenon
  <2> QED
    BY <1>2, <1>4, <2>5, <2>6, Zenon DEF CachesJustified
<1> QED
  BY <1>5, <1>6, Zenon

LEMMA DsStep ==
  ASSUME ValidatorInv, NEW t \in Tasks, NEW n \in 1..MaxTries, Ds(t, n)
  PROVE  UNCHANGED zones /\ CachesJustified /\ \E g : Becomes(t, g)
<1> DEFINE f == frames[t]
           g == Spend(f, n)
           insecure == f.keys = KeysOf(Apex(f.zone - 1)) /\ CanCheck(f, n) /\ Kind(f.zone) \in Insecure
           h == IF f.keys # KeysOf(Apex(f.zone - 1)) THEN ChainBogus(f)
                ELSE IF ~CanCheck(f, n) THEN ChainBogus(g)
                ELSE IF insecure THEN ChainUnsigned(g)
                ELSE IF Kind(f.zone) = "none" THEN [g EXCEPT !.pc = "walk", !.zone = @ + 1, !.waited = 0]
                ELSE [g EXCEPT !.pc = "dnskey", !.ds = Epoch(f.zone), !.waited = 0]
<1>1. Typed /\ FrameInv(f) /\ n \in Nat
  BY FrameAt
<1>2. f.pc = "ds" /\ Set(t, h) /\ UNCHANGED <<zones, key_trust_cache>>
  BY Zenon DEF Ds
<1>3. /\ FrameInv(h) /\ Less(h, f)
      /\ SaysUnsigned(h) => ProvenAbove(f.links[1].owner)
  BY <1>1, <1>2, DsInv, Zenon
<1> HIDE DEF h
<1>4. \E x : Becomes(t, x)
  BY <1>2, <1>3, Zenon DEF Becomes
<1>5. signed_zone_cache' =
        IF insecure THEN [m \in Names |-> IF m \in ProvenNames(f) THEN ProvenUnsigned
                                          ELSE signed_zone_cache[m]]
        ELSE signed_zone_cache
  BY Zenon DEF Ds
<1>6. CASE ~insecure
  BY <1>1, <1>2, <1>4, <1>5, <1>6, CachesSame, Zenon DEF caches
<1>7. CASE insecure
  <2>1. f.zone \in 1..f.target /\ f.target \in Nat /\ Kind(f.zone) \in Insecure
    BY <1>1, <1>2, <1>7, WalkingFacts, Zenon DEF Walking
  <2>2. /\ key_trust_cache \in [Names -> KeyEntries]
        /\ signed_zone_cache \in [Names -> SignedEntries]
    BY <1>1, CachesTyped, Zenon
  <2>3. ProvenUnsigned \in SignedEntries
    BY Lifetimes DEF ProvenUnsigned, SignedEntries, Signed
  <2>4. \A m \in Names :
          /\ key_trust_cache'[m] = key_trust_cache[m]
          /\ signed_zone_cache'[m] = IF m \in ProvenNames(f) THEN ProvenUnsigned
                                     ELSE signed_zone_cache[m]
    BY <1>2, <1>5, <1>7, Zenon
  <2>5. signed_zone_cache' \in [Names -> SignedEntries]
    <3> HIDE DEF insecure
    <3> QED
      BY <1>5, <1>7, <2>2, <2>3, Zenon
  <2>6. ASSUME NEW m \in Names
        PROVE  Justified(m, key_trust_cache'[m], signed_zone_cache'[m])
    <3>1. CASE m \notin ProvenNames(f)
      BY <2>4, <3>1, Zenon DEF Justified
    <3>2. CASE m \in ProvenNames(f)
      <4>1. m = f.zone \/ m = f.target
        BY <3>2, Zenon DEF ProvenNames
      <4>2. f.zone \in 1..m
        BY <2>1, <4>1
      <4> QED
        BY <2>1, <2>4, <3>2, <4>2, Zenon DEF Justified
    <3> QED
      BY <3>1, <3>2, Zenon
  <2> QED
    BY <1>2, <1>4, <2>2, <2>5, <2>6, Zenon DEF CachesJustified
<1> QED
  BY <1>6, <1>7, Zenon

LEMMA DnskeyStep ==
  ASSUME ValidatorInv, NEW t \in Tasks, NEW n \in 1..MaxTries, Dnskey(t, n)
  PROVE  UNCHANGED zones /\ CachesJustified /\ \E g : Becomes(t, g)
<1> DEFINE f == frames[t]
           g == Spend(f, n)
           z == f.zone
           match == Kind(z) = "signed" /\ Epoch(z) = f.ds
           trusted == match /\ CanCheck(f, n)
           h == IF ~match THEN ChainBogus(f)
                ELSE IF ~trusted THEN ChainBogus(g)
                ELSE [g EXCEPT !.pc = "walk", !.keys = KeysOf(z), !.zone = z + 1,
                               !.ds = 0, !.last_ttl = KeysTtl(z), !.waited = 0]
           e == [epoch |-> f.ds, left |-> KeysTtl(z)]
<1>1. Typed /\ FrameInv(f) /\ n \in Nat
  BY FrameAt
<1>2. f.pc = "dnskey" /\ Set(t, h) /\ UNCHANGED <<zones, signed_zone_cache>>
  BY Zenon DEF Dnskey
<1>3. FrameInv(h) /\ Less(h, f) /\ ~SaysUnsigned(h)
  BY <1>1, <1>2, DnskeyInv, Zenon
<1> HIDE DEF h
<1>4. \E x : Becomes(t, x)
  BY <1>2, <1>3, Zenon DEF Becomes
<1>5. key_trust_cache' =
        IF trusted THEN [key_trust_cache EXCEPT ![z] = e] ELSE key_trust_cache
  BY Zenon DEF Dnskey
<1>6. CASE ~trusted
  BY <1>1, <1>2, <1>4, <1>5, <1>6, CachesSame, Zenon DEF caches
<1>7. CASE trusted
  <2>1. z \in Names /\ Kind(z) = "signed" /\ e = [epoch |-> Epoch(z), left |-> KeysTtl(z)]
    <3>1. z \in Names
      <4>1. z <= f.target /\ f.target \in Names /\ z \in Nat
        BY <1>1, <1>2, WalkingFacts, Zenon DEF Walking
      <4> QED
        BY <4>1, ZonesAssumption DEF Names
    <3> QED
      BY <1>7, <3>1, Zenon
  <2>2. /\ key_trust_cache \in [Names -> KeyEntries]
        /\ signed_zone_cache \in [Names -> SignedEntries]
    BY <1>1, CachesTyped, Zenon
  <2>3. e \in KeyEntries
    <3>1. Epoch(z) \in 0..MaxChanges /\ KeysTtl(z) \in 1..KeyTtl
      BY <1>1, <2>1, ZoneFacts, Lifetimes, Zenon
    <3> HIDE DEF e
    <3> QED
      BY <2>1, <3>1, Zenon DEF KeyEntries
  <2> HIDE DEF e, trusted
  <2> USE <2>2
  <2>4. key_trust_cache' \in [Names -> KeyEntries]
    BY <1>5, <1>7, <2>1, <2>3, Zenon
  <2>5. ASSUME NEW m \in Names
        PROVE  Justified(m, key_trust_cache'[m], signed_zone_cache'[m])
    <3>1. signed_zone_cache'[m] = signed_zone_cache[m]
      BY <1>2, Zenon
    <3>2. CASE m # z
      <4>1. key_trust_cache'[m] = key_trust_cache[m]
        BY <1>5, <1>7, <3>2, Zenon
      <4> QED
        BY <3>1, <4>1, Zenon DEF Justified
    <3>3. CASE m = z
      <4>1. key_trust_cache'[m] = e
        BY <1>5, <1>7, <3>3, Zenon
      <4> QED
        BY <2>1, <3>1, <3>3, <4>1, Zenon DEF Justified
    <3> QED
      BY <3>2, <3>3, Zenon
  <2> QED
    BY <1>2, <1>4, <2>4, <2>5, Zenon DEF CachesJustified
<1> QED
  BY <1>6, <1>7, Zenon

LEMMA StepFacts ==
  ASSUME ValidatorInv, NEW t \in Tasks, Step(t)
  PROVE  UNCHANGED zones /\ CachesJustified /\ \E g : Becomes(t, g)
<1>1. ASSUME NEW n \in 1..MaxTries, WalkDone(t, n) \/ Ds(t, n) \/ Dnskey(t, n)
      PROVE  UNCHANGED zones /\ CachesJustified /\ \E g : Becomes(t, g)
  BY <1>1, WalkDoneStep, DsStep, DnskeyStep, Zenon
<1> QED
  BY <1>1, SyncSteps, Zenon DEF Step

LEMMA StartFacts ==
  ASSUME ValidatorInv, NEW t \in Tasks, NEW m \in Messages[t], Start(t, m)
  PROVE  /\ UNCHANGED zones /\ UNCHANGED caches
         /\ \E g : Set(t, g) /\ FrameInv(g) /\ ~SaysUnsigned(g)
<1>1. Typed /\ m \in Message /\ (m.sort \in {"answer", "negative"} => m.links # <<>>)
  BY MessagesAssumption, Zenon DEF ValidatorInv
<1> QED
  BY <1>1, StartInv, Zenon DEF Start

(***************************************************************************)
(* Every step keeps the invariant.                                         *)
(***************************************************************************)
LEMMA StepInv ==
  ASSUME ValidatorInv, NEW t \in Tasks, Step(t)
  PROVE  ValidatorInv'
<1>1. UNCHANGED zones /\ CachesJustified
  BY StepFacts, Zenon
<1>2. PICK g : Set(t, g) /\ FrameInv(g)
  BY StepFacts, Zenon DEF Becomes
<1> QED
  BY <1>1, <1>2, FramesInv, SameZonesInv, Zenon

LEMMA StartsInv ==
  ASSUME ValidatorInv, NEW t \in Tasks, NEW m \in Messages[t], Start(t, m)
  PROVE  ValidatorInv'
<1>1. UNCHANGED zones /\ CachesJustified
  BY StartFacts, CachesSame, Zenon DEF ValidatorInv
<1>2. PICK g : Set(t, g) /\ FrameInv(g)
  BY StartFacts, Zenon
<1> QED
  BY <1>1, <1>2, FramesInv, SameZonesInv, Zenon

LEMMA ValidatorNextInv ==
  ASSUME ValidatorInv, [Next]_vars
  PROVE  ValidatorInv'
<1>1. ASSUME NEW t \in Tasks, Step(t) \/ \E m \in Messages[t] : Start(t, m)
      PROVE  ValidatorInv'
  BY <1>1, StepInv, StartsInv, Zenon
<1>2. ASSUME NEW z \in Zones, Change(z) \/ Elsewhere(z)
      PROVE  ValidatorInv'
  BY <1>2, ChangeInv, ElsewhereInv, Zenon
<1>3. CASE Tick
  BY <1>3, TickInv, Zenon
<1>4. CASE UNCHANGED vars
  <2>1. UNCHANGED zones /\ UNCHANGED caches /\ frames' = frames
    BY <1>4, Zenon DEF vars, zones, caches
  <2>2. CachesJustified
    BY <2>1, CachesSame, Zenon DEF ValidatorInv
  <2> QED
    BY <2>1, <2>2, FramesSame, SameZonesInv, Zenon
<1> QED
  BY <1>1, <1>2, <1>3, <1>4, Zenon DEF Next

(***************************************************************************)
(* What a step may do to the frame of validation t.                        *)
(***************************************************************************)
Untouched(t) ==
  /\ frames'[t].pc = frames[t].pc /\ frames'[t].zone = frames[t].zone
  /\ frames'[t].links = frames[t].links /\ frames'[t].todo = frames[t].todo

LEMMA FrameMoves ==
  ASSUME ValidatorInv, [Next]_vars, NEW t \in Tasks
  PROVE  \/ Untouched(t)
         \/ Step(t)
         \/ \E m \in Messages[t] : Start(t, m)
<1>1. Typed /\ frames \in [Tasks -> Frame] /\ frames[t] \in Frame
  BY Zenon DEF ValidatorInv, Typed, TypeOK
<1>2. ASSUME NEW u \in Tasks, u # t, NEW g, Set(u, g) PROVE Untouched(t)
  BY <1>1, <1>2, Zenon DEF Set, Untouched
<1>3. ASSUME NEW u \in Tasks, u # t, Step(u) PROVE Untouched(t)
  <2>1. PICK g : Set(u, g)
    BY <1>3, StepFacts, Zenon DEF Becomes
  <2> QED
    BY <1>2, <1>3, <2>1, Zenon
<1>4. ASSUME NEW u \in Tasks, u # t, NEW m \in Messages[u], Start(u, m) PROVE Untouched(t)
  <2>1. PICK g : Set(u, g)
    BY <1>4, StartFacts, Zenon
  <2> QED
    BY <1>2, <1>4, <2>1, Zenon
<1>5. ASSUME frames' = frames PROVE Untouched(t)
  BY <1>5, Zenon DEF Untouched
<1>6. ASSUME NEW z \in Zones, Change(z) PROVE Untouched(t)
  <2>1. PICK f \in Frame : f = frames[t]
    BY <1>1, Zenon
  <2>2. frames'[t] = [f EXCEPT !.good = FALSE]
    BY <1>6, <2>1, Zenon DEF Change
  <2> QED
    BY <2>1, <2>2, Zenon DEF Untouched, Frame
<1>7. ASSUME Tick PROVE Untouched(t)
  <2>1. PICK f \in Frame : f = frames[t]
    BY <1>1, Zenon
  <2>2. frames'[t] = [f EXCEPT !.waited = @ + 1] \/ frames'[t] = f
    BY <1>7, <2>1, Zenon DEF Tick
  <2> QED
    BY <2>1, <2>2, Zenon DEF Untouched, Frame
<1>8. (\E z \in Zones : Elsewhere(z)) \/ UNCHANGED vars => frames' = frames
  BY Zenon DEF Elsewhere, vars
<1> QED
  BY <1>3, <1>4, <1>5, <1>6, <1>7, <1>8, Zenon DEF Next

LEMMA SetFrame ==
  ASSUME ValidatorInv, NEW t \in Tasks, NEW g, Set(t, g)
  PROVE  frames'[t] = g
BY Zenon DEF ValidatorInv, Typed, TypeOK, Set

(***************************************************************************)
(* That natural numbers have least elements, and what rests on it.         *)
(***************************************************************************)
LOCAL INSTANCE WellFoundedInduction

LEMMA LeastNatural ==
  ASSUME NEW T, T \subseteq Nat, T # {}
  PROVE  \E x \in T : \A y \in T : x <= y
<1> DEFINE R == {p \in Nat \X Nat : p[1] < p[2]}
<1>1. IsWellFoundedOn(R, Nat)
  BY NatLessThanWellFounded, Zenon DEF OpToRel
<1>2. PICK x \in T : \A y \in T : ~(<<y, x>> \in R)
  BY <1>1, WFMin, Zenon
<1>3. \A y \in T : x <= y
  <2>1. SUFFICES ASSUME NEW y \in T, y < x PROVE FALSE
    OBVIOUS
  <2>2. <<y, x>> \in R
    BY <2>1, Zenon
  <2> QED
    BY <1>2, <2>2, Zenon
<1> QED
  BY <1>3, Zenon

LEMMA NatOrdered == Ordered
BY LeastNatural, Zenon DEF Ordered

(***************************************************************************)
(* The order of WorkShrinks has no infinite descent: the steps of a        *)
(* validation are finitely many, for every tree, message and budget.       *)
(***************************************************************************)
THEOREM ShrinkingEnds ==
  ASSUME NEW s \in [Nat -> {f \in Frame : f.links # <<>>}],
         \A n \in Nat : Less(s[n + 1], s[n])
  PROVE  FALSE
<1> DEFINE L(n) == Len(s[n].links)
           S(n) == Len(s[n].links[1].sigs)
           R(n) == Rank(s[n])
<1>1. ASSUME NEW n \in Nat
      PROVE  L(n) \in Nat /\ S(n) \in Nat /\ R(n) \in Int /\ n + 1 \in Nat
  <2>1. PICK f \in Frame : f = s[n] /\ f.links # <<>>
    BY Zenon
  <2> USE <2>1
  <2>2. f.links \in Seq(RRset) /\ R(n) \in Int
    BY FrameFields, RankIsInt, Zenon
  <2> USE <2>2
  <2>3. f.links[1] \in RRset
    OBVIOUS
  <2>4. f.links[1].sigs \in Seq(Sig)
    BY <2>3, Zenon DEF RRset
  <2>5. L(n) \in Nat
    OBVIOUS
  <2>6. S(n) \in Nat
    BY <2>4
  <2> HIDE DEF L, S, R
  <2> QED
    BY <2>5, <2>6
<1>2. ASSUME NEW n \in Nat
      PROVE  \/ L(n + 1) < L(n)
             \/ /\ L(n + 1) = L(n)
                /\ S(n + 1) < S(n) \/ (S(n + 1) = S(n) /\ R(n + 1) \in 0..R(n) - 1)
  BY Zenon DEF Less
<1> HIDE DEF L, S, R
<1>3. PICK a \in Nat : \A n \in Nat : L(a) <= L(n)
  <2> DEFINE T == {L(n) : n \in Nat}
  <2>1. T \subseteq Nat /\ T # {}
    BY <1>1, Zenon
  <2>2. PICK x \in T : \A y \in T : x <= y
    <3> HIDE DEF T
    <3> QED
      BY <2>1, LeastNatural, Zenon
  <2> QED
    BY <2>2, Zenon
<1> DEFINE A == {n \in Nat : L(n) = L(a)}
<1>4. a \in A /\ A \subseteq Nat
  BY Zenon
<1>5. ASSUME NEW n \in A
      PROVE  n + 1 \in A /\ (S(n + 1) < S(n) \/ (S(n + 1) = S(n) /\ R(n + 1) \in 0..R(n) - 1))
  <2>1. L(a) <= L(n + 1) /\ L(n) = L(a) /\ L(n + 1) \in Nat /\ L(n) \in Nat /\ n + 1 \in Nat
    BY <1>1, <1>3, Zenon
  <2>2. ~(L(n + 1) < L(n))
    BY <2>1
  <2>3. n \in Nat
    BY <1>4, Zenon
  <2> QED
    BY <1>2, <2>1, <2>2, <2>3, Zenon
<1> HIDE DEF A
<1>6. PICK b \in A : \A n \in A : S(b) <= S(n)
  <2> DEFINE T == {S(n) : n \in A}
  <2>1. T \subseteq Nat /\ T # {}
    BY <1>1, <1>4, Zenon
  <2>2. PICK x \in T : \A y \in T : x <= y
    <3> HIDE DEF T
    <3> QED
      BY <2>1, LeastNatural, Zenon
  <2> QED
    BY <2>2, Zenon
<1> DEFINE B == {n \in A : S(n) = S(b)}
<1>7. b \in B /\ B \subseteq Nat
  BY <1>4, Zenon
<1>8. ASSUME NEW n \in B
      PROVE  n + 1 \in B /\ R(n + 1) \in 0..R(n) - 1 /\ R(n) \in Int
  <2>1. n \in A /\ n \in Nat /\ n + 1 \in A
    BY <1>4, <1>5, Zenon
  <2>2. S(b) <= S(n + 1) /\ S(n) = S(b) /\ S(n + 1) \in Nat /\ S(n) \in Nat
    BY <1>1, <1>6, <2>1, Zenon
  <2>3. ~(S(n + 1) < S(n))
    BY <2>2
  <2> QED
    BY <1>1, <1>5, <2>1, <2>2, <2>3, Zenon
<1> HIDE DEF B
<1> DEFINE T == {R(n) : n \in B} \cap Nat
<1>9. ASSUME NEW n \in B PROVE R(n + 1) \in Nat /\ R(n + 1) < R(n) /\ R(n + 1) \in T
  <2>1. R(n + 1) \in 0..R(n) - 1 /\ R(n) \in Int /\ n + 1 \in B
    BY <1>8, Zenon
  <2>2. R(n + 1) \in Nat /\ R(n + 1) < R(n)
    BY <2>1
  <2> QED
    BY <2>1, <2>2, Zenon
<1>10. PICK x \in T : \A y \in T : x <= y
  <2>1. T \subseteq Nat /\ T # {}
    BY <1>7, <1>9, Zenon
  <2> HIDE DEF T
  <2> QED
    BY <2>1, LeastNatural, Zenon
<1>11. PICK n \in B : x = R(n) /\ R(n) \in Nat
  BY Zenon
<1>12. x <= R(n + 1) /\ R(n + 1) < x /\ R(n + 1) \in Nat /\ x \in Nat
  <2> HIDE DEF T
  <2> QED
    BY <1>9, <1>10, <1>11, Zenon
<1> QED
  BY <1>12

(***************************************************************************)
(* The properties of Validator.                                            *)
(***************************************************************************)
LEMMA ValidatorInductive == Spec => []ValidatorInv
<1>1. Init => ValidatorInv
  BY InitValidatorInv, NatOrdered, Zenon
<1>2. ValidatorInv /\ [Next]_vars => ValidatorInv'
  BY ValidatorNextInv, Zenon
<1> QED
  BY <1>1, <1>2, PTL DEF Spec

(***************************************************************************)
(* validate_message_with_budget and what it awaits keep to the types.      *)
(***************************************************************************)
THEOREM ValidatorTypeCorrect == Spec => []TypeOK
<1>1. ValidatorInv => TypeOK
  BY Zenon DEF ValidatorInv, Typed
<1> QED
  BY <1>1, ValidatorInductive, PTL

(***************************************************************************)
(* Secure is earned: validate_answer says so when every alias and the      *)
(* answer have been verified, and never once can_check_sig has refused.    *)
(***************************************************************************)
THEOREM SecureIsEarned == Spec => []VerdictEarned
<1>1. ValidatorInv => VerdictEarned
  BY Zenon DEF ValidatorInv, VerdictEarned, FrameInv, Shape
<1> QED
  BY <1>1, ValidatorInductive, PTL

(***************************************************************************)
(* What the zones really sent is Bogus only when the recursor failed, the  *)
(* budget ran out, or a zone changed less than the TTLs ago.               *)
(***************************************************************************)
THEOREM RolloversHeal == Spec => []RolloverHeals
<1>1. ValidatorInv => RolloverHeals
  BY Zenon DEF ValidatorInv, RolloverHeals, FrameInv, Deserving
<1> QED
  BY <1>1, ValidatorInductive, PTL

(***************************************************************************)
(* Every step of a validation leaves it less to do, in an order with no    *)
(* infinite descent: build_trust_chain and the loops over signatures and   *)
(* aliases end, whatever the recursor delivers.                            *)
(***************************************************************************)
THEOREM ValidationsShrink == Spec => WorkShrinks
<1>1. ASSUME ValidatorInv, [Next]_vars, NEW t \in Tasks,
             frames[t].pc \notin {"idle", "done"},
             <<frames[t].pc, frames[t].zone, frames[t].links>>
               # <<frames'[t].pc, frames'[t].zone, frames'[t].links>>
      PROVE  Less(frames'[t], frames[t])
  <2> USE <1>1
  <2>1. ~Untouched(t)
    BY Zenon DEF Untouched
  <2>2. ~\E m \in Messages[t] : Start(t, m)
    BY Zenon DEF Start
  <2>3. PICK g : Set(t, g) /\ Less(g, frames[t])
    BY <2>1, <2>2, FrameMoves, StepFacts, Zenon DEF Becomes
  <2>4. frames'[t] = g
    BY <2>3, SetFrame, Zenon
  <2> QED
    BY <2>3, <2>4, Zenon
<1>2. ValidatorInv /\ [Next]_vars =>
        \A t \in Tasks :
          LET f == frames[t]
              g == frames'[t]
          IN  f.pc \notin {"idle", "done"} /\ <<f.pc, f.zone, f.links>> # <<g.pc, g.zone, g.links>>
                => Less(g, f)
  BY <1>1, Zenon
<1> QED
  BY <1>2, ValidatorInductive, PTL DEF Spec, WorkShrinks

(***************************************************************************)
(* A signature is taken as good only with keys that its zone has, or had   *)
(* less than the TTL of its DS ago: key_trust_cache does not outlive the   *)
(* proof it rests on, however long the walk takes.                         *)
(***************************************************************************)
THEOREM SecureStaysFresh == Spec => SecureIsFresh
<1> DEFINE Fresh(k) ==
             \/ k = KeysOf(k[1]) /\ Kind(k[1]) = "signed"
             \/ /\ k[2] < Epoch(k[1])
                /\ LET e == past[k[1]][k[2] + 1]
                   IN  e.kind = "signed" /\ e.age < DsTtl
<1>1. ASSUME ValidatorInv, [Next]_vars, NEW t \in Tasks,
             frames[t].pc = "walk", frames'[t].todo < frames[t].todo
      PROVE  Fresh(frames[t].keys)
  <2>1. PICK f : f = frames[t]
    BY Zenon
  <2>2. Typed /\ FrameInv(f) /\ f \in Frame /\ f.pc = "walk" /\ f.todo \in Int
    <3>1. Typed /\ FrameInv(f) /\ f \in Frame /\ f.pc = "walk"
      BY <1>1, <2>1, Zenon DEF ValidatorInv, Typed, TypeOK
    <3> QED
      BY <3>1, FrameFields, Zenon
  <2>3. /\ f.target \in Nat /\ f.zone \in Nat
        /\ f.zone > 0 => f.keys \in Names \X Nat
    BY <2>2, WalkingFacts, Zenon DEF Walking
  <2>4. f.zone > 0
    <3>1. SUFFICES ASSUME f.zone = 0 PROVE FALSE
      BY <2>3
    <3> USE <1>1, <2>1, <2>2
    <3>2. ~Untouched(t)
      BY DEF Untouched
    <3>3. Step(t)
      BY <3>2, FrameMoves, Zenon DEF Start
    <3>4. ~(f.zone > f.target)
      BY <2>3, <3>1
    <3>5. WalkCached(t)
      BY <3>3, <3>4, Zenon DEF Step, Rrset, SignedCached, FindApex, WalkDone, Ds, Dnskey,
         FetchFails
    <3> DEFINE e == key_trust_cache[f.zone]
               g == IF e # NoEntry
                      THEN [f EXCEPT !.keys = <<f.zone, e.epoch>>, !.zone = @ + 1]
                    ELSE IF f.zone = 0 THEN [f EXCEPT !.pc = "dnskey", !.ds = 0, !.waited = 0]
                    ELSE [f EXCEPT !.pc = "ds", !.waited = 0]
    <3>6. Set(t, g)
      BY <3>5, Zenon DEF WalkCached
    <3>7. g.todo = f.todo
      BY Zenon DEF Frame
    <3> HIDE DEF g
    <3>8. frames'[t] = g
      BY <3>6, SetFrame, Zenon
    <3> QED
      BY <3>7, <3>8
  <2> DEFINE k == f.keys
  <2>5. /\ Keyed(k) /\ k \in Names \X Nat /\ k = <<k[1], k[2]>>
        /\ k[2] < Epoch(k[1]) => past[k[1]][k[2] + 1].age < DsTtl
    BY <2>2, <2>3, <2>4 DEF FrameInv, Trusts
  <2> USE <2>5
  <2>6. k[2] \in Nat /\ Epoch(k[1]) \in Nat
    BY <2>2, ZoneFacts
  <2> HIDE DEF k
  <2>7. k[2] = Epoch(k[1]) \/ k[2] < Epoch(k[1])
    BY <2>6 DEF Keyed
  <2>8. Fresh(k)
    BY <2>7, Zenon DEF Keyed, KeysOf
  <2> QED
    BY <2>1, <2>8, Zenon DEF k
<1>2. ValidatorInv /\ [Next]_vars =>
        \A t \in Tasks :
          frames[t].pc = "walk" /\ frames'[t].todo < frames[t].todo => Fresh(frames[t].keys)
  BY <1>1, Zenon
<1> QED
  BY <1>2, ValidatorInductive, PTL DEF Spec, SecureIsFresh

(***************************************************************************)
(* is_zone_signed and validate_rrset say InsecureUnsigned only below a     *)
(* zone that is provably unsigned, or was within the TTL of the proof.     *)
(***************************************************************************)
THEOREM UnsignedStaysProven == Spec => UnsignedIsProven
<1>1. ASSUME ValidatorInv, [Next]_vars, NEW t \in Tasks, Ends(t),
             frames'[t].verdict = "InsecureUnsigned", frames[t].proof # "InsecureUnsigned"
      PROVE  ProvenAbove(frames[t].links[1].owner)
  <2> USE <1>1
  <2>1. SaysUnsigned(frames'[t]) /\ ~Untouched(t)
    BY Zenon DEF Ends, SaysUnsigned, Untouched
  <2> USE <2>1
  <2>2. ASSUME NEW m \in Messages[t], Start(t, m) PROVE FALSE
    <3>1. PICK g : Set(t, g) /\ ~SaysUnsigned(g)
      BY <2>2, StartFacts, Zenon
    <3>2. frames'[t] = g
      BY <3>1, SetFrame, Zenon
    <3> QED
      BY <3>1, <3>2, Zenon
  <2>3. PICK g : Becomes(t, g)
    BY <2>2, FrameMoves, StepFacts, Zenon
  <2>4. frames'[t] = g
    BY <2>3, SetFrame, Zenon DEF Becomes
  <2> QED
    BY <2>3, <2>4, Zenon DEF Becomes
<1>2. ValidatorInv /\ [Next]_vars =>
        \A t \in Tasks :
          Ends(t) /\ frames'[t].verdict = "InsecureUnsigned" /\ frames[t].proof # "InsecureUnsigned"
            => ProvenAbove(frames[t].links[1].owner)
  BY <1>1, Zenon
<1> QED
  BY <1>2, ValidatorInductive, PTL DEF Spec, UnsignedIsProven, ProvenAbove

(***************************************************************************)
(* What a validation puts into key_trust_cache and signed_zone_cache is    *)
(* true of the zones when it does: what Elsewhere supposes of the others.  *)
(***************************************************************************)
THEOREM CachesGuaranteed == Spec => CacheGuarantee
<1> DEFINE Held(n) ==
             \/ /\ key_trust_cache'[n] \in {key_trust_cache[n], Aged(key_trust_cache[n])}
                /\ signed_zone_cache'[n] \in {signed_zone_cache[n], Aged(signed_zone_cache[n])}
             \/ Justified(n, key_trust_cache'[n], signed_zone_cache'[n])
<1>1. ASSUME ValidatorInv, [Next]_vars, caches' # caches, frames' # frames, NEW n \in Names
      PROVE  Held(n)
  <2> USE <1>1
  <2>1. ASSUME NEW t \in Tasks, Step(t) PROVE Held(n)
    BY <2>1, StepFacts, Zenon DEF CachesJustified
  <2>2. ASSUME NEW t \in Tasks, NEW m \in Messages[t], Start(t, m) PROVE FALSE
    BY <2>2, Zenon DEF Start
  <2>3. ASSUME NEW z \in Zones, Change(z) \/ Elsewhere(z) PROVE FALSE
    BY <2>3, Zenon DEF Change, Elsewhere
  <2>4. ASSUME Tick PROVE Held(n)
    BY <2>4, Zenon DEF Tick
  <2>5. ~UNCHANGED vars
    BY Zenon DEF vars
  <2> QED
    BY <2>1, <2>2, <2>3, <2>4, <2>5, ZenonT(20) DEF Next
<1>2. ValidatorInv /\ [Next]_vars =>
        (caches' # caches /\ frames' # frames => \A n \in Names : Held(n))
  BY <1>1, Zenon
<1> QED
  BY <1>2, ValidatorInductive, PTL DEF Spec, CacheGuarantee
=============================================================================
