--------------------------- MODULE ValidatorRely ----------------------------
(***************************************************************************)
(* The invariant of ValidatorFrames survives what a validation waits for   *)
(* and has to rely on: the answers to its queries, zones that change, time *)
(* that passes, and the caches that other validations write.               *)
(***************************************************************************)
EXTENDS ValidatorFrames

(***************************************************************************)
(* What the answer to a walk's query makes of its frame, and what the end  *)
(* of the walk does.                                                       *)
(***************************************************************************)
LEMMA DsInv ==
  ASSUME Typed, NEW f, FrameInv(f), f.pc = "ds", NEW n \in Nat
  PROVE  LET g == Spend(f, n)
             insecure == /\ f.keys = KeysOf(Apex(f.zone - 1)) /\ CanCheck(f, n)
                         /\ Kind(f.zone) \in Insecure
             h == IF f.keys # KeysOf(Apex(f.zone - 1)) THEN ChainBogus(f)
                  ELSE IF ~CanCheck(f, n) THEN ChainBogus(g)
                  ELSE IF insecure THEN ChainUnsigned(g)
                  ELSE IF Kind(f.zone) = "none"
                    THEN [g EXCEPT !.pc = "walk", !.zone = @ + 1, !.waited = 0]
                  ELSE [g EXCEPT !.pc = "dnskey", !.ds = Epoch(f.zone), !.waited = 0]
         IN  /\ FrameInv(h) /\ Less(h, f)
             /\ SaysUnsigned(h) => ProvenAbove(f.links[1].owner)
<1> DEFINE z == f.zone
           y == z + 1
           k == f.keys
           d == Epoch(z)
           g == Spend(f, n)
           a == [g EXCEPT !.pc = "walk", !.zone = y, !.waited = 0]
           b == [g EXCEPT !.pc = "dnskey", !.ds = d, !.waited = 0]
<1>1. Walking(f)
  BY Zenon DEF Walking
<1>2. /\ f \in Frame /\ Formed(f) /\ Pending(f) /\ Purposed(f, f.target, f.use)
      /\ f.links # <<>> /\ f.links[1].owner \in Names /\ f.last_ttl \in 1..SignedTtl
      /\ f.target \in Names /\ f.target \in Nat /\ f.target <= Depth
      /\ z \in 1..f.target /\ k \in Names \X Nat /\ k[1] < z /\ k[1] \in Nat
      /\ f.good => /\ Settled /\ Honest(f) /\ SecureAbove(z - 1)
                   /\ k = KeysOf(Apex(z - 1))
  <2>1. f.zone \in 1..f.target /\ f.target \in Nat
    BY <1>1, WalkingFacts, Zenon
  <2>2. f.zone > 0
    BY <2>1
  <2> QED
    BY <1>1, <2>1, <2>2, WalkingFacts, Zenon DEF Formed
<1>3. /\ z \in Zones /\ z \in Names /\ z - 1 \in Names
      /\ z \in Nat /\ z > 0 /\ y \in 0..Depth + 1 /\ y > z /\ y - 1 = z /\ y > 0 /\ y <= f.target + 1
  BY <1>2, ZonesAssumption, SMTT(30) DEF Names, Zones
<1>4. /\ g \in Frame /\ g.refused = (f.refused \/ ~CanCheck(f, n)) /\ g.pc = f.pc
      /\ g.links = f.links /\ g.bare = f.bare /\ g.wildcard = f.wildcard
      /\ g.proof = f.proof /\ g.use = f.use /\ g.any_trusted = f.any_trusted
      /\ g.target = f.target /\ g.zone = f.zone /\ g.keys = f.keys
      /\ g.last_ttl = f.last_ttl /\ g.good = f.good /\ g.todo = f.todo
  BY <1>2, SpendFields, Zenon
<1>5. d \in 0..MaxChanges /\ d \in Nat /\ 0 \in 0..MaxFetch
  BY <1>3, ZoneFacts, BoundsAssumption
<1> HIDE DEF g
<1>6. g.zone + 1 = y
  BY <1>4, Zenon
<1> HIDE DEF z, y, k, d
<1>7. CASE k # KeysOf(Apex(z - 1))
  <2>1. ~f.good
    BY <1>2, <1>7, Zenon
  <2>2. FrameInv(ChainBogus(f)) /\ Less(ChainBogus(f), f) /\ ~SaysUnsigned(ChainBogus(f))
    BY <1>2, <2>1, ChainBogusInv, Zenon
  <2> QED
    BY <1>7, <2>2, Zenon DEF z, k
<1>8. CASE k = KeysOf(Apex(z - 1)) /\ ~CanCheck(f, n)
  <2> USE <1>4
  <2>1. g.refused
    BY <1>8, Zenon
  <2>2. FrameInv(ChainBogus(g)) /\ Less(ChainBogus(g), g) /\ ~SaysUnsigned(ChainBogus(g))
    BY <1>2, <2>1, ChainBogusInv, Zenon
  <2>3. Less(ChainBogus(g), f)
    BY <2>2, LessSame, Zenon
  <2> QED
    BY <1>8, <2>2, <2>3, Zenon DEF z, k, g
<1>9. CASE k = KeysOf(Apex(z - 1)) /\ CanCheck(f, n) /\ Kind(z) \in Insecure
  <2> USE <1>2
  <2>1. Formed(g) /\ Pending(g) /\ Purposed(g, g.target, g.use)
    BY <1>4, <1>9, Zenon DEF Formed, Pending, Purposed
  <2>2. g.good => Honest(g)
    BY <1>4, Zenon DEF Honest
  <2>3. FrameInv(ChainUnsigned(g)) /\ Less(ChainUnsigned(g), g)
    BY <1>4, <1>9, <2>1, <2>2, ChainUnsignedInv, Zenon
  <2>4. Less(ChainUnsigned(g), f)
    BY <1>4, <2>3, LessSame, Zenon
  <2>5. ProvenAbove(f.links[1].owner)
    <3>1. z \in 1..f.links[1].owner /\ kind[z] \in Insecure
      <4>1. f.target <= f.links[1].owner /\ f.links[1].owner \in Nat
        BY ZonesAssumption DEF Purposed, Names
      <4>2. kind[z] \in Insecure
        BY <1>3, <1>9, PastFacts, Zenon
      <4> QED
        BY <4>1, <4>2
    <3> QED
      BY <3>1, Zenon DEF ProvenAbove
  <2> QED
    BY <1>9, <2>3, <2>4, <2>5, Zenon DEF z, k, g
<1>10. CASE k = KeysOf(Apex(z - 1)) /\ CanCheck(f, n) /\ Kind(z) = "none"
  <2>1. /\ a \in Frame /\ a.pc = "walk" /\ a.last_ttl = g.last_ttl /\ a.zone = y
        /\ a.keys = g.keys /\ Continues(g, a)
    <3>1. g \in Frame /\ y \in 0..Depth + 1 /\ 0 \in 0..MaxFetch
      BY <1>3, <1>4, <1>5, Zenon
    <3>2. a \in Frame /\ a.pc = "walk" /\ a.last_ttl = g.last_ttl /\ a.zone = y /\ a.keys = g.keys
      BY <3>1, Zenon DEF Frame
    <3>3. Continues(g, a)
      BY <3>1, Zenon DEF Frame, Continues
    <3> QED
      BY <3>2, <3>3, Zenon
  <2>2. a = [g EXCEPT !.pc = "walk", !.zone = @ + 1, !.waited = 0]
    BY <1>4, <1>6, Zenon DEF Frame
  <2> HIDE DEF a
  <2>3. Continues(f, a) /\ a.keys = k /\ a.last_ttl = f.last_ttl /\ Walking(a)
    <3>1. Continues(f, g)
      BY <1>2, <1>4, <1>10, FrameFields, Zenon DEF Continues
    <3> QED
      BY <1>4, <2>1, <3>1, Zenon DEF Continues, Walking, k
  <2>4. k[1] = Apex(z - 1) /\ k[2] = Epoch(k[1])
    BY <1>10, Zenon DEF KeysOf
  <2>5. Trusts(a)
    <3> USE <1>3
    <3>1. Keyed(k)
      BY Zenon DEF FrameInv, Trusts, k, z
    <3>2. ~(k[2] < Epoch(k[1]))
      BY <1>2, <2>4, ZoneFacts
    <3>3. \A x \in (k[1] + 1)..z : Kind(x) = "none"
      <4>1. \A x \in (k[1] + 1)..(z - 1) : Kind(x) = "none"
        BY <2>4, ApexFacts, Zenon
      <4> QED
        BY <1>2, <1>10, <4>1
    <3> QED
      BY <2>1, <2>3, <3>1, <3>2, <3>3, Zenon DEF Trusts
  <2>6. f.good => SecureAbove(z) /\ k = KeysOf(Apex(z))
    <3> USE <1>10
    <3>1. Apex(z) = Apex(z - 1)
      BY <1>3, ApexBelow, Zenon
    <3>2. f.good => SecureAbove(z)
      BY <1>2, <1>3 DEF SecureAbove
    <3> QED
      BY <3>1, <3>2, Zenon
  <2>7. a.zone <= a.target + 1 /\ a.zone > f.zone /\ a.keys[1] < a.zone
    BY <1>2, <1>3, <2>1, <2>3 DEF z, Continues
  <2>8. OnPath(a)
    BY <1>2, <1>3, <2>1, <2>3, <2>5, <2>6, <2>7, Zenon DEF OnPath, Continues
  <2>9. FrameInv(a) /\ Less(a, f) /\ ~SaysUnsigned(a)
    BY <1>1, <2>1, <2>3, <2>7, <2>8, GoesOnInv, Zenon DEF Further
  <2> QED
    BY <1>10, <2>2, <2>9, Zenon DEF z, k, g, Insecure
<1>11. CASE k = KeysOf(Apex(z - 1)) /\ CanCheck(f, n) /\ Kind(z) \notin Insecure \cup {"none"}
  <2>1. /\ b \in Frame /\ b.pc = "dnskey" /\ b.last_ttl = g.last_ttl /\ b.zone = g.zone
        /\ b.keys = g.keys /\ b.ds = d /\ Continues(g, b)
    <3>1. g \in Frame /\ d \in Nat /\ 0 \in 0..MaxFetch
      BY <1>4, <1>5, Zenon
    <3>2. /\ b \in Frame /\ b.pc = "dnskey" /\ b.last_ttl = g.last_ttl
          /\ b.zone = g.zone /\ b.keys = g.keys /\ b.ds = d
      BY <3>1, Zenon DEF Frame
    <3>3. Continues(g, b)
      BY <3>1, Zenon DEF Frame, Continues
    <3> QED
      BY <3>2, <3>3, Zenon
  <2> HIDE DEF b
  <2> USE <2>1
  <2>2. Continues(f, b) /\ b.keys = k /\ b.zone = z /\ b.last_ttl = f.last_ttl
    <3>1. Continues(f, g)
      BY <1>2, <1>4, <1>11, FrameFields, Zenon DEF Continues
    <3> QED
      BY <1>4, <3>1, Zenon DEF Continues, k, z
  <2>3. Walking(b) /\ Trusts(b)
    BY Zenon DEF Walking, Trusts
  <2>4. Kind(z) = "signed"
    BY <1>3, <1>11, ZoneFacts, Zenon DEF ZoneKind, Insecure
  <2> USE <2>2
  <2>5. b.zone <= b.target + 1 /\ b.zone <= b.target /\ b.zone # 0 /\ b.keys[1] < b.zone
    BY <1>2, <1>3 DEF Continues
  <2>6. OnPath(b)
    BY <1>2, <2>3, <2>4, <2>5, Zenon DEF OnPath, Continues, d
  <2>7. Further(f, b)
    BY Zenon DEF Further, z
  <2>8. FrameInv(b) /\ Less(b, f) /\ ~SaysUnsigned(b)
    BY <1>1, <2>6, <2>7, GoesOnInv, Zenon
  <2> QED
    BY <1>11, <2>8, Zenon DEF z, k, g, b, d
<1> QED
  BY <1>7, <1>8, <1>9, <1>10, <1>11, Zenon

LEMMA DnskeyInv ==
  ASSUME Typed, NEW f, FrameInv(f), f.pc = "dnskey", NEW n \in Nat
  PROVE  LET g == Spend(f, n)
             z == f.zone
             match == Kind(z) = "signed" /\ Epoch(z) = f.ds
             trusted == match /\ CanCheck(f, n)
             h == IF ~match THEN ChainBogus(f)
                  ELSE IF ~trusted THEN ChainBogus(g)
                  ELSE [g EXCEPT !.pc = "walk", !.keys = KeysOf(z), !.zone = z + 1,
                                 !.ds = 0, !.last_ttl = KeysTtl(z), !.waited = 0]
         IN  FrameInv(h) /\ Less(h, f) /\ ~SaysUnsigned(h)
<1> DEFINE z == f.zone
           y == z + 1
           k == KeysOf(z)
           l == KeysTtl(z)
           g == Spend(f, n)
           a == [g EXCEPT !.pc = "walk", !.keys = k, !.zone = y,
                          !.ds = 0, !.last_ttl = l, !.waited = 0]
<1>1. Walking(f)
  BY Zenon DEF Walking
<1>2. /\ f \in Frame /\ Formed(f) /\ Pending(f) /\ f.links # <<>>
      /\ f.target \in Names /\ f.target \in Nat /\ f.target <= Depth
      /\ z \in Nat /\ z <= f.target
      /\ f.good => /\ Settled /\ Honest(f) /\ SecureAbove(z - 1)
                   /\ Kind(z) = "signed" /\ f.ds = Epoch(z)
  BY <1>1, WalkingFacts, Zenon
<1>3. /\ z \in Names /\ y \in 0..Depth + 1 /\ y > z /\ y - 1 = z /\ y > 0
      /\ y <= f.target + 1 /\ Depth \in Nat
  BY <1>2, ZonesAssumption DEF Names
<1>4. /\ g \in Frame /\ g.refused = (f.refused \/ ~CanCheck(f, n)) /\ g.pc = f.pc
      /\ g.links = f.links /\ g.bare = f.bare /\ g.wildcard = f.wildcard
      /\ g.proof = f.proof /\ g.use = f.use /\ g.any_trusted = f.any_trusted
      /\ g.target = f.target /\ g.zone = f.zone /\ g.keys = f.keys
      /\ g.last_ttl = f.last_ttl /\ g.good = f.good /\ g.todo = f.todo
  BY <1>2, SpendFields, Zenon
<1>5. /\ k \in Names \X Nat /\ k[1] = z /\ k[2] = Epoch(z) /\ Epoch(z) \in Nat
      /\ 0 \in 0..MaxFetch /\ l \in Nat /\ l \in 1..SignedTtl
  BY <1>3, ZoneFacts, Lifetimes, BoundsAssumption DEF KeysOf
<1> HIDE DEF g
<1>6. CASE ~(Kind(z) = "signed" /\ Epoch(z) = f.ds)
  <2>1. ~f.good
    BY <1>2, <1>6, Zenon
  <2>2. FrameInv(ChainBogus(f)) /\ Less(ChainBogus(f), f) /\ ~SaysUnsigned(ChainBogus(f))
    BY <1>2, <2>1, ChainBogusInv, Zenon
  <2> QED
    BY <1>6, <2>2, Zenon
<1>7. CASE Kind(z) = "signed" /\ Epoch(z) = f.ds /\ ~CanCheck(f, n)
  <2> USE <1>4
  <2>1. g.refused
    BY <1>7, Zenon
  <2>2. FrameInv(ChainBogus(g)) /\ Less(ChainBogus(g), g) /\ ~SaysUnsigned(ChainBogus(g))
    BY <1>2, <2>1, ChainBogusInv, Zenon
  <2>3. Less(ChainBogus(g), f)
    BY <2>2, LessSame, Zenon
  <2> QED
    BY <1>7, <2>2, <2>3, Zenon DEF g
<1>8. CASE Kind(z) = "signed" /\ Epoch(z) = f.ds /\ CanCheck(f, n)
  <2> HIDE DEF k, l, z, y
  <2>1. /\ a \in Frame /\ a.pc = "walk" /\ a.last_ttl = l /\ a.zone = y /\ a.keys = k
        /\ Continues(g, a)
    <3>1. /\ g \in Frame /\ y \in 0..Depth + 1 /\ k \in Names \X Nat /\ l \in Nat
          /\ 0 \in 0..MaxFetch /\ 0 \in Nat
      BY <1>3, <1>4, <1>5, Zenon
    <3>2. a \in Frame /\ a.pc = "walk" /\ a.last_ttl = l /\ a.zone = y /\ a.keys = k
      BY <3>1, Zenon DEF Frame
    <3>3. Continues(g, a)
      BY <3>1, Zenon DEF Frame, Continues
    <3> QED
      BY <3>2, <3>3, Zenon
  <2> HIDE DEF a
  <2> USE <2>1
  <2>2. Continues(f, a)
    <3>1. Continues(f, g)
      BY <1>2, <1>4, <1>8, FrameFields, Zenon DEF Continues
    <3> QED
      BY <3>1, Zenon DEF Continues
  <2>3. Trusts(a) /\ Walking(a)
    <3>1. Keyed(k) /\ ~(k[2] < Epoch(k[1]))
      BY <1>5, <1>8 DEF Keyed
    <3>2. (a.keys[1] + 1)..(a.zone - 1) = {}
      BY <1>2, <1>3, <1>5
    <3> QED
      BY <3>1, <3>2, Zenon DEF Trusts, Walking
  <2>4. f.good => SecureAbove(z) /\ k = KeysOf(Apex(z))
    <3>1. Apex(z) = z
      BY <1>3, <1>8, ApexBelow, Zenon
    <3>2. f.good => SecureAbove(z)
      BY <1>2, <1>3, <1>8 DEF SecureAbove
    <3> QED
      BY <3>1, <3>2, Zenon DEF k
  <2> USE <2>2
  <2>5. a.zone <= a.target + 1 /\ a.zone > f.zone /\ a.keys[1] < a.zone
    BY <1>2, <1>3, <1>5, Zenon DEF z, Continues
  <2>6. OnPath(a)
    BY <1>3, <1>5, <2>3, <2>4, <2>5, Zenon DEF OnPath, Continues
  <2>7. FrameInv(a) /\ Less(a, f) /\ ~SaysUnsigned(a)
    BY <1>1, <2>5, <2>6, GoesOnInv, Zenon DEF Further
  <2> QED
    BY <1>8, <2>7, Zenon DEF z, y, k, l, g, a
<1> QED
  BY <1>6, <1>7, <1>8, Zenon

LEMMA FetchFailsInv ==
  ASSUME NEW f, FrameInv(f), f.pc \in {"ds", "dnskey"}
  PROVE  LET g == ChainBogus([f EXCEPT !.good = FALSE])
         IN  FrameInv(g) /\ Less(g, f) /\ ~SaysUnsigned(g)
<1> DEFINE h == [f EXCEPT !.good = FALSE]
<1>1. f \in Frame /\ f.links # <<>>
  BY WalkingFacts, Zenon DEF Walking
<1>2. /\ h \in Frame /\ h.links = f.links /\ h.pc = f.pc /\ h.target = f.target
      /\ h.zone = f.zone /\ ~h.good
  BY <1>1, Zenon DEF Frame
<1> HIDE DEF h
<1>3. FrameInv(ChainBogus(h)) /\ Less(ChainBogus(h), h) /\ ~SaysUnsigned(ChainBogus(h))
  BY <1>1, <1>2, ChainBogusInv, Zenon
<1>4. Less(ChainBogus(h), f)
  BY <1>2, <1>3, LessSame, Zenon
<1> QED
  BY <1>3, <1>4, Zenon DEF h

LEMMA WalkDoneInv ==
  ASSUME Typed, NEW f, FrameInv(f), f.pc = "walk", f.zone > f.target, NEW n \in Nat
  PROVE  LET g == CASE f.use = "rrset" -> RrsetTrusted(f, n)
                    [] f.use = "negative" -> NegativeTrusted(f, n)
                    [] f.use = "signed" -> Done(f, "Bogus")
         IN  /\ FrameInv(g) /\ Less(g, f)
             /\ SaysUnsigned(g) => f.proof = "InsecureUnsigned"
<1>1. CASE f.use = "rrset"
  BY <1>1, RrsetTrustedInv, Zenon
<1>2. CASE f.use = "negative"
  BY <1>2, NegativeTrustedInv, Zenon
<1>3. CASE f.use = "signed"
  <2>1. /\ f \in Frame /\ Pending(f) /\ f.links # <<>> /\ f.links[1] \in RRset
        /\ f.links[1].bare
        /\ f.good => /\ Settled /\ f.target = Apex(f.links[1].owner)
                     /\ Kind(Apex(f.target)) = "signed" /\ Genuine(f.links[1])
    BY <1>3, WalkEnd, Zenon DEF Purposed, Promising, Honest
  <2> USE <2>1
  <2>2. f.links[1].owner \in Names
    BY Zenon DEF RRset
  <2>3. ~f.good
    BY <2>2, ApexBelow, Zenon DEF Genuine
  <2>4. /\ f.refused \in BOOLEAN /\ ~f.refused /\ f.good \in BOOLEAN /\ f.todo \in Int
        /\ "Bogus" \in DnssecStatus
    BY FrameFields, Zenon DEF Pending, DnssecStatus
  <2>5. FrameInv(Done(f, "Bogus"))
    BY <2>3, <2>4, DoneInv
  <2>6. Less(Done(f, "Bogus"), f) /\ ~SaysUnsigned(Done(f, "Bogus"))
    BY <2>4, DoneLess
  <2> QED
    BY <1>3, <2>5, <2>6, Zenon
<1>4. f.use \in {"rrset", "signed", "negative"}
  BY WalkEnd, FrameFields, Zenon
<1> QED
  BY <1>1, <1>2, <1>3, <1>4, Zenon

(***************************************************************************)
(* Steps that leave the zones as they are.                                 *)
(***************************************************************************)
LEMMA ZonesSame ==
  ASSUME UNCHANGED zones
  PROVE  /\ kind' = kind /\ past' = past
         /\ \A n : Kind(n)' = Kind(n) /\ Epoch(n)' = Epoch(n)
         /\ \A n : Apex(n)' = Apex(n)
<1>1. kind' = kind /\ past' = past
  BY Zenon DEF zones
<1> USE <1>1
<1>2. \A n : Kind(n)' = Kind(n) /\ Epoch(n)' = Epoch(n)
  BY Zenon DEF Kind, Epoch
<1>3. \A n : Apex(n)' = Apex(n)
  BY Zenon DEF Apex, Kind
<1> QED
  BY <1>2, <1>3, Zenon

LEMMA FrameSame ==
  ASSUME UNCHANGED zones, NEW f, FrameInv(f)
  PROVE  FrameInv(f)'
<1>1. Shape(f)'
  BY Zenon DEF FrameInv
<1>2. Trusts(f)'
  BY ZonesSame, Zenon DEF FrameInv, Trusts, Keyed
<1>3. Settled' = Settled
  BY ZonesSame, Zenon DEF Settled
<1>4. \A n : SecureAbove(n)' = SecureAbove(n)
  BY ZonesSame, Zenon DEF SecureAbove
<1>5. \A n : KeysOf(n)' = KeysOf(n)
  BY ZonesSame, Zenon DEF KeysOf
<1>6. \A r : Genuine(r)' = Genuine(r)
  BY ZonesSame, Zenon DEF Genuine, KeysOf, Kind, Epoch
<1>7. Honest(f)' = Honest(f) /\ \A t, u : Promising(f, t, u)' = Promising(f, t, u)
  BY <1>3, <1>4, <1>6, ZonesSame, Zenon DEF Honest, Promising
<1>8. Deserving(f)'
  BY <1>3, <1>4, <1>5, <1>7, ZonesSame, Zenon DEF FrameInv, Deserving
<1> QED
  BY <1>1, <1>2, <1>8, Zenon DEF FrameInv

KeyEntries == [epoch : 0..MaxChanges, left : 1..KeyTtl] \cup {NoEntry}
SignedEntries == [signedness : Signed, left : 1..(DsTtl + SignedTtl)] \cup {NoEntry}

\* What Justified allows to be cached keeps the caches true.
LEMMA JustifiedInv ==
  ASSUME Typed, UNCHANGED zones, NEW n \in Names, KeysCached(n), SignednessCached(n),
         key_trust_cache'[n] \in KeyEntries, signed_zone_cache'[n] \in SignedEntries,
         Justified(n, key_trust_cache'[n], signed_zone_cache'[n])
  PROVE  KeysCached(n)' /\ SignednessCached(n)'
<1>1. KeysCached(n)'
  <2>1. CASE key_trust_cache'[n] = key_trust_cache[n]
    BY <2>1, ZonesSame, Zenon DEF KeysCached, Keyed
  <2>2. CASE key_trust_cache'[n] # key_trust_cache[n]
    <3> DEFINE e == key_trust_cache'[n]
    <3>1. Kind(n) = "signed" /\ e = [epoch |-> Epoch(n), left |-> KeysTtl(n)]
      BY <2>2, Zenon DEF Justified
    <3>2. e.epoch = Epoch(n) /\ e.left = KeysTtl(n)
      BY <3>1
    <3>3. Epoch(n) \in Nat /\ KeysTtl(n) \in Nat
      BY ZoneFacts, Lifetimes
    <3> QED
      BY <3>1, <3>2, <3>3, ZonesSame DEF KeysCached, Keyed
  <2> QED
    BY <2>1, <2>2, Zenon
<1>2. SignednessCached(n)'
  <2>1. SignedAt(n)' = SignedAt(n)
    BY ZonesSame, Zenon DEF SignedAt
  <2> DEFINE e == signed_zone_cache'[n]
  <2>2. CASE e = signed_zone_cache[n]
    BY <2>1, <2>2, ZonesSame, Zenon DEF SignednessCached
  <2>3. CASE e # signed_zone_cache[n] /\ e = ProvenUnsigned /\ \E y \in 1..n : Kind(y) \in Insecure
    <3>1. e.signedness = "ProvenUnsigned" /\ e.left = DsTtl /\ DsTtl \in Nat
      BY <2>3, Lifetimes DEF ProvenUnsigned
    <3> QED
      BY <2>3, <3>1, ZonesSame DEF SignednessCached
  <2>4. CASE /\ e # signed_zone_cache[n]
             /\ e.signedness = "Signed" /\ e.left <= SignedTtl
             /\ \/ Kind(Apex(n)) = "signed"
                \/ \E y \in 1..n : \E i \in 1..Len(past[y]) : past[y][i].age < DsTtl
    <3> USE <2>4
    <3>1. ASSUME Kind(Apex(n)) = "signed" PROVE SignednessCached(n)'
      BY <2>1, <3>1, SignedApex, Zenon DEF SignednessCached
    <3>2. ASSUME NEW y \in 1..n, NEW i \in 1..Len(past[y]), past[y][i].age < DsTtl
          PROVE  SignednessCached(n)'
      <4> DEFINE a == past[y][i].age
                 l == e.left
      <4>1. e # NoEntry => l \in Nat /\ l <= SignedTtl
        BY DEF SignedEntries
      <4>2. y \in Zones
        BY ZonesAssumption DEF Names, Zones
      <4>3. a \in Nat /\ a < DsTtl /\ SignedTtl \in Nat /\ DsTtl \in Nat
        BY <3>2, <4>2, PastFacts, Lifetimes
      <4> HIDE DEF a, l
      <4>4. e # NoEntry => a + l < DsTtl + SignedTtl
        BY <4>1, <4>3
      <4>5. e # NoEntry => past'[y][i].age + e.left < DsTtl + SignedTtl /\ i \in 1..Len(past'[y])
        BY <4>4, ZonesSame, Zenon DEF a, l
      <4> QED
        BY <4>5, Zenon DEF SignednessCached
    <3> QED
      BY <3>1, <3>2, Zenon
  <2> QED
    BY <2>2, <2>3, <2>4, Zenon DEF Justified
<1> QED
  BY <1>1, <1>2, Zenon

LEMMA FramesSame ==
  ASSUME ValidatorInv, UNCHANGED zones, frames' = frames
  PROVE  frames' \in [Tasks -> Frame] /\ \A u \in Tasks : FrameInv(frames[u])'
<1>1. frames' \in [Tasks -> Frame]
  BY Zenon DEF ValidatorInv, Typed, TypeOK
<1>2. ASSUME NEW u \in Tasks PROVE FrameInv(frames[u])'
  <2>1. PICK x : x = frames[u]
    BY Zenon
  <2>2. FrameInv(x)'
    BY <2>1, FrameSame, Zenon DEF ValidatorInv
  <2> QED
    BY <2>1, <2>2, Zenon
<1> QED
  BY <1>1, <1>2, Zenon

CachesJustified ==
  /\ key_trust_cache' \in [Names -> KeyEntries]
  /\ signed_zone_cache' \in [Names -> SignedEntries]
  /\ \A n \in Names : Justified(n, key_trust_cache'[n], signed_zone_cache'[n])

LEMMA CachesTyped ==
  ASSUME Typed
  PROVE  /\ key_trust_cache \in [Names -> KeyEntries]
         /\ signed_zone_cache \in [Names -> SignedEntries]
BY Zenon DEF Typed, TypeOK, KeyEntries, SignedEntries

LEMMA SameZonesInv ==
  ASSUME ValidatorInv, UNCHANGED zones, CachesJustified,
         frames' \in [Tasks -> Frame], \A u \in Tasks : FrameInv(frames[u])'
  PROVE  ValidatorInv'
<1>1. Typed /\ \A n \in Names : KeysCached(n) /\ SignednessCached(n)
  BY Zenon DEF ValidatorInv
<1>2. Typed'
  BY <1>1, ZonesSame, Zenon DEF Typed, TypeOK, CachesJustified, KeyEntries, SignedEntries
<1>3. ASSUME NEW n \in Names PROVE KeysCached(n)' /\ SignednessCached(n)'
  <2>1. /\ key_trust_cache'[n] \in KeyEntries /\ signed_zone_cache'[n] \in SignedEntries
        /\ Justified(n, key_trust_cache'[n], signed_zone_cache'[n])
    BY Zenon DEF CachesJustified
  <2> QED
    BY <1>1, <2>1, JustifiedInv, Zenon
<1> QED
  BY <1>2, <1>3, Zenon DEF ValidatorInv

(***************************************************************************)
(* The invariant holds at first, and the steps of the others keep it.      *)
(***************************************************************************)
LEMMA InitValidatorInv ==
  ASSUME Ordered, Init
  PROVE  ValidatorInv
<1>1. Typed
  <2>1. kind \in [Zones -> ZoneKind] /\ \A z \in Zones : kind[z] \in Kinds[z]
    BY Zenon DEF Init
  <2>2. past \in [Zones -> Seq([kind : ZoneKind, age : 0..Horizon])]
        /\ \A z \in Zones : Len(past[z]) <= MaxChanges
    BY BoundsAssumption DEF Init
  <2>3. /\ key_trust_cache \in [Names -> KeyEntries]
        /\ signed_zone_cache \in [Names -> SignedEntries]
    BY Zenon DEF Init, KeyEntries, SignedEntries
  <2>4. frames \in [Tasks -> Frame]
    BY IdleFormed, Zenon DEF Init
  <2> QED
    BY <2>1, <2>2, <2>3, <2>4, Zenon DEF Typed, TypeOK, KeyEntries, SignedEntries
<1>2. \A n \in Names : KeysCached(n) /\ SignednessCached(n)
  BY Zenon DEF Init, KeysCached, SignednessCached
<1>3. FrameInv(Idle)
  <2>1. /\ Idle.pc = "idle" /\ Idle.links = <<>> /\ Idle.last_ttl = DefaultTtl
        /\ Idle.good = FALSE
    BY Zenon DEF Idle
  <2>2. Formed(Idle)
    BY <2>1, IdleFormed, Lifetimes DEF Formed
  <2> QED
    BY <2>1, <2>2, Zenon DEF FrameInv, Shape, Trusts, Deserving, Active, Walking
<1> QED
  BY <1>1, <1>2, <1>3, Zenon DEF ValidatorInv, Init

LEMMA ElsewhereInv ==
  ASSUME ValidatorInv, NEW z \in Zones, Elsewhere(z)
  PROVE  ValidatorInv'
<1>1. Typed /\ z \in Names
  BY ZonesAssumption DEF ValidatorInv, Zones, Names
<1>2. UNCHANGED zones /\ frames' = frames
  BY Zenon DEF Elsewhere
<1>3. PICK keys \in {key_trust_cache[z], [epoch |-> Epoch(z), left |-> KeysTtl(z)]},
           signed \in {signed_zone_cache[z], ProvenUnsigned,
                      [signedness |-> "Signed", left |-> SignedTtl]} :
        /\ Justified(z, keys, signed)
        /\ key_trust_cache' = [key_trust_cache EXCEPT ![z] = keys]
        /\ signed_zone_cache' = [signed_zone_cache EXCEPT ![z] = signed]
  BY Zenon DEF Elsewhere
<1>4. /\ key_trust_cache \in [Names -> KeyEntries]
      /\ signed_zone_cache \in [Names -> SignedEntries]
  BY <1>1, CachesTyped, Zenon
<1>5. keys \in KeyEntries
  <2>1. Epoch(z) \in 0..MaxChanges /\ KeysTtl(z) \in 1..KeyTtl
    BY <1>1, ZoneFacts, Lifetimes, Zenon
  <2>2. [epoch |-> Epoch(z), left |-> KeysTtl(z)] \in KeyEntries
    BY <2>1, Zenon DEF KeyEntries
  <2> QED
    BY <1>1, <1>4, <2>2, Zenon
<1>6. signed \in SignedEntries
  <2>1. SignedTtl \in 1..(DsTtl + SignedTtl) /\ DsTtl \in 1..(DsTtl + SignedTtl)
    BY Lifetimes
  <2>2. ProvenUnsigned \in SignedEntries
    BY <2>1, Zenon DEF ProvenUnsigned, SignedEntries, Signed
  <2>3. [signedness |-> "Signed", left |-> SignedTtl] \in SignedEntries
    BY <2>1, Zenon DEF SignedEntries, Signed
  <2> QED
    BY <1>1, <1>4, <2>2, <2>3, Zenon
<1>7. \A n \in Names : Justified(n, key_trust_cache'[n], signed_zone_cache'[n])
  <2>1. SUFFICES ASSUME NEW n \in Names
                 PROVE  Justified(n, key_trust_cache'[n], signed_zone_cache'[n])
    BY Zenon
  <2>2. CASE n = z
    BY <1>1, <1>3, <1>4, <2>2, Zenon
  <2>3. CASE n # z
    <3>1. key_trust_cache'[n] = key_trust_cache[n] /\ signed_zone_cache'[n] = signed_zone_cache[n]
      BY <1>3, <1>4, <2>3, Zenon
    <3> QED
      BY <3>1, Zenon DEF Justified
  <2> QED
    BY <2>2, <2>3, Zenon
<1>8. CachesJustified
  BY <1>3, <1>4, <1>5, <1>6, <1>7, Zenon DEF CachesJustified
<1>9. frames' \in [Tasks -> Frame] /\ \A u \in Tasks : FrameInv(frames[u])'
  BY <1>2, FramesSame, Zenon
<1> QED
  BY <1>2, <1>8, <1>9, SameZonesInv, Zenon

\* What a change of z leaves: all that was past, and the epoch it ends.
LEMMA ChangeFacts ==
  ASSUME Typed, NEW z \in Zones, Change(z)
  PROVE  /\ kind' \in [Zones -> ZoneKind] /\ \A y \in Zones : kind'[y] \in Kinds[y]
         /\ past' \in [Zones -> Seq([kind : ZoneKind, age : 0..Horizon])]
         /\ \A y \in Zones : Len(past'[y]) <= MaxChanges
         /\ \A y \in Zones : \A i \in 1..Len(past[y]) :
              i \in 1..Len(past'[y]) /\ past'[y][i] = past[y][i]
         /\ Len(past[z]) \in Nat /\ Len(past'[z]) = Len(past[z]) + 1
         /\ past'[z][Len(past[z]) + 1].kind = Kind(z) /\ past'[z][Len(past[z]) + 1].age = 0
         /\ \A n \in Names \ {z} : Kind(n)' = Kind(n) /\ Epoch(n)' = Epoch(n)
         /\ Epoch(z)' = Epoch(z) + 1 /\ Epoch(z) = Len(past[z])
<1> DEFINE E == [kind : ZoneKind, age : 0..Horizon]
           w == [kind |-> kind[z], age |-> 0]
<1>1. PICK k \in Kinds[z] : kind' = [kind EXCEPT ![z] = k]
  BY Zenon DEF Change
<1>2. past' = [past EXCEPT ![z] = Append(@, w)] /\ \A y \in Zones : Len(past[y]) < MaxChanges
  BY Zenon DEF Change
<1>3. /\ kind \in [Zones -> ZoneKind] /\ past \in [Zones -> Seq(E)] /\ k \in ZoneKind
      /\ \A y \in Zones : kind[y] \in Kinds[y]
  BY ZonesAssumption, Zenon DEF Typed, TypeOK
<1>4. w \in E /\ w.kind = kind[z] /\ w.age = 0
  BY <1>3, BoundsAssumption
<1> HIDE DEF w, E
<1>5. kind' \in [Zones -> ZoneKind] /\ \A y \in Zones : kind'[y] \in Kinds[y]
  BY <1>1, <1>3, Zenon
<1>6. \A y \in Zones : past'[y] = IF y = z THEN Append(past[z], w) ELSE past[y]
  BY <1>2, <1>3, Zenon
<1>7. past[z] \in Seq(E) /\ Append(past[z], w) \in Seq(E)
  BY <1>3, <1>4
<1>8. past' \in [Zones -> Seq(E)]
  BY <1>2, <1>3, <1>7, Zenon
<1>9. /\ Len(past[z]) \in Nat /\ Len(past'[z]) = Len(past[z]) + 1
      /\ past'[z][Len(past[z]) + 1] = w
      /\ \A i \in 1..Len(past[z]) : past'[z][i] = past[z][i]
  <2>1. PICK s \in Seq(E) : s = past[z]
    BY <1>7, Zenon
  <2>2. PICK q : q = Append(s, w)
    BY Zenon
  <2> USE <2>2
  <2>3. Len(s) \in Nat /\ Len(q) = Len(s) + 1 /\ q[Len(s) + 1] = w
    BY <1>4
  <2>4. \A i \in 1..Len(s) : q[i] = s[i]
    BY <1>4
  <2> QED
    BY <1>6, <2>1, <2>3, <2>4, Zenon
<1>10. \A y \in Zones : Len(past'[y]) <= MaxChanges
  <2>1. \A y \in Zones : Len(past[y]) \in Nat
    BY <1>3
  <2> QED
    BY <1>2, <1>6, <1>9, <2>1, BoundsAssumption
<1>11. \A y \in Zones : \A i \in 1..Len(past[y]) :
         i \in 1..Len(past'[y]) /\ past'[y][i] = past[y][i]
  BY <1>6, <1>9
<1>12. z # 0 /\ \A n \in Names : n # 0 => n \in Zones
  BY ZonesAssumption DEF Zones, Names
<1>13. Kind(z) = kind[z] /\ Epoch(z) = Len(past[z]) /\ Epoch(z)' = Len(past'[z])
  BY <1>12, Zenon DEF Kind, Epoch
<1>14. ASSUME NEW n \in Names, n # z PROVE Kind(n)' = Kind(n) /\ Epoch(n)' = Epoch(n)
  <2>1. CASE n = 0
    BY <2>1, Zenon DEF Kind, Epoch
  <2>2. CASE n # 0
    <3>1. n \in Zones /\ past'[n] = past[n] /\ kind'[n] = kind[n]
      BY <1>1, <1>3, <1>6, <1>12, <1>14, <2>2, Zenon
    <3> QED
      BY <2>2, <3>1, Zenon DEF Kind, Epoch
  <2> QED
    BY <2>1, <2>2, Zenon
<1> QED
  BY <1>4, <1>5, <1>8, <1>9, <1>10, <1>11, <1>13, <1>14, Zenon DEF E

LEMMA ChangeKeyed ==
  ASSUME Typed, NEW z \in Zones, Change(z), NEW k \in Names \X Nat, Keyed(k)
  PROVE  /\ Keyed(k)'
         /\ k[2] < Epoch(k[1])' =>
              \/ past'[k[1]][k[2] + 1].age = 0
              \/ k[2] < Epoch(k[1]) /\ past'[k[1]][k[2] + 1].age = past[k[1]][k[2] + 1].age
<1> DEFINE n == k[1]
           j == k[2]
<1>1. n \in Names /\ j \in Nat /\ Epoch(n) \in Nat
  BY ZoneFacts
<1>2. j <= Epoch(n) /\ (j = Epoch(n) => Kind(n) = "signed")
      /\ (j < Epoch(n) => past[n][j + 1].kind = "signed")
  BY Zenon DEF Keyed
<1>3. ASSUME j < Epoch(n) PROVE past'[n][j + 1] = past[n][j + 1]
  <2> USE <1>1
  <2>1. n \in Zones /\ Epoch(n) = Len(past[n])
    <3>1. n # 0
      BY <1>3, ZoneFacts
    <3>2. n \in Zones
      BY <3>1, ZonesAssumption DEF Zones, Names
    <3> QED
      BY <3>2, PastFacts, Zenon
  <2>2. j + 1 \in 1..Len(past[n])
    BY <1>3, <2>1
  <2> QED
    BY <2>1, <2>2, ChangeFacts, Zenon
<1> USE <1>2
<1>4. CASE n # z
  <2>1. Kind(n)' = Kind(n) /\ Epoch(n)' = Epoch(n)
    BY <1>1, <1>4, ChangeFacts, Zenon
  <2> QED
    BY <1>3, <2>1, Zenon DEF Keyed
<1>5. CASE n = z
  <2>1. /\ Epoch(z)' = Epoch(z) + 1 /\ Epoch(z) = Len(past[z])
        /\ past'[z][Epoch(z) + 1].kind = Kind(z) /\ past'[z][Epoch(z) + 1].age = 0
    BY ChangeFacts, Zenon
  <2>2. j < Epoch(n)' /\ j <= Epoch(n)' /\ j # Epoch(n)'
    BY <1>1, <1>5, <2>1
  <2>3. CASE j < Epoch(n)
    BY <1>3, <2>2, <2>3, Zenon DEF Keyed
  <2>4. CASE j = Epoch(n)
    BY <1>5, <2>1, <2>2, <2>4, Zenon DEF Keyed
  <2> QED
    BY <1>1, <2>3, <2>4
<1> QED
  BY <1>4, <1>5, Zenon

LEMMA ChangeFrame ==
  ASSUME Typed, NEW z \in Zones, Change(z), NEW f, FrameInv(f)
  PROVE  LET x == [f EXCEPT !.good = FALSE] IN x \in Frame /\ FrameInv(x)'
<1> DEFINE x == [f EXCEPT !.good = FALSE]
<1>1. f \in Frame /\ Shape(f) /\ Trusts(f)
  BY Zenon DEF FrameInv, Shape, Formed
<1>2. /\ x \in Frame /\ x.good = FALSE /\ x.pc = f.pc /\ x.links = f.links /\ x.todo = f.todo
      /\ x.last_ttl = f.last_ttl /\ x.refused = f.refused /\ x.target = f.target
  BY <1>1, Zenon DEF Frame
<1>3. /\ x.use = f.use /\ x.zone = f.zone /\ x.keys = f.keys /\ x.ds = f.ds
      /\ x.verdict = f.verdict
  BY <1>1, Zenon DEF Frame
<1> HIDE DEF x
<1>4. Shape(x)
  <2> USE <1>2
  <2>1. Formed(x)
    BY <1>1, Zenon DEF Shape, Formed
  <2>2. Pending(f) => Pending(x)
    BY Zenon DEF Pending
  <2>3. Purposed(f, f.target, f.use) => Purposed(x, x.target, x.use)
    BY <1>3, Zenon DEF Purposed
  <2> QED
    BY <1>1, <1>3, <2>1, <2>2, <2>3, ZenonT(20) DEF Shape, Active, Walking
<1>5. Trusts(x)'
  <2>1. SUFFICES ASSUME f.pc \in {"walk", "ds"}, f.zone > 0
                 PROVE  /\ Keyed(f.keys)'
                        /\ f.pc = "walk" =>
                             /\ f.keys[2] < Epoch(f.keys[1])' => past'[f.keys[1]][f.keys[2] + 1].age < DsTtl
                             /\ \A y \in (f.keys[1] + 1)..(f.zone - 1) :
                                  \/ Kind(y)' = "none"
                                  \/ \E i \in 1..Len(past'[y]) : past'[y][i].age < DsTtl
    BY <1>2, <1>3, Zenon DEF Trusts
  <2> DEFINE k == f.keys
             b == f.zone - 1
  <2>2. /\ k \in Names \X Nat /\ k[1] \in Nat /\ f.zone \in Nat
        /\ f.zone <= f.target + 1 /\ f.target \in Nat /\ f.target <= Depth
    BY <2>1, WalkingFacts, Zenon DEF Walking
  <2>3. /\ Keyed(k)
        /\ f.pc = "walk" =>
             /\ k[2] < Epoch(k[1]) => past[k[1]][k[2] + 1].age < DsTtl
             /\ \A y \in (k[1] + 1)..b :
                  Kind(y) = "none" \/ \E i \in 1..Len(past[y]) : past[y][i].age < DsTtl
    BY <1>1, <2>1, Zenon DEF Trusts
  <2>4. b \in Nat /\ b <= Depth /\ 0 < DsTtl
    BY <2>1, <2>2, ZonesAssumption, Lifetimes
  <2> HIDE DEF k, b
  <2>5. Keyed(k)'
    BY <2>2, <2>3, ChangeKeyed, Zenon
  <2>6. ASSUME f.pc = "walk", k[2] < Epoch(k[1])' PROVE past'[k[1]][k[2] + 1].age < DsTtl
    BY <2>2, <2>3, <2>4, <2>6, ChangeKeyed, Zenon
  <2>7. ASSUME f.pc = "walk", NEW y \in (k[1] + 1)..b
        PROVE  Kind(y)' = "none" \/ \E i \in 1..Len(past'[y]) : past'[y][i].age < DsTtl
    <3>1. y \in Zones /\ y \in Names
      BY <2>2, <2>4, ZonesAssumption DEF Zones, Names
    <3>2. CASE y = z
      <4> DEFINE i == Len(past[z]) + 1
      <4>1. i \in 1..Len(past'[z]) /\ past'[z][i].age = 0
        BY ChangeFacts
      <4> QED
        BY <2>4, <3>2, <4>1, Zenon
    <3>3. CASE y # z /\ Kind(y) = "none"
      BY <3>1, <3>3, ChangeFacts, Zenon
    <3>4. ASSUME NEW i \in 1..Len(past[y]), past[y][i].age < DsTtl
          PROVE  i \in 1..Len(past'[y]) /\ past'[y][i].age < DsTtl
      BY <3>1, <3>4, ChangeFacts, Zenon
    <3> QED
      BY <2>3, <2>7, <3>2, <3>3, <3>4, Zenon
  <2> QED
    BY <2>5, <2>6, <2>7, Zenon DEF k, b
<1>6. Deserving(x)'
  BY <1>2, Zenon DEF Deserving
<1> QED
  BY <1>2, <1>4, <1>5, <1>6, ZenonT(20) DEF FrameInv, x

LEMMA ChangeCaches ==
  ASSUME Typed, NEW z \in Zones, Change(z), NEW n \in Names, KeysCached(n), SignednessCached(n)
  PROVE  KeysCached(n)' /\ SignednessCached(n)'
<1>1. /\ key_trust_cache' = key_trust_cache /\ signed_zone_cache' = signed_zone_cache
      /\ z \in Nat /\ n \in Nat /\ z > 0
  BY ZonesAssumption DEF Change, caches, Zones, Names
<1>2. KeysCached(n)'
  <2> DEFINE e == key_trust_cache[n]
             j == e.epoch
  <2>1. SUFFICES ASSUME e # NoEntry
                 PROVE  /\ e.left <= KeysTtl(n)
                        /\ Keyed(<<n, j>>)'
                        /\ j < Epoch(n)' => past'[n][j + 1].age + e.left <= KeysTtl(n)
    BY <1>1, Zenon DEF KeysCached, KeysTtl
  <2>2. /\ e.left <= KeysTtl(n) /\ Keyed(<<n, j>>)
        /\ j < Epoch(n) => past[n][j + 1].age + e.left <= KeysTtl(n)
    BY <2>1, Zenon DEF KeysCached
  <2>3. j \in Nat /\ e.left \in Nat
    BY <2>1, KeyEntry, Zenon
  <2>4. <<n, j>> \in Names \X Nat /\ <<n, j>>[1] = n /\ <<n, j>>[2] = j
    BY <2>3, Zenon
  <2>5. /\ Keyed(<<n, j>>)'
        /\ j < Epoch(n)' => \/ past'[n][j + 1].age = 0
                            \/ j < Epoch(n) /\ past'[n][j + 1].age = past[n][j + 1].age
    <3>1. PICK k : k = <<n, j>>
      BY Zenon
    <3>2. k \in Names \X Nat /\ k[1] = n /\ k[2] = j /\ Keyed(k)
      BY <2>2, <2>4, <3>1, Zenon
    <3>3. /\ Keyed(k)'
          /\ k[2] < Epoch(k[1])' =>
              \/ past'[k[1]][k[2] + 1].age = 0
              \/ k[2] < Epoch(k[1]) /\ past'[k[1]][k[2] + 1].age = past[k[1]][k[2] + 1].age
      BY <3>2, ChangeKeyed
    <3>4. j' = j
      BY <1>1, ZenonT(20)
    <3> HIDE DEF j
    <3> QED
      BY <3>1, <3>2, <3>3, <3>4, Zenon
  <2> HIDE DEF j, e
  <2> QED
    BY <2>2, <2>3, <2>5
<1>3. SignednessCached(n)'
  <2> DEFINE e == signed_zone_cache[n]
             l == e.left
  <2>1. SUFFICES ASSUME e # NoEntry
                 PROVE  SignednessCached(n)'
    BY <1>1, Zenon DEF SignednessCached
  <2>2. l \in Nat /\ DsTtl \in Nat /\ SignedTtl \in Nat /\ DsTtl >= 1
    BY <2>1, SignedEntry, Lifetimes, Zenon
  <2>3. \A y \in 1..n : y \in Zones /\ y \in Names
    BY <1>1, ZonesAssumption DEF Zones, Names
  <2>4. \A y \in Zones : \A i \in 1..Len(past[y]) :
          i \in 1..Len(past'[y]) /\ past'[y][i] = past[y][i]
    BY ChangeFacts, Zenon
  <2>5. PICK q : /\ q \in 1..Len(past'[z]) /\ past'[z][q].age = 0 /\ past'[z][q].kind = Kind(z)
    <3> DEFINE q == Len(past[z]) + 1
    <3>1. q \in 1..Len(past'[z]) /\ past'[z][q].age = 0 /\ past'[z][q].kind = Kind(z)
      BY ChangeFacts
    <3> QED
      BY <3>1, Zenon
  <2>6. \A y \in Names : y # z => Kind(y)' = Kind(y)
    BY ChangeFacts, Zenon
  <2> HIDE DEF l
  <2>7. ASSUME e.signedness = "ProvenUnsigned"
        PROVE  /\ l <= DsTtl
               /\ \E y \in 1..n :
                    \/ Kind(y)' \in Insecure
                    \/ \E i \in 1..Len(past'[y]) :
                         past'[y][i].kind \in Insecure /\ past'[y][i].age + l <= DsTtl
    <3>1. /\ l <= DsTtl
          /\ \E y \in 1..n :
               \/ Kind(y) \in Insecure
               \/ \E i \in 1..Len(past[y]) :
                    past[y][i].kind \in Insecure /\ past[y][i].age + l <= DsTtl
      BY <2>1, <2>7, Zenon DEF SignednessCached, l
    <3>2. ASSUME NEW y \in 1..n, Kind(y) \in Insecure, y # z PROVE Kind(y)' \in Insecure
      BY <2>3, <2>6, <3>2, Zenon
    <3>3. ASSUME NEW y \in 1..n, Kind(y) \in Insecure, y = z
          PROVE  \E i \in 1..Len(past'[y]) :
                   past'[y][i].kind \in Insecure /\ past'[y][i].age + l <= DsTtl
      <4>1. past'[z][q].age + l <= DsTtl
        BY <2>2, <2>5, <3>1
      <4> QED
        BY <2>5, <3>3, <4>1, Zenon
    <3>4. ASSUME NEW y \in 1..n, NEW i \in 1..Len(past[y]),
                 past[y][i].kind \in Insecure /\ past[y][i].age + l <= DsTtl
          PROVE  /\ i \in 1..Len(past'[y])
                 /\ past'[y][i].kind \in Insecure /\ past'[y][i].age + l <= DsTtl
      BY <2>3, <2>4, <3>4, Zenon
    <3> QED
      BY <3>1, <3>2, <3>3, <3>4, Zenon
  <2>8. ASSUME e.signedness = "Signed"
        PROVE  /\ l <= SignedTtl
               /\ \/ SignedAt(n)'
                  \/ \E y \in 1..n : \E i \in 1..Len(past'[y]) :
                       past'[y][i].age + l < DsTtl + SignedTtl
    <3>1. /\ l <= SignedTtl
          /\ \/ SignedAt(n)
             \/ \E y \in 1..n : \E i \in 1..Len(past[y]) :
                  past[y][i].age + l < DsTtl + SignedTtl
      BY <2>1, <2>8, Zenon DEF SignednessCached, l
    <3>2. ASSUME z <= n
          PROVE  \E y \in 1..n : \E i \in 1..Len(past'[y]) : past'[y][i].age + l < DsTtl + SignedTtl
      <4>1. z \in 1..n /\ past'[z][q].age + l < DsTtl + SignedTtl
        BY <1>1, <2>2, <2>5, <3>1, <3>2
      <4> QED
        BY <2>5, <4>1, Zenon
    <3>3. ASSUME z > n, SignedAt(n) PROVE SignedAt(n)'
      <4>1. \A a \in 0..n : Kind(a)' = Kind(a)
        BY <1>1, <2>6, <3>3, ZonesAssumption DEF Names
      <4>2. PICK a \in 0..n : Kind(a) = "signed" /\ \A b \in (a + 1)..n : Kind(b) = "none"
        BY <3>3, Zenon DEF SignedAt
      <4>3. \A b \in (a + 1)..n : b \in 0..n
        BY <1>1
      <4>4. Kind(a)' = "signed" /\ \A b \in (a + 1)..n : Kind(b)' = "none"
        BY <4>1, <4>2, <4>3, Zenon
      <4> QED
        BY <4>4, Zenon DEF SignedAt
    <3>4. ASSUME NEW y \in 1..n, NEW i \in 1..Len(past[y]),
                 past[y][i].age + l < DsTtl + SignedTtl
          PROVE  i \in 1..Len(past'[y]) /\ past'[y][i].age + l < DsTtl + SignedTtl
      BY <2>3, <2>4, <3>4, Zenon
    <3>5. z <= n \/ z > n
      BY <1>1
    <3> QED
      BY <3>1, <3>2, <3>3, <3>4, <3>5, Zenon
  <2> QED
    BY <1>1, <2>7, <2>8, Zenon DEF SignednessCached, l
<1> QED
  BY <1>2, <1>3, Zenon

LEMMA ChangeInv ==
  ASSUME ValidatorInv, NEW z \in Zones, Change(z)
  PROVE  ValidatorInv'
<1>1. Typed /\ (\A n \in Names : KeysCached(n) /\ SignednessCached(n))
      /\ \A t \in Tasks : FrameInv(frames[t])
  BY Zenon DEF ValidatorInv
<1>2. frames' = [t \in Tasks |-> [frames[t] EXCEPT !.good = FALSE]] /\ UNCHANGED caches
  BY Zenon DEF Change
<1>3. ASSUME NEW t \in Tasks PROVE frames'[t] \in Frame /\ FrameInv(frames[t])'
  <2>1. PICK f : f = frames[t]
    BY Zenon
  <2>2. PICK x : x = [f EXCEPT !.good = FALSE]
    BY Zenon
  <2>3. x \in Frame /\ FrameInv(x)'
    BY <1>1, <2>1, <2>2, ChangeFrame, Zenon
  <2>4. frames'[t] = x
    BY <1>2, <2>1, <2>2, Zenon
  <2> QED
    BY <2>3, <2>4, Zenon
<1>4. Typed'
  <2>1. frames' \in [Tasks -> Frame]
    BY <1>2, <1>3, Zenon
  <2> QED
    BY <1>1, <1>2, <2>1, ChangeFacts, Zenon DEF Typed, TypeOK, caches
<1>5. \A n \in Names : KeysCached(n)' /\ SignednessCached(n)'
  BY <1>1, ChangeCaches, Zenon
<1> QED
  BY <1>3, <1>4, <1>5, Zenon DEF ValidatorInv

\* Time passes: the zones stay, their past is older by one unit at most.
LEMMA TickFacts ==
  ASSUME Typed, Tick
  PROVE  /\ \A n : Kind(n)' = Kind(n) /\ Apex(n)' = Apex(n)
         /\ \A n \in Names : Epoch(n)' = Epoch(n)
         /\ past' \in [Zones -> Seq([kind : ZoneKind, age : 0..Horizon])]
         /\ \A y \in Zones : Len(past'[y]) = Len(past[y])
         /\ \A y \in Zones : \A i \in 1..Len(past[y]) :
              /\ past'[y][i].kind = past[y][i].kind
              /\ past[y][i].age \in Nat /\ past'[y][i].age \in Nat
              /\ past[y][i].age <= past'[y][i].age
              /\ past'[y][i].age <= past[y][i].age + 1
<1> DEFINE E == [kind : ZoneKind, age : 0..Horizon]
           O(e) == [e EXCEPT !.age = Min2(@ + 1, Horizon)]
<1>1. /\ kind' = kind
      /\ past' = [z \in Zones |-> [i \in 1..Len(past[z]) |-> O(past[z][i])]]
  BY Zenon DEF Tick
<1>2. ASSUME NEW e \in E
      PROVE  /\ O(e) \in E /\ O(e).kind = e.kind
             /\ e.age \in Nat /\ O(e).age \in Nat /\ e.age <= O(e).age /\ O(e).age <= e.age + 1
  <2> DEFINE a == e.age
             b == Min2(a + 1, Horizon)
  <2>1. a \in 0..Horizon /\ Horizon \in Nat /\ e.kind \in ZoneKind
    BY BoundsAssumption, Zenon
  <2>2. O(e) = [e EXCEPT !.age = b]
    BY Zenon
  <2> HIDE DEF a, O
  <2>3. b \in 0..Horizon /\ a <= b /\ b <= a + 1 /\ b \in Nat /\ a \in Nat
    BY <2>1 DEF Min2
  <2> HIDE DEF b
  <2>4. O(e) \in E /\ O(e).kind = e.kind /\ O(e).age = b
    BY <2>1, <2>2, <2>3, Zenon
  <2> QED
    BY <2>3, <2>4, Zenon DEF a
<1> HIDE DEF O, E
<1>3. ASSUME NEW y \in Zones
      PROVE  /\ past'[y] \in Seq(E) /\ Len(past'[y]) = Len(past[y]) /\ Len(past[y]) \in Nat
             /\ \A i \in 1..Len(past[y]) : past[y][i] \in E /\ past'[y][i] = O(past[y][i])
  <2>1. PICK s \in Seq(E) : s = past[y]
    BY Zenon DEF Typed, TypeOK, E
  <2>2. PICK q : q = [i \in 1..Len(s) |-> O(s[i])]
    BY Zenon
  <2>3. Len(s) \in Nat /\ \A i \in 1..Len(s) : s[i] \in E
    OBVIOUS
  <2> USE <2>2, <2>3
  <2>4. \A i \in 1..Len(s) : q[i] = O(s[i]) /\ q[i] \in E
    BY <1>2, Zenon
  <2>5. q \in Seq(E) /\ Len(q) = Len(s)
    <3>1. q \in [1..Len(s) -> E]
      BY <2>4, Zenon
    <3> QED
      BY <3>1
  <2>6. past'[y] = q
    BY <1>1, <2>1, Zenon
  <2> QED
    BY <2>1, <2>4, <2>5, <2>6, Zenon
<1> USE <1>3
<1>4. past' \in [Zones -> Seq(E)]
  BY <1>1, Zenon
<1>5. ASSUME NEW y \in Zones, NEW i \in 1..Len(past[y])
      PROVE  /\ past'[y][i].kind = past[y][i].kind
             /\ past[y][i].age \in Nat /\ past'[y][i].age \in Nat
             /\ past[y][i].age <= past'[y][i].age
             /\ past'[y][i].age <= past[y][i].age + 1
  <2>1. PICK e \in E : e = past[y][i]
    BY Zenon
  <2>2. past'[y][i] = O(e)
    BY <2>1, Zenon
  <2> QED
    BY <1>2, <2>1, <2>2, Zenon
<1>6. \A n : Kind(n)' = Kind(n) /\ Apex(n)' = Apex(n)
  BY <1>1, Zenon DEF Kind, Apex
<1>7. \A n \in Names : Epoch(n)' = Epoch(n)
  <2>1. \A n \in Names : n # 0 => n \in Zones
    BY ZonesAssumption DEF Zones, Names
  <2> QED
    BY <2>1, Zenon DEF Epoch
<1> QED
  BY <1>4, <1>5, <1>6, <1>7, Zenon DEF E

LEMMA TickKeyed ==
  ASSUME Typed, Tick, NEW k \in Names \X Nat, Keyed(k)
  PROVE  /\ Keyed(k)'
         /\ k[2] < Epoch(k[1]) => k[1] \in Zones /\ k[2] + 1 \in 1..Len(past[k[1]])
<1> DEFINE n == k[1]
           j == k[2]
<1>1. n \in Names /\ j \in Nat /\ Epoch(n) \in Nat
  BY ZoneFacts
<1> USE <1>1
<1>2. ASSUME j < Epoch(n) PROVE n \in Zones /\ j + 1 \in 1..Len(past[n])
  <2>1. n # 0
    BY <1>2, ZoneFacts
  <2>2. n \in Zones
    BY <2>1, ZonesAssumption DEF Zones, Names
  <2> QED
    BY <1>2, <2>2, PastFacts
<1>3. Epoch(n)' = Epoch(n) /\ Kind(n)' = Kind(n)
  BY TickFacts, Zenon
<1>4. j < Epoch(n) => past'[n][j + 1].kind = past[n][j + 1].kind
  BY <1>2, TickFacts, Zenon
<1> QED
  BY <1>2, <1>3, <1>4, Zenon DEF Keyed

LEMMA TickSettled ==
  ASSUME Typed, Tick, Settled
  PROVE  Settled'
<1>1. SUFFICES ASSUME NEW z \in Zones, NEW i \in 1..Len(past'[z])
               PROVE  past'[z][i].age >= DsTtl + SignedTtl - 1
  BY Zenon DEF Settled
<1> DEFINE a == past[z][i].age
           b == past'[z][i].age
<1>2. i \in 1..Len(past[z])
  BY TickFacts, Zenon
<1>3. a \in Nat /\ b \in Nat /\ a <= b
  BY <1>2, TickFacts, Zenon
<1>4. a >= DsTtl + SignedTtl - 1
  BY <1>2, Zenon DEF Settled
<1> HIDE DEF a, b
<1>5. b >= DsTtl + SignedTtl - 1
  BY <1>3, <1>4, Lifetimes
<1> QED
  BY <1>5, Zenon DEF b

\* A frame x that is f, but for how long it has waited, and does not walk.
LEMMA TickFrame ==
  ASSUME Typed, Tick, NEW f, FrameInv(f), f.pc # "walk",
         NEW w \in 0..MaxFetch, NEW x, x = [f EXCEPT !.waited = w]
  PROVE  x \in Frame /\ FrameInv(x)'
<1>1. f \in Frame /\ Shape(f) /\ Trusts(f) /\ Deserving(f)
  BY Zenon DEF FrameInv, Shape, Formed
<1>2. /\ x \in Frame /\ x.good = f.good /\ x.pc = f.pc /\ x.links = f.links /\ x.todo = f.todo
      /\ x.last_ttl = f.last_ttl /\ x.refused = f.refused /\ x.target = f.target
  BY <1>1, Zenon DEF Frame
<1>3. /\ x.use = f.use /\ x.zone = f.zone /\ x.keys = f.keys /\ x.ds = f.ds
      /\ x.verdict = f.verdict /\ x.any_trusted = f.any_trusted /\ x.proof = f.proof
  BY <1>1, Zenon DEF Frame
<1>4. Shape(x)
  <2> USE <1>2
  <2>1. Formed(x)
    BY <1>1, Zenon DEF Shape, Formed
  <2>2. Pending(f) => Pending(x)
    BY Zenon DEF Pending
  <2>3. Purposed(f, f.target, f.use) => Purposed(x, x.target, x.use)
    BY <1>3, Zenon DEF Purposed
  <2> QED
    BY <1>1, <1>3, <2>1, <2>2, <2>3, Zenon DEF Shape, Active, Walking
<1>5. Trusts(x)'
  <2>1. SUFFICES ASSUME f.pc = "ds", f.zone > 0 PROVE Keyed(f.keys)'
    BY <1>2, <1>3, Zenon DEF Trusts
  <2>2. f.keys \in Names \X Nat /\ Keyed(f.keys)
    BY <1>1, <2>1, WalkingFacts, Zenon DEF Walking, Trusts
  <2> QED
    BY <2>2, TickKeyed, Zenon
<1>6. Deserving(x)'
  <2>1. SUFFICES ASSUME f.good PROVE Deserving(x)'
    BY <1>2, Zenon DEF Deserving
  <2>2. Settled'
    BY <1>1, <2>1, TickSettled, Zenon DEF Deserving
  <2>3. ASSUME Active(f) PROVE Honest(x)'
    <3>1. Honest(f) /\ f.links \in Seq(RRset)
      BY <1>1, <2>1, <2>3, FrameFields, Zenon DEF Deserving
    <3>2. ASSUME NEW i \in 1..Len(f.links) PROVE Genuine(f.links[i])'
      <4>1. PICK r \in RRset : r = f.links[i]
        BY <3>1
      <4>2. Genuine(r) /\ r.owner \in Names
        BY <3>1, <4>1, Zenon DEF Honest, RRset
      <4>3. Apex(r.owner) \in Names
        BY <4>2, ApexFacts, Zenon
      <4>4. /\ Kind(Apex(r.owner))' = Kind(Apex(r.owner))
            /\ KeysOf(Apex(r.owner))' = KeysOf(Apex(r.owner))
        <5>1. PICK a \in Names : a = Apex(r.owner)
          BY <4>3, Zenon
        <5>2. Apex(r.owner)' = a
          BY <5>1, TickFacts, Zenon
        <5>3. Kind(a)' = Kind(a) /\ Epoch(a)' = Epoch(a)
          BY TickFacts, Zenon
        <5> QED
          BY <5>1, <5>2, <5>3, Zenon DEF KeysOf, Kind, Epoch
      <4>5. Genuine(r)'
        BY <4>2, <4>4, Zenon DEF Genuine
      <4> QED
        BY <4>1, <4>5, Zenon
    <3>3. f.any_trusted => SecureAbove(Apex(f.links[1].owner))'
      BY <3>1, TickFacts, Zenon DEF Honest, SecureAbove, Kind
    <3> QED
      BY <1>2, <1>3, <2>2, <3>2, <3>3, Zenon DEF Honest
  <2>4. ASSUME Walking(f)
        PROVE  /\ Promising(x, f.target, f.use)' /\ SecureAbove(f.zone - 1)'
               /\ f.pc # "dnskey" /\ f.zone > 0 => f.keys = KeysOf(Apex(f.zone - 1))'
               /\ f.pc = "dnskey" => Kind(f.zone)' = "signed" /\ f.ds = Epoch(f.zone)'
    <3>1. /\ Promising(f, f.target, f.use) /\ SecureAbove(f.zone - 1)
          /\ f.pc # "dnskey" /\ f.zone > 0 => f.keys = KeysOf(Apex(f.zone - 1))
          /\ f.pc = "dnskey" => Kind(f.zone) = "signed" /\ f.ds = Epoch(f.zone)
      BY <1>1, <2>1, <2>4, Zenon DEF Deserving
    <3>2. /\ f.zone \in Nat /\ f.zone <= f.target + 1 /\ f.target \in Nat /\ f.target <= Depth
          /\ f.pc = "dnskey" => f.zone <= f.target
      BY <2>4, WalkingFacts, Zenon
    <3>3. Promising(x, f.target, f.use)'
      BY <1>2, <1>3, <3>1, TickFacts, Zenon DEF Promising
    <3>4. SecureAbove(f.zone - 1)'
      BY <3>1, TickFacts, Zenon DEF SecureAbove
    <3>5. ASSUME f.pc # "dnskey", f.zone > 0 PROVE f.keys = KeysOf(Apex(f.zone - 1))'
      <4>1. f.zone - 1 \in Names
        BY <3>2, <3>5, ZonesAssumption DEF Names
      <4>2. PICK a \in Names : a = Apex(f.zone - 1)
        BY <4>1, ApexFacts, Zenon
      <4>3. Apex(f.zone - 1)' = a /\ Epoch(a)' = Epoch(a) /\ f.keys = <<a, Epoch(a)>>
        BY <3>1, <3>5, <4>2, TickFacts, Zenon DEF KeysOf
      <4> QED
        BY <4>3, Zenon DEF KeysOf, Epoch
    <3>6. ASSUME f.pc = "dnskey" PROVE Kind(f.zone)' = "signed" /\ f.ds = Epoch(f.zone)'
      <4>1. f.zone \in Names
        BY <3>2, <3>6, ZonesAssumption DEF Names
      <4> QED
        BY <3>1, <3>6, <4>1, TickFacts, Zenon
    <3> QED
      BY <3>3, <3>4, <3>5, <3>6, Zenon
  <2>5. f.pc = "done" /\ f.verdict = "Bogus" => f.refused
    BY <1>1, <2>1, Zenon DEF Deserving
  <2> QED
    BY <1>2, <1>3, <2>2, <2>3, <2>4, <2>5, Zenon DEF Deserving, Active, Walking
<1> QED
  BY <1>2, <1>4, <1>5, <1>6, Zenon DEF FrameInv

LEMMA AgedEntry ==
  ASSUME NEW e, e # NoEntry, e.left \in Nat, e.left >= 1,
         \/ e \in [epoch : 0..MaxChanges, left : 1..KeyTtl]
         \/ e \in [signedness : Signed, left : 1..(DsTtl + SignedTtl)],
         Aged(e) # NoEntry
  PROVE  /\ Aged(e).left = e.left - 1 /\ e.left - 1 >= 1 /\ e.left - 1 \in Nat
         /\ e \in [epoch : 0..MaxChanges, left : 1..KeyTtl] =>
              Aged(e).epoch = e.epoch /\ Aged(e) \in [epoch : 0..MaxChanges, left : 1..KeyTtl]
         /\ e \in [signedness : Signed, left : 1..(DsTtl + SignedTtl)] =>
              /\ Aged(e).signedness = e.signedness
              /\ Aged(e) \in [signedness : Signed, left : 1..(DsTtl + SignedTtl)]
<1> DEFINE l == e.left - 1
<1>1. e.left # 1 /\ Aged(e) = [e EXCEPT !.left = l]
  BY Zenon DEF Aged
<1> USE <1>1
<1>2. l >= 1 /\ l \in Nat
  OBVIOUS
<1> USE <1>2
<1>3. ASSUME e \in [epoch : 0..MaxChanges, left : 1..KeyTtl]
      PROVE  /\ Aged(e).left = l /\ Aged(e).epoch = e.epoch
             /\ Aged(e) \in [epoch : 0..MaxChanges, left : 1..KeyTtl]
  <2>1. l \in 1..KeyTtl
    BY <1>3, BoundsAssumption
  <2> HIDE DEF l
  <2> QED
    BY <1>3, <2>1, Zenon
<1>4. ASSUME e \in [signedness : Signed, left : 1..(DsTtl + SignedTtl)]
      PROVE  /\ Aged(e).left = l /\ Aged(e).signedness = e.signedness
             /\ Aged(e) \in [signedness : Signed, left : 1..(DsTtl + SignedTtl)]
  <2>1. l \in 1..(DsTtl + SignedTtl)
    BY <1>4, Lifetimes
  <2> HIDE DEF l
  <2> QED
    BY <1>4, <2>1, Zenon
<1> QED
  BY <1>3, <1>4, Zenon

LEMMA TickKeys ==
  ASSUME Typed, Tick, NEW n \in Names, KeysCached(n)
  PROVE  key_trust_cache'[n] \in KeyEntries /\ KeysCached(n)'
<1>1. PICK e : e = key_trust_cache[n]
  BY Zenon
<1>2. PICK d : d = key_trust_cache'[n]
  BY Zenon
<1>3. d = Aged(e)
  BY <1>1, <1>2, Zenon DEF Tick
<1>4. SUFFICES ASSUME d # NoEntry
               PROVE  d \in KeyEntries /\ KeysCached(n)'
  BY <1>2, Zenon DEF KeysCached, KeyEntries
<1>5. e # NoEntry
  BY <1>3, <1>4, Zenon DEF Aged
<1> DEFINE j == e.epoch
           l == e.left
           T == KeysTtl(n)
<1>6. e \in [epoch : 0..MaxChanges, left : 1..KeyTtl] /\ l \in Nat /\ l >= 1 /\ j \in Nat
  BY <1>1, <1>5, KeyEntry, Zenon
<1>7. d \in [epoch : 0..MaxChanges, left : 1..KeyTtl] /\ d.epoch = j /\ d.left = l - 1
  BY <1>3, <1>4, <1>5, <1>6, AgedEntry, Zenon
<1>8. /\ l <= T /\ Keyed(<<n, j>>)
      /\ j < Epoch(n) => past[n][j + 1].age + l <= T
  BY <1>1, <1>5, Zenon DEF KeysCached
<1>9. T \in Nat
  BY Lifetimes
<1> HIDE DEF l, j, T
<1>10. PICK k : k = <<n, j>>
  BY Zenon
<1>11. k \in Names \X Nat /\ k[1] = n /\ k[2] = j /\ Keyed(k)
  BY <1>6, <1>8, <1>10, Zenon
<1>12. Keyed(k)' /\ (j < Epoch(n) => n \in Zones /\ j + 1 \in 1..Len(past[n]))
  BY <1>11, TickKeyed, Zenon
<1>13. ASSUME j < Epoch(n) PROVE past'[n][j + 1].age + (l - 1) <= T
  <2> DEFINE a == past[n][j + 1].age
             b == past'[n][j + 1].age
  <2>1. a \in Nat /\ b \in Nat /\ b <= a + 1
    BY <1>12, <1>13, TickFacts, Zenon
  <2>2. a + l <= T
    BY <1>8, <1>13, Zenon
  <2> HIDE DEF a, b
  <2>3. b + (l - 1) <= T
    BY <1>6, <1>9, <2>1, <2>2
  <2> QED
    BY <2>3, Zenon DEF b
<1>14. Epoch(n)' = Epoch(n) /\ l - 1 <= T
  BY <1>6, <1>8, <1>9, TickFacts
<1> USE <1>7
<1>15. KeysCached(n)'
  <2> USE <1>2
  <2>1. /\ d.left <= T /\ Keyed(<<n, d.epoch>>)'
        /\ d.epoch < Epoch(n)' => past'[n][d.epoch + 1].age + d.left <= T
    <3>1. k = <<n, d.epoch>>
      BY <1>10, Zenon
    <3>2. Keyed(<<n, key_trust_cache[n].epoch>>)'
      BY <1>12, <3>1, Zenon
    <3> QED
      BY <1>13, <1>14, <3>2, Zenon
  <2> QED
    BY <2>1, Zenon DEF KeysCached, T, KeysTtl
<1> QED
  BY <1>15, Zenon DEF KeyEntries

LEMMA TickSignedness ==
  ASSUME Typed, Tick, NEW n \in Names, SignednessCached(n)
  PROVE  signed_zone_cache'[n] \in SignedEntries /\ SignednessCached(n)'
<1>1. PICK e : e = signed_zone_cache[n]
  BY Zenon
<1>2. PICK d : d = signed_zone_cache'[n]
  BY Zenon
<1>3. d = Aged(e)
  BY <1>1, <1>2, Zenon DEF Tick
<1>4. SUFFICES ASSUME d # NoEntry
               PROVE  d \in SignedEntries /\ SignednessCached(n)'
  BY <1>2, Zenon DEF SignednessCached, SignedEntries
<1>5. e # NoEntry
  BY <1>3, <1>4, Zenon DEF Aged
<1> DEFINE l == e.left
           m == d.left
           T == DsTtl + SignedTtl
<1>6. e \in [signedness : Signed, left : 1..(DsTtl + SignedTtl)] /\ l \in Nat /\ l >= 1
  BY <1>1, <1>5, SignedEntry, Zenon
<1>7. /\ d \in [signedness : Signed, left : 1..(DsTtl + SignedTtl)]
      /\ d.signedness = e.signedness /\ m = l - 1
  BY <1>3, <1>4, <1>5, <1>6, AgedEntry, Zenon
<1>8. DsTtl \in Nat /\ SignedTtl \in Nat /\ T \in Nat /\ \A y \in 1..n : y \in Zones
  BY Lifetimes, ZonesAssumption DEF Zones, Names
<1> HIDE DEF l, m, T
<1>9. ASSUME NEW y \in 1..n, NEW i \in 1..Len(past[y])
      PROVE  /\ i \in 1..Len(past'[y]) /\ past'[y][i].kind = past[y][i].kind
             /\ past[y][i].age + l <= DsTtl => past'[y][i].age + m <= DsTtl
             /\ past[y][i].age + l < T => past'[y][i].age + m < T
  <2> DEFINE a == past[y][i].age
             b == past'[y][i].age
  <2> USE <1>8
  <2>1. i \in 1..Len(past'[y]) /\ past'[y][i].kind = past[y][i].kind
    BY TickFacts, Zenon
  <2>2. a \in Nat /\ b \in Nat /\ b <= a + 1
    BY TickFacts, Zenon
  <2>3. l \in Nat /\ m = l - 1 /\ DsTtl \in Nat /\ T \in Nat
    BY <1>6, <1>7, Zenon
  <2> HIDE DEF a, b
  <2>4. (a + l <= DsTtl => b + m <= DsTtl) /\ (a + l < T => b + m < T)
    BY <2>2, <2>3
  <2> QED
    BY <2>1, <2>4, Zenon DEF a, b
<1>10. \A y : Kind(y)' = Kind(y)
  BY TickFacts, Zenon
<1>11. ASSUME d.signedness = "ProvenUnsigned"
       PROVE  /\ m <= DsTtl
              /\ \E y \in 1..n :
                   \/ Kind(y)' \in Insecure
                   \/ \E i \in 1..Len(past'[y]) :
                        past'[y][i].kind \in Insecure /\ past'[y][i].age + m <= DsTtl
  <2>1. /\ l <= DsTtl
        /\ \E y \in 1..n :
             \/ Kind(y) \in Insecure
             \/ \E i \in 1..Len(past[y]) :
                  past[y][i].kind \in Insecure /\ past[y][i].age + l <= DsTtl
    BY <1>1, <1>5, <1>7, <1>11, Zenon DEF SignednessCached, l
  <2>2. m <= DsTtl
    BY <1>6, <1>7, <1>8, <2>1
  <2> QED
    BY <1>9, <1>10, <2>1, <2>2, Zenon
<1>12. ASSUME d.signedness = "Signed"
       PROVE  /\ m <= SignedTtl
              /\ \/ SignedAt(n)'
                 \/ \E y \in 1..n : \E i \in 1..Len(past'[y]) : past'[y][i].age + m < T
  <2>1. /\ l <= SignedTtl
        /\ \/ SignedAt(n)
           \/ \E y \in 1..n : \E i \in 1..Len(past[y]) : past[y][i].age + l < T
    BY <1>1, <1>5, <1>7, <1>12, Zenon DEF SignednessCached, l, T
  <2>2. m <= SignedTtl
    BY <1>6, <1>7, <1>8, <2>1
  <2>3. SignedAt(n) => SignedAt(n)'
    BY <1>10, Zenon DEF SignedAt
  <2> QED
    BY <1>9, <2>1, <2>2, <2>3, Zenon
<1>13. SignednessCached(n)'
  BY <1>2, <1>11, <1>12, Zenon DEF SignednessCached, m, T
<1> QED
  BY <1>7, <1>13, Zenon DEF SignedEntries

LEMMA TickInv ==
  ASSUME ValidatorInv, Tick
  PROVE  ValidatorInv'
<1>1. Typed /\ (\A n \in Names : KeysCached(n) /\ SignednessCached(n))
      /\ \A t \in Tasks : FrameInv(frames[t])
  BY Zenon DEF ValidatorInv
<1>2. ASSUME NEW t \in Tasks PROVE frames'[t] \in Frame /\ FrameInv(frames[t])'
  <2>1. PICK f : f = frames[t]
    BY Zenon
  <2>2. PICK x : x = frames'[t]
    BY Zenon
  <2>3. f \in Frame /\ f.pc # "walk" /\ f.waited \in 0..MaxFetch /\ FrameInv(f)
    <3>1. f \in Frame /\ FrameInv(f)
      BY <1>1, <2>1, Zenon DEF Typed, TypeOK
    <3>2. f.pc # "walk"
      BY <2>1, Zenon DEF Tick, Waiting
    <3> QED
      BY <3>1, <3>2, FrameFields, Zenon
  <2>4. x = IF f.pc \in Waiting THEN [f EXCEPT !.waited = @ + 1] ELSE f
    BY <2>1, <2>2, Zenon DEF Tick
  <2> USE <2>3
  <2>5. CASE f.pc \in Waiting
    <3> DEFINE w == f.waited + 1
    <3>1. f.waited < MaxFetch
      BY <2>1, <2>5, Zenon DEF Tick, Waiting
    <3>2. w \in 0..MaxFetch /\ x = [f EXCEPT !.waited = w]
      BY <2>4, <2>5, <3>1, BoundsAssumption
    <3> HIDE DEF w
    <3>3. x \in Frame /\ FrameInv(x)'
      BY <1>1, <3>2, TickFrame, Zenon
    <3> QED
      BY <2>2, <3>3, Zenon
  <2>6. CASE f.pc \notin Waiting
    <3> DEFINE w == f.waited
    <3>1. w \in 0..MaxFetch /\ x = [f EXCEPT !.waited = w]
      BY <2>4, <2>6, Zenon DEF Frame
    <3> HIDE DEF w
    <3>2. x \in Frame /\ FrameInv(x)'
      BY <1>1, <3>1, TickFrame, Zenon
    <3> QED
      BY <2>2, <3>2, Zenon
  <2> QED
    BY <2>5, <2>6, Zenon
<1>3. \A n \in Names :
        /\ key_trust_cache'[n] \in KeyEntries /\ signed_zone_cache'[n] \in SignedEntries
        /\ KeysCached(n)' /\ SignednessCached(n)'
  BY <1>1, TickKeys, TickSignedness, Zenon
<1>4. /\ key_trust_cache' \in [Names -> KeyEntries]
      /\ signed_zone_cache' \in [Names -> SignedEntries]
      /\ frames' \in [Tasks -> Frame] /\ kind' = kind
  BY <1>2, <1>3, Zenon DEF Tick
<1>5. Typed'
  BY <1>1, <1>4, TickFacts, Zenon DEF Typed, TypeOK, KeyEntries, SignedEntries
<1> QED
  BY <1>2, <1>3, <1>5, Zenon DEF ValidatorInv
=============================================================================
