-------------------------- MODULE ValidatorFrames ---------------------------
(***************************************************************************)
(* The inductive invariant of Validator, for any number of validations,    *)
(* tree of zones, messages, TTLs and budget; and what each step of a       *)
(* validation makes of its frame: the invariant holds of it, and there is  *)
(* less to do.                                                             *)
(***************************************************************************)
EXTENDS Validator, TLAPS

(***************************************************************************)
(* The inductive invariant has a part about the shape of each frame, which *)
(* the zones have no part in, and parts that relate frames and caches to   *)
(* what the zones are and were.                                            *)
(***************************************************************************)
Active(f) == f.pc \notin {"idle", "done"}
Walking(f) == f.pc \in {"walk", "ds", "dnskey"}

\* A frame well typed, whose signatures are by zones above their RRsets.
Formed(f) ==
  /\ f \in Frame
  /\ f.last_ttl \in 1..SignedTtl
  /\ \A i \in 1..Len(f.links) : \A j \in 1..Len(f.links[i].sigs) :
       f.links[i].sigs[j].keys[1] <= f.links[i].owner

\* There is an RRset at hand, and no check has been refused.
Pending(f) == f.links # <<>> /\ f.todo = Len(f.links) /\ ~f.refused

\* What a walk to target is for fits the RRset at hand.
Purposed(f, target, use) ==
  /\ target <= f.links[1].owner
  /\ use = "rrset" => /\ ~f.links[1].bare /\ f.links[1].sigs # <<>>
                      /\ target = f.links[1].sigs[1].keys[1]
  /\ use = "signed" => f.links[1].bare
  /\ use = "negative" => target = f.links[1].owner

\* A frame's locals fit together, and the walk stays on the path to its target.
Shape(f) ==
  /\ Formed(f)
  /\ Active(f) => Pending(f)
  /\ f.pc \in {"signed", "apex"} => f.links[1].bare
  /\ Walking(f) =>
       /\ Purposed(f, f.target, f.use)
       /\ f.zone <= f.target + 1
       /\ f.zone > 0 => f.keys \in Names \X Nat /\ f.keys[1] < f.zone
  /\ f.pc = "ds" => f.zone \in 1..f.target
  /\ f.pc = "dnskey" => f.zone <= f.target /\ (f.zone = 0 => f.ds = 0)
  /\ f.pc = "done" =>
       /\ f.verdict = "Secure" => f.todo = 0
       /\ f.refused => f.verdict \in {"Bogus", "InsecureUnknown"}

\* Keys k were those of a signed zone, which it has, or had in a past epoch.
Keyed(k) ==
  /\ k[2] <= Epoch(k[1])
  /\ k[2] = Epoch(k[1]) => Kind(k[1]) = "signed"
  /\ k[2] < Epoch(k[1]) => past[k[1]][k[2] + 1].kind = "signed"

\* Keys the walk has been given are fresh until it waits again; and below their
\* zone it found none, or one has begun since.
Trusts(f) ==
  f.pc \in {"walk", "ds"} /\ f.zone > 0 =>
    /\ Keyed(f.keys)
    /\ f.pc = "walk" =>
         /\ f.keys[2] < Epoch(f.keys[1]) => past[f.keys[1]][f.keys[2] + 1].age < DsTtl
         /\ \A y \in (f.keys[1] + 1)..(f.zone - 1) :
              Kind(y) = "none" \/ \E i \in 1..Len(past[y]) : past[y][i].age < DsTtl

\* An RRset that came as its zone has it.
Genuine(r) ==
  IF Kind(Apex(r.owner)) = "unsigned" THEN r.bare
  ELSE /\ ~r.bare /\ r.sigs # <<>> /\ r.sigs[Len(r.sigs)].good
       /\ \A j \in 1..Len(r.sigs) : r.sigs[j].keys = KeysOf(Apex(r.owner))

SecureAbove(n) == \A y \in 1..n : Kind(y) \in {"signed", "none"}

\* A validation that deserves to succeed sees the zones as they are.
Honest(f) ==
  /\ Settled
  /\ \A i \in 1..Len(f.links) : Genuine(f.links[i])
  /\ f.any_trusted => SecureAbove(Apex(f.links[1].owner))

\* What its walk is for lets it end well.
Promising(f, target, use) ==
  /\ use = "signed" => target = Apex(f.links[1].owner)
  /\ use = "negative" => f.proof # "Bogus"

Deserving(f) ==
  f.good =>
    /\ Settled
    /\ Active(f) => Honest(f)
    /\ Walking(f) =>
         /\ Promising(f, f.target, f.use)
         /\ SecureAbove(f.zone - 1)
         /\ f.pc # "dnskey" /\ f.zone > 0 => f.keys = KeysOf(Apex(f.zone - 1))
         /\ f.pc = "dnskey" => Kind(f.zone) = "signed" /\ f.ds = Epoch(f.zone)
    /\ f.pc = "done" /\ f.verdict = "Bogus" => f.refused

FrameInv(f) == Shape(f) /\ Trusts(f) /\ Deserving(f)

\* The keys cached for z are those it has, or had no longer ago than their TTL
\* allows.
KeysCached(z) ==
  LET e == key_trust_cache[z] IN
  e # NoEntry =>
    /\ e.left <= KeysTtl(z)
    /\ Keyed(<<z, e.epoch>>)
    /\ e.epoch < Epoch(z) => past[z][e.epoch + 1].age + e.left <= KeysTtl(z)

\* The zone that n is in is signed.
SignedAt(n) ==
  \E a \in 0..n : Kind(a) = "signed" /\ \A b \in (a + 1)..n : Kind(b) = "none"

\* What is cached of n holds, or did no longer ago than the entry is old.
SignednessCached(n) ==
  LET e == signed_zone_cache[n] IN
  e # NoEntry =>
    /\ e.signedness = "ProvenUnsigned" =>
         /\ e.left <= DsTtl
         /\ \E y \in 1..n :
              \/ Kind(y) \in Insecure
              \/ \E i \in 1..Len(past[y]) :
                   past[y][i].kind \in Insecure /\ past[y][i].age + e.left <= DsTtl
    /\ e.signedness = "Signed" =>
         /\ e.left <= SignedTtl
         /\ \/ SignedAt(n)
            \/ \E y \in 1..n : \E i \in 1..Len(past[y]) :
                 past[y][i].age + e.left < DsTtl + SignedTtl

\* The naturals are well-ordered: what the lemmas have instead of induction.
\* ValidatorProofs proves it.
Ordered == \A T \in SUBSET Nat : T # {} => \E x \in T : \A y \in T : x <= y

Typed == TypeOK /\ Ordered

ValidatorInv ==
  /\ Typed
  /\ \A n \in Names : KeysCached(n) /\ SignednessCached(n)
  /\ \A t \in Tasks : FrameInv(frames[t])

(***************************************************************************)
(* The apex of a name.                                                     *)
(***************************************************************************)
LEMMA ZoneFacts ==
  ASSUME Typed
  PROVE  /\ Kind(0) = "signed" /\ Epoch(0) = 0
         /\ \A n \in Names : Kind(n) \in ZoneKind /\ Epoch(n) \in 0..MaxChanges
         /\ 0 \in Names /\ Depth \in Nat
BY ZonesAssumption, BoundsAssumption DEF Typed, TypeOK, Kind, Epoch, Names, Zones, ZoneKind

\* Kind(0) is "signed", so there is a zone at or above every name.
LEMMA ApexFacts ==
  ASSUME Typed, NEW n \in Names
  PROVE  /\ Apex(n) \in 0..n /\ Apex(n) \in Names
         /\ Kind(Apex(n)) # "none"
         /\ \A b \in (Apex(n) + 1)..n : Kind(b) = "none"
<1> DEFINE T == {m \in 0..n : Kind(n - m) # "none"}
<1>1. n \in Nat
  BY ZonesAssumption DEF Names
<1> USE <1>1
<1>2. n \in T
  BY ZoneFacts
<1>3. PICK x \in T : \A y \in T : x <= y
  <2> HIDE DEF T
  <2>1. T \subseteq Nat
    BY DEF T
  <2> QED
    BY <1>2, <2>1, Zenon DEF Typed, Ordered
<1>4. \A b \in (n - x + 1)..n : Kind(b) = "none"
  <2>1. SUFFICES ASSUME NEW b \in (n - x + 1)..n, Kind(b) # "none" PROVE FALSE
    BY Zenon
  <2>2. n - b \in 0..n /\ n - (n - b) = b /\ n - b < x
    OBVIOUS
  <2> QED
    BY <1>3, <2>1, <2>2
<1>5. n - x \in 0..n /\ Kind(n - x) # "none"
  OBVIOUS
<1>6. /\ Apex(n) \in 0..n /\ Kind(Apex(n)) # "none"
      /\ \A b \in (Apex(n) + 1)..n : Kind(b) = "none"
  BY <1>4, <1>5, Zenon DEF Apex
<1> QED
  BY <1>6, ZonesAssumption DEF Names

LEMMA ApexIs ==
  ASSUME Typed, NEW n \in Names, NEW a \in 0..n,
         Kind(a) # "none", \A b \in (a + 1)..n : Kind(b) = "none"
  PROVE  Apex(n) = a
<1>1. n \in Nat
  BY ZonesAssumption DEF Names
<1>2. ~(Apex(n) < a) /\ ~(a < Apex(n))
  BY <1>1, ApexFacts
<1> QED
  BY <1>1, <1>2, ApexFacts

LEMMA SignedApex ==
  ASSUME Typed, NEW n \in Names
  PROVE  SignedAt(n) <=> Kind(Apex(n)) = "signed"
<1>1. ASSUME NEW a \in 0..n, Kind(a) = "signed", \A b \in (a + 1)..n : Kind(b) = "none"
      PROVE  Kind(Apex(n)) = "signed"
  BY <1>1, ApexIs, Zenon
<1>2. ASSUME Kind(Apex(n)) = "signed" PROVE SignedAt(n)
  BY <1>2, ApexFacts, Zenon DEF SignedAt
<1> QED
  BY <1>1, <1>2, Zenon DEF SignedAt

(***************************************************************************)
(* What the invariant says of a frame, of a past and of an entry.          *)
(***************************************************************************)
LEMMA Lifetimes ==
  /\ SignedTtl \in Nat /\ DefaultTtl \in 1..SignedTtl /\ KeyTtl \in 1..SignedTtl
  /\ DsTtl \in Nat /\ DsTtl >= 1
  /\ \A z : KeysTtl(z) \in 1..KeyTtl /\ (z # 0 => KeysTtl(z) <= DsTtl)
BY BoundsAssumption, ZonesAssumption DEF SignedTtl, KeysTtl, Min2

LEMMA FrameFields ==
  ASSUME NEW f \in Frame
  PROVE  /\ f.links \in Seq(RRset) /\ f.bare \in BOOLEAN /\ f.wildcard \in BOOLEAN
         /\ f.proof \in DnssecStatus /\ f.use \in {"rrset", "signed", "negative"}
         /\ f.any_trusted \in BOOLEAN /\ f.target \in Names /\ f.zone \in 0..Depth + 1
         /\ f.keys \in (Names \X Nat) \cup {NoKeys} /\ f.ds \in Nat
         /\ f.last_ttl \in Nat /\ f.used \in 0..MaxSigChecks
         /\ f.verdict \in DnssecStatus /\ f.refused \in BOOLEAN /\ f.good \in BOOLEAN
         /\ f.todo \in Int /\ f.waited \in 0..MaxFetch
         /\ f.pc \in {"idle", "rrset", "signed", "apex", "walk", "ds", "dnskey", "done"}
BY Zenon DEF Frame

LEMMA IdleFormed == Idle \in Frame
BY BoundsAssumption, ZonesAssumption DEF Idle, Frame, Names, DnssecStatus

LEMMA FramePending ==
  ASSUME NEW f, FrameInv(f), Active(f)
  PROVE  /\ f \in Frame /\ Formed(f) /\ Pending(f)
         /\ f.links \in Seq(RRset) /\ f.links # <<>> /\ Len(f.links) > 0
         /\ f.links[1] \in RRset /\ f.links[1].owner \in Names
         /\ f.links[1].sigs \in Seq(Sig)
         /\ f.refused \in BOOLEAN /\ ~f.refused /\ f.good \in BOOLEAN /\ f.todo \in Int
         /\ f.good => Settled /\ Honest(f) /\ Genuine(f.links[1])
<1>1. f \in Frame /\ Formed(f) /\ Pending(f)
  BY Zenon DEF FrameInv, Shape, Formed
<1>2. f.links \in Seq(RRset) /\ f.links # <<>>
  BY <1>1, FrameFields, Zenon DEF Pending
<1> USE <1>2
<1>3. Len(f.links) > 0 /\ f.links[1] \in RRset
  OBVIOUS
<1> USE <1>3
<1>4. f.links[1].owner \in Names /\ f.links[1].sigs \in Seq(Sig)
  BY Zenon DEF RRset
<1>5. f.refused \in BOOLEAN /\ ~f.refused /\ f.good \in BOOLEAN /\ f.todo \in Int
  BY <1>1, FrameFields, Zenon DEF Pending
<1>6. ASSUME f.good PROVE Settled /\ Honest(f)
  BY <1>6, Zenon DEF FrameInv, Deserving
<1>7. ASSUME f.good PROVE Genuine(f.links[1])
  BY <1>6, <1>7 DEF Honest
<1> QED
  BY <1>1, <1>4, <1>5, <1>6, <1>7, Zenon

LEMMA WalkingFacts ==
  ASSUME NEW f, FrameInv(f), Walking(f)
  PROVE  /\ f \in Frame /\ Formed(f) /\ Pending(f) /\ Purposed(f, f.target, f.use)
         /\ f.links # <<>> /\ f.links[1].owner \in Names
         /\ f.target \in Names /\ f.target \in Nat /\ f.target <= Depth
         /\ f.zone \in Nat /\ f.zone <= f.target + 1
         /\ f.zone > 0 => /\ f.keys \in Names \X Nat /\ f.keys[1] < f.zone
                          /\ f.keys[1] \in Nat /\ f.keys[2] \in Nat
         /\ f.pc = "ds" => f.zone \in 1..f.target
         /\ f.pc = "dnskey" => f.zone <= f.target /\ (f.zone = 0 => f.ds = 0)
         /\ f.good => /\ Settled /\ Honest(f) /\ Promising(f, f.target, f.use)
                      /\ SecureAbove(f.zone - 1)
                      /\ f.pc # "dnskey" /\ f.zone > 0 => f.keys = KeysOf(Apex(f.zone - 1))
                      /\ f.pc = "dnskey" => Kind(f.zone) = "signed" /\ f.ds = Epoch(f.zone)
<1>1. Active(f)
  BY Zenon DEF Active, Walking
<1>2. f \in Frame /\ Formed(f) /\ Pending(f) /\ f.links # <<>> /\ f.links[1].owner \in Names
  BY <1>1, FramePending, Zenon
<1>3. /\ f.target \in Names /\ f.target \in Nat /\ f.target <= Depth /\ f.zone \in Nat
  BY <1>2, FrameFields, ZonesAssumption DEF Names
<1>4. /\ Purposed(f, f.target, f.use) /\ f.zone <= f.target + 1
      /\ f.zone > 0 => f.keys \in Names \X Nat /\ f.keys[1] < f.zone
      /\ f.pc = "ds" => f.zone \in 1..f.target
      /\ f.pc = "dnskey" => f.zone <= f.target /\ (f.zone = 0 => f.ds = 0)
  BY Zenon DEF FrameInv, Shape
<1>5. f.zone > 0 => f.keys[1] \in Nat /\ f.keys[2] \in Nat
  BY <1>4, ZonesAssumption DEF Names
<1>6. f.good => /\ Settled /\ Honest(f) /\ Promising(f, f.target, f.use)
                /\ SecureAbove(f.zone - 1)
                /\ f.pc # "dnskey" /\ f.zone > 0 => f.keys = KeysOf(Apex(f.zone - 1))
                /\ f.pc = "dnskey" => Kind(f.zone) = "signed" /\ f.ds = Epoch(f.zone)
  BY <1>1, Zenon DEF FrameInv, Deserving
<1> QED
  BY <1>2, <1>3, <1>4, <1>5, <1>6, Zenon

LEMMA PastFacts ==
  ASSUME Typed, NEW z \in Zones
  PROVE  /\ past[z] \in Seq([kind : ZoneKind, age : 0..Horizon])
         /\ Len(past[z]) \in 0..MaxChanges /\ Epoch(z) = Len(past[z])
         /\ Kind(z) = kind[z] /\ z \in Names /\ z # 0
         /\ \A i \in 1..Len(past[z]) :
              past[z][i].kind \in ZoneKind /\ past[z][i].age \in 0..Horizon
<1> DEFINE E == [kind : ZoneKind, age : 0..Horizon]
<1>1. past[z] \in Seq(E) /\ Len(past[z]) <= MaxChanges
  BY Zenon DEF Typed, TypeOK
<1>2. z \in Names /\ z # 0
  BY ZonesAssumption DEF Zones, Names
<1>3. Len(past[z]) \in Nat /\ \A i \in 1..Len(past[z]) : past[z][i] \in E
  <2> HIDE DEF E
  <2> QED
    BY <1>1
<1> QED
  BY <1>1, <1>2, <1>3, BoundsAssumption DEF Epoch, Kind

LEMMA SignedEntry ==
  ASSUME Typed, NEW n \in Names, signed_zone_cache[n] # NoEntry
  PROVE  /\ signed_zone_cache[n] \in [signedness : Signed, left : 1..(DsTtl + SignedTtl)]
         /\ signed_zone_cache[n].left \in Nat /\ signed_zone_cache[n].left >= 1
<1>1. signed_zone_cache[n] \in [signedness : Signed, left : 1..(DsTtl + SignedTtl)]
  BY Zenon DEF Typed, TypeOK
<1> QED
  BY <1>1

LEMMA KeyEntry ==
  ASSUME Typed, NEW n \in Names, key_trust_cache[n] # NoEntry
  PROVE  /\ key_trust_cache[n] \in [epoch : 0..MaxChanges, left : 1..KeyTtl]
         /\ key_trust_cache[n].epoch \in Nat
         /\ key_trust_cache[n].left \in Nat /\ key_trust_cache[n].left >= 1
<1>1. key_trust_cache[n] \in [epoch : 0..MaxChanges, left : 1..KeyTtl]
  BY Zenon DEF Typed, TypeOK
<1> QED
  BY <1>1

(***************************************************************************)
(* What the frames that the synchronous code makes hold.                   *)
(***************************************************************************)
LEMMA ApexBelow ==
  ASSUME Typed, NEW n \in Names
  PROVE  /\ Kind(n) # "none" => Apex(n) = n
         /\ n > 0 /\ Kind(n) = "none" => Apex(n) = Apex(n - 1)
         /\ Apex(Apex(n)) = Apex(n)
<1>1. n \in Nat
  BY ZonesAssumption DEF Names
<1> USE <1>1
<1>2. Kind(n) # "none" => Apex(n) = n
  BY ApexIs
<1>3. ASSUME n > 0, Kind(n) = "none" PROVE Apex(n) = Apex(n - 1)
  <2>1. n - 1 \in Names
    BY <1>3, ZonesAssumption DEF Names
  <2> USE <2>1
  <2>2. Apex(n - 1) \in 0..n
    BY ApexFacts
  <2>3. \A b \in (Apex(n - 1) + 1)..n : Kind(b) = "none"
    BY <1>3, <2>2, ApexFacts
  <2> QED
    BY <2>2, <2>3, ApexFacts, ApexIs, Zenon
<1>4. Apex(Apex(n)) = Apex(n)
  <2>1. Apex(n) \in Names /\ Apex(n) \in 0..Apex(n) /\ Kind(Apex(n)) # "none"
    BY ApexFacts
  <2>2. \A b \in (Apex(n) + 1)..Apex(n) : Kind(b) = "none"
    BY <2>1
  <2> QED
    BY <2>1, <2>2, ApexIs, Zenon
<1> QED
  BY <1>2, <1>3, <1>4, Zenon

LEMMA DoneFields ==
  ASSUME NEW f, f.refused \in BOOLEAN, f.good \in BOOLEAN, f.todo \in Int,
         NEW s \in DnssecStatus
  PROVE  /\ Done(f, s) \in Frame
         /\ Done(f, s).pc = "done" /\ Done(f, s).verdict = s
         /\ Done(f, s).refused = f.refused /\ Done(f, s).good = f.good
         /\ Done(f, s).todo = Min2(f.todo, 1)
         /\ Done(f, s).links = <<>> /\ Done(f, s).last_ttl = DefaultTtl
<1> DEFINE d == Min2(f.todo, 1)
<1>1. d \in Int
  BY DEF Min2
<1>2. Done(f, s) = [Idle EXCEPT !.pc = "done", !.verdict = s, !.refused = f.refused,
                                !.good = f.good, !.todo = d]
  BY Zenon DEF Done
<1> HIDE DEF d
<1>3. Done(f, s) \in Frame
  <2> DEFINE r == f.refused
             v == f.good
             g == [Idle EXCEPT !.pc = "done", !.verdict = s]
             h == [g EXCEPT !.refused = r, !.good = v, !.todo = d]
  <2>1. r \in BOOLEAN /\ v \in BOOLEAN
    BY Zenon
  <2> HIDE DEF r, v
  <2>2. g \in Frame
    BY IdleFormed, Zenon DEF Frame
  <2>3. Done(f, s) = h
    BY <1>2, Zenon DEF r, v
  <2> HIDE DEF g
  <2>4. h \in Frame
    BY <1>1, <2>1, <2>2, Zenon DEF Frame
  <2> QED
    BY <2>3, <2>4, Zenon
<1>4. /\ Done(f, s).pc = "done" /\ Done(f, s).verdict = s
      /\ Done(f, s).refused = f.refused /\ Done(f, s).good = f.good
      /\ Done(f, s).todo = d
      /\ Done(f, s).links = Idle.links /\ Done(f, s).last_ttl = Idle.last_ttl
  BY <1>2, IdleFormed, Zenon DEF Frame
<1>5. Idle.links = <<>> /\ Idle.last_ttl = DefaultTtl
  BY Zenon DEF Idle
<1> QED
  BY <1>3, <1>4, <1>5, Zenon DEF d

LEMMA WalkFields ==
  ASSUME NEW f \in Frame, NEW target \in Names, NEW use \in {"rrset", "signed", "negative"}
  PROVE  LET g == Walk(f, target, use) IN
         /\ g \in Frame
         /\ g.pc = "walk" /\ g.target = target /\ g.use = use /\ g.zone = 0
         /\ g.last_ttl = DefaultTtl
         /\ g.links = f.links /\ g.any_trusted = f.any_trusted /\ g.proof = f.proof
         /\ g.refused = f.refused /\ g.good = f.good /\ g.todo = f.todo
<1> DEFINE g == Walk(f, target, use)
<1>1. 0 \in 0..Depth + 1 /\ DefaultTtl \in Nat /\ 0 \in 0..MaxFetch
  BY BoundsAssumption, ZonesAssumption
<1>2. g \in Frame
  BY <1>1, Zenon DEF Walk, Frame
<1>3. /\ g.pc = "walk" /\ g.target = target /\ g.use = use /\ g.zone = 0
      /\ g.last_ttl = DefaultTtl
  BY Zenon DEF Walk, Frame
<1>4. /\ g.links = f.links /\ g.any_trusted = f.any_trusted /\ g.proof = f.proof
      /\ g.refused = f.refused /\ g.good = f.good /\ g.todo = f.todo
  BY Zenon DEF Walk, Frame
<1> QED
  BY <1>2, <1>3, <1>4, Zenon

LEMMA SpendFields ==
  ASSUME NEW f \in Frame, NEW n \in Nat
  PROVE  LET g == Spend(f, n) IN
         /\ g \in Frame
         /\ g.refused = (f.refused \/ ~CanCheck(f, n))
         /\ g.pc = f.pc /\ g.links = f.links /\ g.bare = f.bare
         /\ g.wildcard = f.wildcard /\ g.proof = f.proof /\ g.use = f.use
         /\ g.any_trusted = f.any_trusted /\ g.target = f.target /\ g.zone = f.zone
         /\ g.keys = f.keys /\ g.last_ttl = f.last_ttl
         /\ g.good = f.good /\ g.todo = f.todo
<1> DEFINE g == Spend(f, n)
           u == Min2(f.used + n, MaxSigChecks)
           r == f.refused \/ ~CanCheck(f, n)
<1>1. u \in 0..MaxSigChecks /\ r \in BOOLEAN
  BY FrameFields, BoundsAssumption DEF Min2
<1>2. g = [f EXCEPT !.used = u, !.refused = r]
  BY Zenon DEF Spend
<1> HIDE DEF u, r, g
<1>3. g \in Frame
  BY <1>1, <1>2, Zenon DEF Frame
<1>4. /\ g.pc = f.pc /\ g.links = f.links /\ g.bare = f.bare
      /\ g.wildcard = f.wildcard /\ g.proof = f.proof /\ g.use = f.use
      /\ g.any_trusted = f.any_trusted /\ g.target = f.target /\ g.zone = f.zone
      /\ g.keys = f.keys /\ g.last_ttl = f.last_ttl
      /\ g.good = f.good /\ g.todo = f.todo /\ g.refused = r
  BY <1>2, Zenon DEF Frame
<1> QED
  BY <1>3, <1>4, Zenon DEF g, r

LEMMA DoneInv ==
  ASSUME NEW f, f.refused \in BOOLEAN, f.good \in BOOLEAN, f.todo \in Int,
         NEW s \in DnssecStatus,
         s = "Secure" => f.todo = 0,
         f.refused => s \in {"Bogus", "InsecureUnknown"},
         f.good => Settled /\ (s = "Bogus" => f.refused)
  PROVE  FrameInv(Done(f, s))
<1> DEFINE g == Done(f, s)
<1>1. /\ g \in Frame /\ g.pc = "done" /\ g.verdict = s /\ g.refused = f.refused
      /\ g.good = f.good /\ g.todo = Min2(f.todo, 1) /\ g.links = <<>>
      /\ g.last_ttl = DefaultTtl
  BY DoneFields
<1> HIDE DEF g
<1> USE <1>1
<1>2. Len(g.links) = 0
  OBVIOUS
<1>3. Formed(g)
  BY <1>2, Lifetimes DEF Formed
<1>4. Shape(g)
  BY <1>3 DEF Shape, Active, Walking, Min2
<1>5. Trusts(g) /\ Deserving(g)
  BY Zenon DEF Trusts, Deserving, Active, Walking
<1> QED
  BY <1>4, <1>5, Zenon DEF FrameInv, g

LEMMA WalkInv ==
  ASSUME NEW f \in Frame, Formed(f), Pending(f),
         NEW target \in Names, NEW use \in {"rrset", "signed", "negative"},
         Purposed(f, target, use),
         f.good => Honest(f) /\ Promising(f, target, use)
  PROVE  FrameInv(Walk(f, target, use))
<1> DEFINE g == Walk(f, target, use)
<1>1. /\ g \in Frame
      /\ g.pc = "walk" /\ g.target = target /\ g.use = use /\ g.zone = 0
      /\ g.last_ttl = DefaultTtl
      /\ g.links = f.links /\ g.any_trusted = f.any_trusted /\ g.proof = f.proof
      /\ g.refused = f.refused /\ g.good = f.good /\ g.todo = f.todo
  BY WalkFields, SMTT(30)
<1> HIDE DEF g
<1> USE <1>1
<1>2. Formed(g) /\ Pending(g) /\ Purposed(g, g.target, g.use)
  BY Lifetimes, Zenon DEF Formed, Pending, Purposed
<1>3. Shape(g)
  BY <1>2, ZonesAssumption DEF Shape, Walking, Active, Names
<1>4. Trusts(g)
  BY DEF Trusts
<1>5. SecureAbove(-1)
  BY DEF SecureAbove
<1>6. g.good => Honest(g) /\ Promising(g, g.target, g.use)
  BY Zenon DEF Honest, Promising
<1>7. Deserving(g)
  BY <1>5, <1>6 DEF Deserving, Honest
<1> QED
  BY <1>3, <1>4, <1>7, Zenon DEF FrameInv, g

\* The signatures of the first RRset, but the first.
LEMMA NextSigFields ==
  ASSUME NEW f \in Frame, f.links # <<>>, f.links[1].sigs # <<>>
  PROVE  LET g == [f EXCEPT !.links[1].sigs = Tail(@)] IN
         /\ g \in Frame
         /\ g.pc = f.pc /\ g.any_trusted = f.any_trusted /\ g.proof = f.proof
         /\ g.refused = f.refused /\ g.good = f.good /\ g.todo = f.todo
         /\ g.last_ttl = f.last_ttl
         /\ Len(g.links) = Len(f.links) /\ g.links # <<>>
         /\ g.links[1].owner = f.links[1].owner /\ g.links[1].bare = f.links[1].bare
         /\ g.links[1].sigs = Tail(f.links[1].sigs)
         /\ \A i \in 1..Len(f.links) : i # 1 => g.links[i] = f.links[i]
<1> DEFINE r == f.links[1]
           q == [r EXCEPT !.sigs = Tail(@)]
           L == [f.links EXCEPT ![1] = q]
           g == [f EXCEPT !.links[1].sigs = Tail(@)]
<1>1. f.links \in Seq(RRset) /\ 1 \in 1..Len(f.links)
  BY FrameFields
<1>2. r \in RRset
  BY <1>1
<1>3. r.sigs \in Seq(Sig) /\ Tail(r.sigs) \in Seq(Sig)
  BY <1>2 DEF RRset
<1>4. q \in RRset /\ q.owner = r.owner /\ q.bare = r.bare /\ q.sigs = Tail(r.sigs)
  BY <1>2, <1>3, Zenon DEF RRset
<1>5. g = [f EXCEPT !.links = L]
  BY Zenon DEF Frame
<1> HIDE DEF q
<1>6. L \in Seq(RRset) /\ Len(L) = Len(f.links) /\ L[1] = q
      /\ \A i \in 1..Len(f.links) : i # 1 => L[i] = f.links[i]
  BY <1>1, <1>4
<1> HIDE DEF L, g
<1> USE <1>6
<1>7. g \in Frame /\ g.links = L
  BY <1>5, Zenon DEF Frame
<1>8. /\ g.pc = f.pc /\ g.any_trusted = f.any_trusted /\ g.proof = f.proof
      /\ g.refused = f.refused /\ g.good = f.good /\ g.todo = f.todo
      /\ g.last_ttl = f.last_ttl
  BY <1>5, Zenon DEF Frame
<1>9. g.links # <<>>
  BY <1>1, <1>7
<1> QED
  BY <1>4, <1>7, <1>8, <1>9, Zenon DEF g

(***************************************************************************)
(* What the synchronous code makes of a frame: the invariant holds of it,  *)
(* there is less to do, and when the verdict may be InsecureUnsigned.      *)
(***************************************************************************)
SaysUnsigned(g) == g.pc = "done" /\ g.verdict = "InsecureUnsigned"

LEMMA DoneLess ==
  ASSUME NEW f \in Frame, f.links # <<>>,
         NEW h, h.refused \in BOOLEAN, h.good \in BOOLEAN, h.todo \in Int,
         NEW s \in DnssecStatus
  PROVE  /\ Less(Done(h, s), f)
         /\ SaysUnsigned(Done(h, s)) => s = "InsecureUnsigned"
<1>1. Done(h, s).links = <<>> /\ Done(h, s).verdict = s
  BY DoneFields
<1>2. Len(f.links) > 0 /\ Len(<<>>) = 0
  BY FrameFields
<1> QED
  BY <1>1, <1>2, Zenon DEF Less, SaysUnsigned

LEMMA NextSigInv ==
  ASSUME NEW f \in Frame, Formed(f), Pending(f),
         ~f.links[1].bare, f.links[1].sigs # <<>>,
         f.good => Honest(f) /\ (f.any_trusted => Len(f.links[1].sigs) # 1)
  PROVE  /\ FrameInv(NextSig(f)) /\ Less(NextSig(f), f)
         /\ SaysUnsigned(NextSig(f)) => ~f.any_trusted
<1> DEFINE g == [f EXCEPT !.links[1].sigs = Tail(@)]
           s == f.links[1].sigs
           k == g.links[1].sigs[1].keys[1]
<1>1. f.links \in Seq(RRset) /\ f.links # <<>>
  BY FrameFields, Zenon DEF Pending
<1>2. f.links[1] \in RRset /\ s \in Seq(Sig)
  <2>1. f.links[1] \in RRset
    BY <1>1
  <2> QED
    BY <2>1, Zenon DEF RRset
<1>3. /\ g \in Frame
      /\ g.pc = f.pc /\ g.any_trusted = f.any_trusted /\ g.proof = f.proof
      /\ g.refused = f.refused /\ g.good = f.good /\ g.todo = f.todo
      /\ g.last_ttl = f.last_ttl
      /\ Len(g.links) = Len(f.links) /\ g.links # <<>>
      /\ g.links[1].owner = f.links[1].owner /\ g.links[1].bare = f.links[1].bare
      /\ g.links[1].sigs = Tail(s)
      /\ \A i \in 1..Len(f.links) : i # 1 => g.links[i] = f.links[i]
  BY <1>1, NextSigFields, Zenon
<1>4. NextSig(f) = IF g.links[1].sigs # <<>> THEN Walk(g, k, "rrset")
                   ELSE IF g.any_trusted THEN Done(g, "Bogus")
                   ELSE Done(g, "InsecureUnsigned")
  BY Zenon DEF NextSig
<1> HIDE DEF g, s
<1>5. s # <<>> /\ Len(s) > 0 /\ Len(Tail(s)) = Len(s) - 1 /\ Tail(s) \in Seq(Sig)
      /\ \A j \in 1..Len(Tail(s)) : Tail(s)[j] = s[j + 1]
  <2>1. s # <<>>
    BY Zenon DEF s
  <2> QED
    BY <1>2, <2>1
<1>6. Formed(g)
  <2>1. \A j \in 1..Len(Tail(s)) : Tail(s)[j].keys[1] <= f.links[1].owner
    <3>1. \A j \in 1..Len(s) : s[j].keys[1] <= f.links[1].owner
      BY <1>1 DEF Formed, s
    <3> QED
      BY <1>5, <3>1
  <2> QED
    BY <1>3, <2>1, Zenon DEF Formed
<1>7. Pending(g)
  BY <1>3, Zenon DEF Pending
<1>8. CASE Tail(s) # <<>>
  <2>1. Len(Tail(s)) > 0 /\ Tail(s)[1] \in Sig
    <3> DEFINE u == Tail(s)
    <3>1. u \in Seq(Sig) /\ u # <<>>
      BY <1>5, <1>8, Zenon
    <3> HIDE DEF u
    <3>2. Len(u) > 0 /\ u[1] \in Sig
      BY <3>1
    <3> QED
      BY <3>2, Zenon DEF u
  <2> USE <1>3
  <2>2. k \in Names /\ Purposed(g, k, "rrset")
    <3>1. 1 \in 1..Len(Tail(s)) /\ 1 \in 1..Len(g.links)
      BY <1>1, <1>5, <2>1
    <3>2. k \in Names
      BY <2>1, Zenon DEF Sig
    <3>3. k <= g.links[1].owner
      BY <1>6, <3>1, Zenon DEF Formed
    <3> QED
      BY <1>8, <3>2, <3>3, Zenon DEF Purposed
  <2> HIDE DEF k
  <2>3. ASSUME f.good PROVE Honest(g) /\ Promising(g, k, "rrset")
    <3>1. Honest(f)
      BY <2>3, Zenon
    <3>2. Genuine(g.links[1])
      <4>1. Genuine(f.links[1])
        BY <1>1, <3>1 DEF Honest
      <4>2. Tail(s)[Len(Tail(s))] = s[Len(s)]
        BY <1>5, <2>1
      <4>3. \A j \in 1..Len(Tail(s)) : j + 1 \in 1..Len(s)
        BY <1>5
      <4>4. CASE Kind(Apex(f.links[1].owner)) = "unsigned"
        BY <4>1, <4>4, Zenon DEF Genuine
      <4>5. CASE Kind(Apex(f.links[1].owner)) # "unsigned"
        <5>1. /\ s[Len(s)].good
              /\ \A j \in 1..Len(s) : s[j].keys = KeysOf(Apex(f.links[1].owner))
          BY <4>1, <4>5, Zenon DEF Genuine, s
        <5>2. \A j \in 1..Len(Tail(s)) : Tail(s)[j].keys = KeysOf(Apex(f.links[1].owner))
          BY <1>5, <4>3, <5>1, Zenon
        <5> QED
          BY <1>8, <4>2, <4>5, <5>1, <5>2, Zenon DEF Genuine
      <4> QED
        BY <4>4, <4>5, Zenon
    <3>3. \A i \in 1..Len(g.links) : Genuine(g.links[i])
      BY <3>1, <3>2, Zenon DEF Honest
    <3> QED
      BY <3>1, <3>3, Zenon DEF Honest, Promising
  <2>4. FrameInv(Walk(g, k, "rrset"))
    BY <1>6, <1>7, <2>2, <2>3, WalkInv, Zenon
  <2>5. Walk(g, k, "rrset").links = g.links /\ Walk(g, k, "rrset").pc = "walk"
    BY <2>2, WalkFields
  <2> QED
    <3>1. NextSig(f) = Walk(g, k, "rrset")
      BY <1>4, <1>8, Zenon
    <3>2. Less(NextSig(f), f)
      <4>1. Len(g.links[1].sigs) < Len(f.links[1].sigs)
        <5>1. Len(Tail(s)) < Len(s)
          BY <1>2, <1>5
        <5> QED
          BY <5>1, Zenon DEF s
      <4> QED
        BY <2>5, <3>1, <4>1, Zenon DEF Less
    <3> QED
      BY <2>4, <2>5, <3>1, <3>2, Zenon DEF SaysUnsigned
<1>9. CASE Tail(s) = <<>>
  <2>1. /\ g.refused \in BOOLEAN /\ g.good \in BOOLEAN /\ g.todo \in Int
        /\ ~g.refused /\ {"Bogus", "InsecureUnsigned"} \subseteq DnssecStatus
    BY <1>3, <1>7, FrameFields, Zenon DEF Pending, DnssecStatus
  <2>2. g.good => Settled /\ ~g.any_trusted
    <3>1. Len(s) = 1
      BY <1>5, <1>9
    <3> QED
      BY <1>3, <3>1, Zenon DEF Honest, s
  <2>3. CASE g.any_trusted
    <3>1. FrameInv(Done(g, "Bogus"))
      BY <2>1, <2>2, <2>3, DoneInv
    <3>2. NextSig(f) = Done(g, "Bogus")
      BY <1>3, <1>4, <1>9, <2>3, Zenon
    <3>3. Less(Done(g, "Bogus"), f) /\ ~SaysUnsigned(Done(g, "Bogus"))
      BY <1>1, <2>1, DoneLess
    <3> QED
      BY <3>1, <3>2, <3>3, Zenon
  <2>4. CASE ~g.any_trusted
    <3>1. FrameInv(Done(g, "InsecureUnsigned"))
      BY <2>1, <2>2, DoneInv
    <3>2. NextSig(f) = Done(g, "InsecureUnsigned")
      BY <1>3, <1>4, <1>9, <2>4, Zenon
    <3>3. Less(Done(g, "InsecureUnsigned"), f)
      BY <1>1, <2>1, DoneLess
    <3> QED
      BY <1>3, <2>4, <3>1, <3>2, <3>3, Zenon
  <2> QED
    BY <2>3, <2>4, Zenon
<1> QED
  BY <1>8, <1>9, Zenon

LEMMA VerifiedInv ==
  ASSUME NEW f \in Frame, Formed(f), Pending(f), f.good => Honest(f)
  PROVE  FrameInv(Verified(f)) /\ Less(Verified(f), f) /\ ~SaysUnsigned(Verified(f))
<1> DEFINE L == Tail(f.links)
           d == f.todo - 1
           g == [f EXCEPT !.links = L, !.any_trusted = FALSE, !.todo = d]
           h == [g EXCEPT !.pc = "rrset"]
           s == IF g.bare THEN "InsecureUnknown" ELSE wildcard_optout_check(g)
<1>1. /\ f.links \in Seq(RRset) /\ f.links # <<>> /\ Len(f.links) > 0
      /\ f.todo = Len(f.links) /\ ~f.refused
  BY FrameFields DEF Pending
<1>2. /\ L \in Seq(RRset) /\ Len(L) = Len(f.links) - 1 /\ d = Len(L) /\ d \in Int
      /\ \A i \in 1..Len(L) : L[i] = f.links[i + 1] /\ i + 1 \in 1..Len(f.links)
  BY <1>1
<1>3. Verified(f) = IF g.links # <<>> THEN h ELSE Done(g, s)
  BY Zenon DEF Verified
<1> HIDE DEF L, d
<1>4. g \in Frame
  BY <1>2, Zenon DEF Frame
<1>5. /\ g.links = L /\ ~g.any_trusted /\ g.todo = d
      /\ g.refused = f.refused /\ g.good = f.good /\ g.last_ttl = f.last_ttl
  BY Zenon DEF Frame
<1> HIDE DEF g
<1>6. /\ h \in Frame /\ h.pc = "rrset" /\ h.links = L /\ ~h.any_trusted /\ h.todo = d
      /\ h.refused = f.refused /\ h.good = f.good /\ h.last_ttl = f.last_ttl
  BY <1>4, <1>5, Zenon DEF Frame
<1> HIDE DEF h
<1>7. CASE L # <<>>
  <2> USE <1>2, <1>6
  <2>1. Formed(h)
    BY Zenon DEF Formed
  <2>2. Shape(h)
    BY <1>1, <1>7, <2>1, Zenon DEF Shape, Active, Walking, Pending
  <2>3. Trusts(h)
    BY Zenon DEF Trusts
  <2>4. ASSUME h.good PROVE Honest(h)
    BY <2>4, Zenon DEF Honest
  <2>5. Deserving(h)
    BY <2>4, Zenon DEF Deserving, Active, Walking, Honest
  <2>6. Less(h, f)
    BY <1>1 DEF Less
  <2> QED
    BY <1>3, <1>5, <1>7, <2>2, <2>3, <2>5, <2>6, Zenon DEF FrameInv, SaysUnsigned
<1>8. CASE L = <<>>
  <2> USE <1>5
  <2>1. /\ g.refused \in BOOLEAN /\ g.good \in BOOLEAN /\ g.todo \in Int
        /\ ~g.refused
    BY <1>1, <1>4, FrameFields, Zenon
  <2>2. g.todo = 0
    BY <1>2, <1>8, Zenon
  <2>3. s \in DnssecStatus /\ s \in {"InsecureUnknown", "Secure"}
    BY Zenon DEF wildcard_optout_check, DnssecStatus
  <2> HIDE DEF s
  <2>4. g.good => Settled
    BY Zenon DEF Honest
  <2>5. FrameInv(Done(g, s))
    BY <2>1, <2>2, <2>3, <2>4, DoneInv
  <2>6. Less(Done(g, s), f) /\ ~SaysUnsigned(Done(g, s))
    BY <1>1, <2>1, <2>3, DoneLess
  <2> QED
    BY <1>3, <1>8, <2>5, <2>6, Zenon
<1> QED
  BY <1>7, <1>8, Zenon

LEMMA ChainBogusInv ==
  ASSUME NEW f \in Frame, f.links # <<>>,
         f.good => Settled /\ (f.use = "signed" \/ f.refused)
  PROVE  FrameInv(ChainBogus(f)) /\ Less(ChainBogus(f), f) /\ ~SaysUnsigned(ChainBogus(f))
<1>1. /\ f.refused \in BOOLEAN /\ f.good \in BOOLEAN /\ f.todo \in Int
      /\ {"Bogus", "InsecureUnknown"} \subseteq DnssecStatus
  BY FrameFields, Zenon DEF DnssecStatus
<1> USE <1>1
<1>2. CASE f.use = "signed"
  <2>1. FrameInv(Done(f, "InsecureUnknown"))
    BY DoneInv
  <2>2. Less(Done(f, "InsecureUnknown"), f) /\ ~SaysUnsigned(Done(f, "InsecureUnknown"))
    BY DoneLess
  <2> QED
    BY <1>2, <2>1, <2>2, Zenon DEF ChainBogus
<1>3. CASE f.use # "signed"
  <2>1. FrameInv(Done(f, "Bogus"))
    BY <1>3, DoneInv
  <2>2. Less(Done(f, "Bogus"), f) /\ ~SaysUnsigned(Done(f, "Bogus"))
    BY DoneLess
  <2> QED
    BY <1>3, <2>1, <2>2, Zenon DEF ChainBogus
<1> QED
  BY <1>2, <1>3, Zenon

\* When the zones are as the message has them, and a zone on the way is not
\* signed, no signature of the RRset at hand can have been trusted.
LEMMA ChainUnsignedInv ==
  ASSUME Typed, NEW f \in Frame, Formed(f), Pending(f), Purposed(f, f.target, f.use),
         f.good => Honest(f),
         NEW z \in 1..f.target, Kind(z) \in Insecure
  PROVE  FrameInv(ChainUnsigned(f)) /\ Less(ChainUnsigned(f), f)
<1>1. CASE f.use = "rrset"
  <2> USE <1>1
  <2>1. ASSUME f.good PROVE ~f.any_trusted
    <3>1. Genuine(f.links[1]) /\ f.links[1] \in RRset
      BY <2>1, FrameFields DEF Honest, Pending
    <3>2. f.target = Apex(f.links[1].owner)
      <4>1. f.links[1].sigs[1].keys = KeysOf(Apex(f.links[1].owner))
        <5>1. f.links[1].sigs \in Seq(Sig) /\ f.links[1].sigs # <<>> /\ ~f.links[1].bare
          BY <3>1, Zenon DEF RRset, Purposed
        <5>2. 1 \in 1..Len(f.links[1].sigs)
          BY <5>1
        <5> QED
          BY <3>1, <5>1, <5>2, Zenon DEF Genuine
      <4> QED
        BY <4>1 DEF Purposed, KeysOf
    <3> QED
      BY <2>1, <3>2, Zenon DEF Honest, SecureAbove, Insecure
  <2>2. FrameInv(NextSig(f)) /\ Less(NextSig(f), f)
    BY <2>1, NextSigInv, Zenon DEF Purposed
  <2> QED
    BY <2>2, Zenon DEF ChainUnsigned
<1>2. CASE f.use # "rrset"
  <2>1. /\ f.refused \in BOOLEAN /\ f.good \in BOOLEAN /\ f.todo \in Int
        /\ "InsecureUnsigned" \in DnssecStatus /\ f.links # <<>> /\ ~f.refused
    BY FrameFields, Zenon DEF DnssecStatus, Pending
  <2>2. FrameInv(Done(f, "InsecureUnsigned")) /\ Less(Done(f, "InsecureUnsigned"), f)
    BY <2>1, DoneInv, DoneLess DEF Honest
  <2> QED
    BY <1>2, <2>2, Zenon DEF ChainUnsigned
<1> QED
  BY <1>1, <1>2, Zenon

LEMMA LessSame ==
  ASSUME NEW f, NEW g, NEW x, Less(x, g), g.links = f.links, g.pc = f.pc,
         g.target = f.target, g.zone = f.zone
  PROVE  Less(x, f)
<1>1. Rank(g) = Rank(f)
  BY Zenon DEF Rank
<1> QED
  BY <1>1, Zenon DEF Less

\* At the end of a walk the keys are those of the target's zone, which is
\* signed, if the zones are as the message has them.
LEMMA WalkEnd ==
  ASSUME Typed, NEW f, FrameInv(f), f.pc = "walk", f.zone > f.target
  PROVE  /\ f \in Frame /\ Formed(f) /\ Pending(f) /\ Purposed(f, f.target, f.use)
         /\ f.target \in Names /\ f.zone = f.target + 1
         /\ f.links \in Seq(RRset) /\ f.links # <<>> /\ Len(f.links) > 0
         /\ f.links[1] \in RRset
         /\ f.keys \in Names \X Nat /\ f.keys[1] <= f.target
         /\ f.good => /\ Honest(f) /\ Promising(f, f.target, f.use)
                      /\ SecureAbove(f.target) /\ f.keys = KeysOf(Apex(f.target))
                      /\ Kind(Apex(f.target)) = "signed" /\ Genuine(f.links[1])
<1>1. /\ f \in Frame /\ Formed(f) /\ Pending(f) /\ Purposed(f, f.target, f.use)
      /\ f.zone <= f.target + 1
      /\ f.zone > 0 => f.keys \in Names \X Nat /\ f.keys[1] < f.zone
  BY Zenon DEF FrameInv, Shape, Formed, Active, Walking
<1> USE <1>1
<1>2. f.target \in Names /\ f.target \in Nat /\ f.zone \in Nat /\ f.links \in Seq(RRset)
  BY FrameFields, ZonesAssumption DEF Names
<1> USE <1>2
<1>3. f.zone = f.target + 1 /\ f.zone > 0 /\ f.zone - 1 = f.target
  OBVIOUS
<1>4. f.keys \in Names \X Nat /\ f.keys[1] <= f.target
  <2>1. f.keys[1] \in Nat
    BY <1>3, ZonesAssumption DEF Names
  <2> QED
    BY <1>3, <2>1
<1>5. f.links # <<>> /\ Len(f.links) > 0 /\ f.links[1] \in RRset
  BY DEF Pending
<1>6. ASSUME f.good
      PROVE  /\ Honest(f) /\ Promising(f, f.target, f.use)
             /\ SecureAbove(f.target) /\ f.keys = KeysOf(Apex(f.target))
  BY <1>3, <1>6, Zenon DEF FrameInv, Deserving, Active, Walking
<1> USE <1>6
<1>7. ASSUME f.good PROVE Kind(Apex(f.target)) = "signed"
  <2>1. Apex(f.target) \in 0..f.target /\ Kind(Apex(f.target)) # "none"
    BY ApexFacts, Zenon
  <2>2. SecureAbove(f.target)
    BY <1>7, Zenon
  <2> QED
    BY <2>1, <2>2, ZoneFacts DEF SecureAbove
<1>8. ASSUME f.good PROVE Genuine(f.links[1])
  BY <1>5, <1>8 DEF Honest
<1> QED
  BY <1>3, <1>4, <1>5, <1>7, <1>8, Zenon

LEMMA RrsetTrustedInv ==
  ASSUME Typed, NEW f, FrameInv(f), f.pc = "walk", f.zone > f.target, f.use = "rrset",
         NEW n \in Nat
  PROVE  /\ FrameInv(RrsetTrusted(f, n)) /\ Less(RrsetTrusted(f, n), f)
         /\ ~SaysUnsigned(RrsetTrusted(f, n))
<1> DEFINE s == f.links[1].sigs
           h == [f EXCEPT !.any_trusted = TRUE]
           g == Spend(h, n)
           x == RrsetTrusted(f, n)
<1>1. /\ f \in Frame /\ Formed(f) /\ Pending(f) /\ Purposed(f, f.target, f.use)
      /\ f.target \in Names
      /\ f.links \in Seq(RRset) /\ f.links # <<>> /\ f.links[1] \in RRset
      /\ f.good => /\ Honest(f) /\ SecureAbove(f.target) /\ f.keys = KeysOf(Apex(f.target))
                   /\ Genuine(f.links[1])
  BY WalkEnd, Zenon
<1>2. s \in Seq(Sig) /\ s # <<>> /\ ~f.links[1].bare /\ f.target = s[1].keys[1]
  BY <1>1, Zenon DEF RRset, Purposed
<1>3. 1 \in 1..Len(s)
  BY <1>2
<1>4. ASSUME f.good
      PROVE  /\ s[1].keys = f.keys /\ SecureAbove(Apex(f.links[1].owner))
             /\ s[Len(s)].good
  <2>1. f.links[1].owner \in Names
    BY <1>1, ZenonT(20) DEF RRset
  <2>2. s[1].keys = KeysOf(Apex(f.links[1].owner)) /\ s[Len(s)].good
    BY <1>1, <1>2, <1>3, <1>4, Zenon DEF Genuine
  <2>3. f.target = Apex(f.links[1].owner)
    BY <1>2, <2>2 DEF KeysOf
  <2>4. Apex(f.target) = f.target
    BY <2>1, <2>3, ApexBelow, Zenon
  <2> QED
    BY <1>1, <1>4, <2>2, <2>3, <2>4, Zenon
<1>5. /\ h \in Frame /\ h.links = f.links /\ h.pc = f.pc /\ h.target = f.target
      /\ h.zone = f.zone /\ h.any_trusted /\ h.refused = f.refused /\ h.good = f.good
      /\ h.todo = f.todo /\ h.last_ttl = f.last_ttl /\ h.used = f.used
  BY <1>1, Zenon DEF Frame
<1>6. CanCheck(h, n) = CanCheck(f, n)
  BY <1>5, Zenon DEF CanCheck
<1>7. x = IF s[1].keys # f.keys THEN NextSig(h)
          ELSE IF ~CanCheck(f, n) THEN Done(g, "Bogus")
          ELSE IF s[1].good THEN Verified(g) ELSE NextSig(g)
  BY Zenon DEF RrsetTrusted
<1> HIDE DEF h, s, x
<1>8. /\ g \in Frame /\ g.links = f.links /\ g.pc = f.pc /\ g.target = f.target
      /\ g.zone = f.zone /\ g.any_trusted /\ g.refused = (f.refused \/ ~CanCheck(f, n))
      /\ g.good = f.good /\ g.todo = f.todo /\ g.last_ttl = f.last_ttl
  BY <1>5, <1>6, SpendFields
<1> HIDE DEF g
<1>9. Formed(h) /\ Pending(h) /\ Formed(g)
  BY <1>1, <1>5, <1>8, Zenon DEF Formed, Pending
<1>10. f.good => Honest(h) /\ Honest(g)
  BY <1>1, <1>4, <1>5, <1>8, Zenon DEF Honest
<1>11. CASE s[1].keys # f.keys
  <2>1. x = NextSig(h) /\ ~h.good
    BY <1>4, <1>5, <1>7, <1>11, ZenonT(20)
  <2>2. FrameInv(NextSig(h)) /\ Less(NextSig(h), h) /\ ~SaysUnsigned(NextSig(h))
    BY <1>2, <1>5, <1>9, <2>1, NextSigInv, Zenon DEF s
  <2> QED
    BY <1>5, <2>1, <2>2, LessSame, Zenon DEF x
<1>12. CASE s[1].keys = f.keys /\ ~CanCheck(f, n)
  <2>1. /\ g.refused \in BOOLEAN /\ g.good \in BOOLEAN /\ g.todo \in Int
        /\ "Bogus" \in DnssecStatus
    BY <1>8, FrameFields, Zenon DEF DnssecStatus
  <2>2. g.refused = TRUE
    BY <1>8, <1>12, Zenon
  <2>3. g.good => Settled
    BY <1>8, <1>10, Zenon DEF Honest
  <2>4. FrameInv(Done(g, "Bogus"))
    BY <2>1, <2>2, <2>3, DoneInv
  <2>5. Less(Done(g, "Bogus"), f) /\ ~SaysUnsigned(Done(g, "Bogus"))
    BY <1>1, <2>1, DoneLess
  <2> QED
    BY <1>7, <1>12, <2>4, <2>5, Zenon DEF x
<1>13. CASE s[1].keys = f.keys /\ CanCheck(f, n) /\ s[1].good
  <2>1. Pending(g) /\ x = Verified(g)
    BY <1>1, <1>7, <1>8, <1>13, Zenon DEF Pending
  <2>2. FrameInv(Verified(g)) /\ Less(Verified(g), g) /\ ~SaysUnsigned(Verified(g))
    BY <1>8, <1>9, <1>10, <2>1, VerifiedInv, Zenon
  <2> QED
    BY <1>8, <2>1, <2>2, LessSame, Zenon DEF x
<1>14. CASE s[1].keys = f.keys /\ CanCheck(f, n) /\ ~s[1].good
  <2>1. Pending(g) /\ x = NextSig(g)
    BY <1>1, <1>7, <1>8, <1>14, Zenon DEF Pending
  <2>2. f.good => Len(s) # 1
    BY <1>4, <1>14, Zenon
  <2>3. FrameInv(NextSig(g)) /\ Less(NextSig(g), g) /\ ~SaysUnsigned(NextSig(g))
    BY <1>2, <1>8, <1>9, <1>10, <2>1, <2>2, NextSigInv, Zenon DEF s
  <2> QED
    BY <1>8, <2>1, <2>3, LessSame, Zenon DEF x
<1> QED
  BY <1>11, <1>12, <1>13, <1>14, Zenon

LEMMA DenialInv ==
  ASSUME NEW f \in Frame, f.links # <<>>, f.refused = FALSE,
         f.good => Settled /\ f.proof # "Bogus", NEW n \in Nat
  PROVE  /\ FrameInv(Denial(f, n)) /\ Less(Denial(f, n), f)
         /\ SaysUnsigned(Denial(f, n)) => f.proof = "InsecureUnsigned"
<1> DEFINE g == Spend(f, n)
           a == [f EXCEPT !.todo = 0]
           b == [g EXCEPT !.todo = 0]
           p == f.proof
<1>1. Denial(f, n) = IF p = "InsecureUnknown" THEN Done(a, p)
                     ELSE IF ~CanCheck(f, n) THEN Done(g, "Bogus") ELSE Done(b, p)
  BY Zenon DEF Denial
<1>2. p \in DnssecStatus /\ "Bogus" \in DnssecStatus
  BY FrameFields, Zenon DEF DnssecStatus
<1>3. /\ g \in Frame /\ g.refused = (f.refused \/ ~CanCheck(f, n)) /\ g.good = f.good
      /\ g.todo = f.todo
  BY SpendFields, Zenon
<1> HIDE DEF g
<1>4. a.refused = f.refused /\ a.good = f.good /\ a.todo = 0
  BY Zenon DEF Frame
<1>5. b.refused = g.refused /\ b.good = f.good /\ b.todo = 0
  BY <1>3, Zenon DEF Frame
<1>6. /\ f.refused \in BOOLEAN /\ f.good \in BOOLEAN
      /\ g.refused \in BOOLEAN /\ g.todo \in Int
  BY <1>3, FrameFields, Zenon
<1> HIDE DEF a, b, p
<1>7. CASE p = "InsecureUnknown"
  <2> USE <1>7
  <2>1. FrameInv(Done(a, p))
    BY <1>2, <1>4, <1>6, DoneInv
  <2>2. Less(Done(a, p), f) /\ ~SaysUnsigned(Done(a, p))
    BY <1>2, <1>4, <1>6, DoneLess
  <2> QED
    BY <1>1, <2>1, <2>2, Zenon
<1>8. CASE p # "InsecureUnknown" /\ ~CanCheck(f, n)
  <2> USE <1>6
  <2>1. g.refused = TRUE /\ (g.good => Settled) /\ g.good \in BOOLEAN
    BY <1>3, <1>8, Zenon
  <2>2. FrameInv(Done(g, "Bogus"))
    BY <1>2, <2>1, DoneInv
  <2>3. Less(Done(g, "Bogus"), f) /\ ~SaysUnsigned(Done(g, "Bogus"))
    BY <1>2, <2>1, DoneLess
  <2> QED
    BY <1>1, <1>8, <2>2, <2>3, Zenon
<1> USE <1>5
<1>9. CASE p # "InsecureUnknown" /\ CanCheck(f, n)
  <2>1. b.refused \in BOOLEAN /\ ~b.refused /\ b.todo \in Int /\ b.good \in BOOLEAN
    BY <1>3, <1>6, <1>9
  <2>2. b.good => Settled /\ p # "Bogus"
    BY Zenon DEF p
  <2>3. FrameInv(Done(b, p))
    BY <1>2, <2>1, <2>2, DoneInv
  <2>4. Less(Done(b, p), f) /\ (SaysUnsigned(Done(b, p)) => p = "InsecureUnsigned")
    BY <1>2, <2>1, DoneLess
  <2> QED
    BY <1>1, <1>9, <2>3, <2>4, Zenon DEF p
<1> QED
  BY <1>7, <1>8, <1>9, Zenon

LEMMA ChecksFacts ==
  ASSUME Ordered, NEW s \in Seq(Sig), s # <<>>
  PROVE  Checks(s) \in 1..Len(s) /\ (s[Checks(s)].good \/ Checks(s) = Len(s))
<1> DEFINE T == {c \in 1..Len(s) : s[c].good \/ c = Len(s)}
<1>1. Len(s) \in T
  OBVIOUS
<1>2. T \subseteq Nat
  OBVIOUS
<1>3. PICK c \in T : \A i \in T : c <= i
  <2> HIDE DEF T
  <2> QED
    BY <1>1, <1>2, Zenon DEF Ordered
<1>4. \A i \in 1..c - 1 : ~s[i].good
  <2>1. SUFFICES ASSUME NEW i \in 1..c - 1, s[i].good PROVE FALSE
    BY Zenon
  <2>2. i \in T /\ i < c
    BY <2>1
  <2> QED
    BY <1>3, <2>2
<1>5. c \in 1..Len(s) /\ (s[c].good \/ c = Len(s))
  BY Zenon
<1> QED
  BY <1>4, <1>5, Zenon DEF Checks

LEMMA NegativeTrustedInv ==
  ASSUME Typed, NEW f, FrameInv(f), f.pc = "walk", f.zone > f.target, f.use = "negative",
         NEW n \in Nat
  PROVE  /\ FrameInv(NegativeTrusted(f, n)) /\ Less(NegativeTrusted(f, n), f)
         /\ SaysUnsigned(NegativeTrusted(f, n)) => f.proof = "InsecureUnsigned"
<1> DEFINE s == f.links[1].sigs
           c == Checks(s)
           g == Spend(f, c)
           x == NegativeTrusted(f, n)
<1>1. /\ f \in Frame /\ Formed(f) /\ Pending(f)
      /\ f.links # <<>> /\ f.links[1] \in RRset /\ f.target = f.links[1].owner
      /\ f.good => /\ Settled /\ f.proof # "Bogus" /\ f.keys = KeysOf(Apex(f.target))
                   /\ Kind(Apex(f.target)) = "signed" /\ Genuine(f.links[1])
  BY WalkEnd, Zenon DEF Purposed, Promising, Honest
<1>2. s \in Seq(Sig)
  BY <1>1, Zenon DEF RRset
<1>3. x = IF s = <<>> \/ s[1].keys # f.keys THEN Done(f, "Bogus")
          ELSE IF ~CanCheck(f, c) \/ ~s[c].good THEN Done(g, "Bogus")
          ELSE Denial(g, n)
  BY Zenon DEF NegativeTrusted
<1>4. /\ f.refused \in BOOLEAN /\ ~f.refused /\ f.good \in BOOLEAN /\ f.todo \in Int
      /\ "Bogus" \in DnssecStatus
  BY <1>1, FrameFields, Zenon DEF Pending, DnssecStatus
<1>5. ASSUME f.good
      PROVE  s # <<>> /\ s[Len(s)].good /\ s[1].keys = f.keys
  <2>1. s # <<>> /\ s[Len(s)].good
    BY <1>1, <1>5, Zenon DEF Genuine
  <2>2. 1 \in 1..Len(s)
    BY <1>2, <2>1
  <2>3. s[1].keys = KeysOf(Apex(f.links[1].owner))
    BY <1>1, <1>5, <2>2, Zenon DEF Genuine
  <2> QED
    BY <1>1, <1>5, <2>1, <2>3, Zenon
<1> HIDE DEF s, x
<1>6. CASE s = <<>> \/ s[1].keys # f.keys
  <2>1. ~f.good
    BY <1>5, <1>6, Zenon
  <2>2. FrameInv(Done(f, "Bogus"))
    BY <1>4, <2>1, DoneInv
  <2>3. Less(Done(f, "Bogus"), f) /\ ~SaysUnsigned(Done(f, "Bogus"))
    BY <1>1, <1>4, DoneLess
  <2> QED
    BY <1>3, <1>6, <2>2, <2>3, Zenon DEF x
<1>7. CASE s # <<>> /\ s[1].keys = f.keys
  <2>1. c \in 1..Len(s) /\ (s[c].good \/ c = Len(s)) /\ c \in Nat
    BY <1>2, <1>7, ChecksFacts DEF Typed
  <2> HIDE DEF c
  <2>2. /\ g \in Frame /\ g.refused = (f.refused \/ ~CanCheck(f, c))
        /\ g.links = f.links /\ g.good = f.good /\ g.todo = f.todo /\ g.proof = f.proof
        /\ g.pc = f.pc /\ g.target = f.target /\ g.zone = f.zone
    BY <1>1, <2>1, SpendFields, Zenon
  <2>3. f.good => s[c].good
    BY <1>5, <2>1, Zenon
  <2>4. g.refused \in BOOLEAN /\ g.good \in BOOLEAN /\ g.todo \in Int
    BY <2>2, FrameFields, Zenon
  <2> HIDE DEF g
  <2>5. CASE ~CanCheck(f, c) \/ ~s[c].good
    <3>1. g.good => Settled /\ g.refused = TRUE
      BY <1>1, <2>2, <2>3, <2>5, Zenon
    <3>2. FrameInv(Done(g, "Bogus"))
      BY <1>4, <2>4, <3>1, DoneInv
    <3>3. Less(Done(g, "Bogus"), f) /\ ~SaysUnsigned(Done(g, "Bogus"))
      BY <1>1, <1>4, <2>4, DoneLess
    <3> QED
      BY <1>3, <1>7, <2>5, <3>2, <3>3, Zenon DEF x
  <2>6. CASE CanCheck(f, c) /\ s[c].good
    <3>1. g.refused = FALSE /\ g.links # <<>> /\ (g.good => Settled /\ g.proof # "Bogus")
      BY <1>1, <1>4, <2>2, <2>6, Zenon
    <3>2. /\ FrameInv(Denial(g, n)) /\ Less(Denial(g, n), g)
          /\ SaysUnsigned(Denial(g, n)) => f.proof = "InsecureUnsigned"
      BY <2>2, <3>1, DenialInv, Zenon
    <3>3. x = Denial(g, n)
      BY <1>3, <1>7, <2>6, Zenon
    <3> QED
      BY <2>2, <3>2, <3>3, LessSame, Zenon DEF x
  <2> QED
    BY <2>5, <2>6, Zenon
<1> QED
  BY <1>6, <1>7, Zenon

(***************************************************************************)
(* The steps of a validation, one lemma per action.                        *)
(***************************************************************************)
\* A walk that begins has less to do than what comes before one.
LEMMA WalkLess ==
  ASSUME NEW f, f.pc \in {"rrset", "apex"}, NEW h \in Frame, h.links = f.links,
         NEW target \in Names, NEW use \in {"rrset", "signed", "negative"}
  PROVE  Less(Walk(h, target, use), f) /\ ~SaysUnsigned(Walk(h, target, use))
<1> DEFINE g == Walk(h, target, use)
<1>1. g.pc = "walk" /\ g.target = target /\ g.zone = 0 /\ g.links = f.links
  BY WalkFields
<1> HIDE DEF g
<1>2. target \in 0..Depth /\ Depth \in Nat
  BY ZonesAssumption, Zenon DEF Names
<1>3. Rank(g) = 3 * (target + 1 - 0) + 3
  BY <1>1, Zenon DEF Rank
<1>4. Rank(f) \in {3 * Depth + 9, 3 * Depth + 7}
  BY Zenon DEF Rank
<1>5. Rank(g) \in 0..Rank(f) - 1
  BY <1>2, <1>3, <1>4
<1> QED
  BY <1>1, <1>5, Zenon DEF Less, SaysUnsigned, g

\* A frame that goes on with the same RRsets, before any walk.
LEMMA AheadInv ==
  ASSUME NEW f, FrameInv(f), NEW p \in {"signed", "apex"}, f.links[1].bare,
         \/ f.pc = "rrset"
         \/ f.pc = "signed" /\ p = "apex",
         NEW g \in Frame, g.pc = p, g.links = f.links, g.todo = f.todo,
         g.refused = f.refused, g.good = f.good, g.any_trusted = f.any_trusted,
         g.last_ttl = f.last_ttl
  PROVE  FrameInv(g) /\ Less(g, f) /\ ~SaysUnsigned(g)
<1>1. Formed(f) /\ Pending(f) /\ (f.good => Settled /\ Honest(f))
  BY FramePending, Zenon DEF Active
<1>2. Formed(g) /\ Pending(g)
  BY <1>1, Zenon DEF Formed, Pending
<1>3. Shape(g)
  BY <1>2, Zenon DEF Shape, Active, Walking
<1>4. Trusts(g)
  BY ZenonT(20) DEF Trusts
<1>5. Deserving(g)
  BY <1>1, Zenon DEF Deserving, Active, Walking, Honest
<1>6. Depth \in Nat
  BY ZonesAssumption, Zenon
<1>7. Rank(g) \in 0..Rank(f) - 1
  <2>1. /\ f.pc = "rrset" => Rank(f) = 3 * Depth + 9
        /\ f.pc = "signed" => Rank(f) = 3 * Depth + 8
        /\ g.pc = "signed" => Rank(g) = 3 * Depth + 8
        /\ g.pc = "apex" => Rank(g) = 3 * Depth + 7
    BY ZenonT(20) DEF Rank
  <2> QED
    BY <1>6, <2>1
<1> QED
  BY <1>3, <1>4, <1>5, <1>7, Zenon DEF FrameInv, Less, SaysUnsigned

LEMMA RrsetInv ==
  ASSUME Typed, NEW f, FrameInv(f), f.pc = "rrset"
  PROVE  LET r == f.links[1]
             g == IF r.bare THEN [f EXCEPT !.pc = "signed"]
                  ELSE IF r.sigs = <<>> THEN Done(f, "Bogus")
                  ELSE Walk(f, r.sigs[1].keys[1], "rrset")
         IN  FrameInv(g) /\ Less(g, f) /\ ~SaysUnsigned(g)
<1> DEFINE r == f.links[1]
           h == [f EXCEPT !.pc = "signed"]
           k == r.sigs[1].keys[1]
<1>1. /\ f \in Frame /\ Formed(f) /\ Pending(f)
      /\ f.links \in Seq(RRset) /\ f.links # <<>> /\ Len(f.links) > 0
      /\ r \in RRset /\ r.sigs \in Seq(Sig)
      /\ f.refused \in BOOLEAN /\ ~f.refused /\ f.good \in BOOLEAN /\ f.todo \in Int
      /\ f.good => Settled /\ Honest(f) /\ Genuine(r)
  BY FramePending, Zenon DEF Active
<1> USE <1>1
<1>2. CASE r.bare
  <2>1. /\ h \in Frame /\ h.pc = "signed" /\ h.links = f.links /\ h.todo = f.todo
        /\ h.refused = f.refused /\ h.good = f.good /\ h.any_trusted = f.any_trusted
        /\ h.last_ttl = f.last_ttl
    BY ZenonT(20) DEF Frame
  <2> HIDE DEF h
  <2>2. FrameInv(h) /\ Less(h, f) /\ ~SaysUnsigned(h)
    BY <1>2, <2>1, AheadInv, Zenon
  <2> QED
    BY <1>2, <2>2, Zenon DEF h
<1>3. CASE ~r.bare /\ r.sigs = <<>>
  <2>1. ~f.good
    BY <1>3, Zenon DEF Genuine
  <2>2. "Bogus" \in DnssecStatus
    BY Zenon DEF DnssecStatus
  <2>3. FrameInv(Done(f, "Bogus"))
    BY <2>1, <2>2, DoneInv
  <2>4. Less(Done(f, "Bogus"), f) /\ ~SaysUnsigned(Done(f, "Bogus"))
    BY <2>2, DoneLess
  <2> QED
    BY <1>3, <2>3, <2>4, Zenon
<1>4. CASE ~r.bare /\ r.sigs # <<>>
  <2>1. 1 \in 1..Len(f.links) /\ 1 \in 1..Len(r.sigs) /\ r.sigs[1] \in Sig
    BY <1>4
  <2>2. k \in Names
    BY <2>1, Zenon DEF Sig
  <2>3. k <= r.owner
    BY <2>1, Zenon DEF Formed
  <2>4. Purposed(f, k, "rrset") /\ Promising(f, k, "rrset")
    BY <1>4, <2>3, Zenon DEF Purposed, Promising
  <2> HIDE DEF k
  <2>5. FrameInv(Walk(f, k, "rrset"))
    BY <2>2, <2>4, WalkInv, Zenon
  <2>6. Less(Walk(f, k, "rrset"), f) /\ ~SaysUnsigned(Walk(f, k, "rrset"))
    BY <2>2, WalkLess
  <2> QED
    BY <1>4, <2>5, <2>6, Zenon DEF k
<1> QED
  BY <1>2, <1>3, <1>4, Zenon

\* No past epoch is within a lifetime of now, once the zones have settled.
LEMMA SettledFacts ==
  ASSUME Typed, Settled, NEW z \in Zones, NEW i \in 1..Len(past[z])
  PROVE  past[z][i].age \in Nat /\ past[z][i].age >= DsTtl + SignedTtl - 1
BY PastFacts DEF Settled

\* A zone at or above n is unsigned, or was within the TTL of the proof.
ProvenAbove(n) ==
  \E z \in 1..n :
    \/ kind[z] \in Insecure
    \/ \E i \in 1..Len(past[z]) : past[z][i].kind \in Insecure /\ past[z][i].age < DsTtl

LEMMA CachedUnsigned ==
  ASSUME Typed, NEW n \in Names, NEW c \in 0..n, SignednessCached(c),
         Cached(c, "ProvenUnsigned")
  PROVE  ProvenAbove(n)
<1>1. n \in Nat /\ c \in Names /\ \A y \in 1..c : y \in Zones /\ y \in 1..n
  BY ZonesAssumption DEF Names, Zones
<1> DEFINE e == signed_zone_cache[c]
<1>2. e # NoEntry /\ e.signedness = "ProvenUnsigned"
  BY Zenon DEF Cached
<1>3. e.left \in Nat /\ e.left >= 1
  BY <1>1, <1>2, SignedEntry, Zenon
<1>4. PICK y \in 1..c :
        \/ Kind(y) \in Insecure
        \/ \E i \in 1..Len(past[y]) :
             past[y][i].kind \in Insecure /\ past[y][i].age + e.left <= DsTtl
  BY <1>2, Zenon DEF SignednessCached
<1>5. y \in Zones /\ y \in 1..n
  BY <1>1, Zenon
<1> USE <1>5
<1>6. CASE Kind(y) \in Insecure
  BY <1>6, PastFacts, Zenon DEF ProvenAbove
<1>7. ASSUME NEW i \in 1..Len(past[y]),
             past[y][i].kind \in Insecure, past[y][i].age + e.left <= DsTtl
      PROVE  ProvenAbove(n)
  <2>1. past[y][i].age \in Nat
    BY PastFacts
  <2>2. past[y][i].age < DsTtl
    BY <1>3, <1>7, <2>1, BoundsAssumption
  <2> QED
    BY <1>7, <2>2, Zenon DEF ProvenAbove
<1> QED
  BY <1>4, <1>6, <1>7, Zenon

LEMMA CachedSigned ==
  ASSUME Typed, Settled, NEW n \in Names, SignednessCached(n), Cached(n, "Signed")
  PROVE  Kind(Apex(n)) = "signed"
<1> DEFINE e == signed_zone_cache[n]
<1>1. e # NoEntry /\ e.signedness = "Signed"
  BY Zenon DEF Cached
<1>2. e.left \in Nat /\ e.left >= 1
  BY <1>1, SignedEntry, Zenon
<1>3. SUFFICES ASSUME NEW y \in 1..n, NEW i \in 1..Len(past[y]),
                      past[y][i].age + e.left < DsTtl + SignedTtl
               PROVE  FALSE
  BY <1>1, SignedApex, Zenon DEF SignednessCached
<1>4. y \in Zones
  BY ZonesAssumption DEF Names, Zones
<1>5. past[y][i].age \in Nat /\ past[y][i].age >= DsTtl + SignedTtl - 1
  BY <1>4, SettledFacts, Zenon
<1> DEFINE a == past[y][i].age
           l == e.left
<1>6. /\ a \in Nat /\ a >= DsTtl + SignedTtl - 1 /\ l \in Nat /\ l >= 1
      /\ a + l < DsTtl + SignedTtl /\ SignedTtl \in Nat /\ DsTtl \in Nat
  BY <1>2, <1>3, <1>5, Lifetimes, Zenon
<1> HIDE DEF a, l
<1> QED
  BY <1>6

LEMMA SignedCachedInv ==
  ASSUME Typed, \A m \in Names : SignednessCached(m), NEW f, FrameInv(f), f.pc = "signed"
  PROVE  LET n == f.links[1].owner
             g == IF Cached(n, "Signed") THEN Done(f, "Bogus")
                  ELSE IF \E c \in 0..n : Cached(c, "ProvenUnsigned")
                    THEN Done(f, "InsecureUnsigned")
                  ELSE [f EXCEPT !.pc = "apex", !.waited = 0]
         IN  /\ FrameInv(g) /\ Less(g, f)
             /\ SaysUnsigned(g) => ProvenAbove(f.links[1].owner)
<1> DEFINE n == f.links[1].owner
           h == [f EXCEPT !.pc = "apex", !.waited = 0]
<1>1. /\ f \in Frame /\ f.links # <<>> /\ n \in Names
      /\ f.refused \in BOOLEAN /\ ~f.refused /\ f.good \in BOOLEAN /\ f.todo \in Int
      /\ f.good => Settled /\ Genuine(f.links[1])
  BY FramePending, Zenon DEF Active
<1>2. f.links[1].bare
  BY Zenon DEF FrameInv, Shape
<1>3. "Bogus" \in DnssecStatus /\ "InsecureUnsigned" \in DnssecStatus
  BY Zenon DEF DnssecStatus
<1> USE <1>1
<1>4. CASE Cached(n, "Signed")
  <2>1. ~f.good
    BY <1>2, <1>4, CachedSigned, Zenon DEF Genuine
  <2>2. FrameInv(Done(f, "Bogus"))
    BY <1>3, <2>1, DoneInv
  <2>3. Less(Done(f, "Bogus"), f) /\ ~SaysUnsigned(Done(f, "Bogus"))
    BY <1>3, DoneLess
  <2> QED
    BY <1>4, <2>2, <2>3, Zenon
<1>5. ASSUME ~Cached(n, "Signed"), NEW c \in 0..n, Cached(c, "ProvenUnsigned")
      PROVE  /\ FrameInv(Done(f, "InsecureUnsigned")) /\ Less(Done(f, "InsecureUnsigned"), f)
             /\ ProvenAbove(n)
  <2>1. FrameInv(Done(f, "InsecureUnsigned"))
    BY <1>3, DoneInv
  <2>2. Less(Done(f, "InsecureUnsigned"), f)
    BY <1>3, DoneLess
  <2>3. c \in Names
    BY ZonesAssumption DEF Names
  <2>4. ProvenAbove(n)
    BY <1>5, <2>3, CachedUnsigned, Zenon
  <2> QED
    BY <2>1, <2>2, <2>4, Zenon
<1>6. CASE ~Cached(n, "Signed") /\ ~(\E c \in 0..n : Cached(c, "ProvenUnsigned"))
  <2>1. 0 \in 0..MaxFetch
    BY BoundsAssumption
  <2>2. /\ h \in Frame /\ h.pc = "apex" /\ h.links = f.links /\ h.todo = f.todo
        /\ h.refused = f.refused /\ h.good = f.good /\ h.any_trusted = f.any_trusted
        /\ h.last_ttl = f.last_ttl
    BY <2>1, Zenon DEF Frame
  <2> HIDE DEF h
  <2>3. FrameInv(h) /\ Less(h, f) /\ ~SaysUnsigned(h)
    BY <1>2, <2>2, AheadInv, Zenon
  <2> QED
    BY <1>6, <2>3, Zenon DEF h
<1> QED
  BY <1>4, <1>5, <1>6, Zenon

LEMMA FindApexInv ==
  ASSUME Typed, NEW f, FrameInv(f), f.pc = "apex",
         NEW target \in Names, target <= f.links[1].owner, NEW b \in BOOLEAN,
         f.good /\ b => target = Apex(f.links[1].owner)
  PROVE  LET g == Walk([f EXCEPT !.good = @ /\ b], target, "signed")
         IN  FrameInv(g) /\ Less(g, f) /\ ~SaysUnsigned(g)
<1> DEFINE v == f.good /\ b
           h == [f EXCEPT !.good = v]
<1>1. /\ f \in Frame /\ Formed(f) /\ Pending(f) /\ f.links # <<>>
      /\ f.good \in BOOLEAN
      /\ f.good => Settled /\ Honest(f)
  BY FramePending, Zenon DEF Active
<1>2. f.links[1].bare
  BY Zenon DEF FrameInv, Shape
<1> USE <1>1
<1>3. v \in BOOLEAN
  BY Zenon
<1>4. h = [f EXCEPT !.good = @ /\ b]
  BY Zenon DEF Frame
<1>5. v => Honest(f) /\ target = Apex(f.links[1].owner)
  BY Zenon
<1> HIDE DEF v
<1>6. /\ h \in Frame /\ h.links = f.links /\ h.todo = f.todo /\ h.refused = f.refused
      /\ h.good = v /\ h.any_trusted = f.any_trusted /\ h.last_ttl = f.last_ttl
  BY <1>3 DEF Frame
<1> HIDE DEF h
<1> USE <1>6
<1>7. Formed(h) /\ Pending(h)
  BY Zenon DEF Formed, Pending
<1>8. Purposed(h, target, "signed")
  BY <1>2, Zenon DEF Purposed
<1>9. h.good => Honest(h) /\ Promising(h, target, "signed")
  BY <1>5, ZenonT(20) DEF Honest, Promising
<1>10. FrameInv(Walk(h, target, "signed"))
  BY <1>7, <1>8, <1>9, WalkInv, Zenon
<1>11. Less(Walk(h, target, "signed"), f) /\ ~SaysUnsigned(Walk(h, target, "signed"))
  BY WalkLess
<1> QED
  BY <1>4, <1>10, <1>11, Zenon

\* A walk that goes on: it is for the same, keeps to the path and gets further.
Continues(f, g) ==
  /\ g.links = f.links /\ g.target = f.target /\ g.use = f.use /\ g.proof = f.proof
  /\ g.any_trusted = f.any_trusted /\ g.todo = f.todo /\ g.refused = f.refused
  /\ g.good = f.good

OnPath(g) ==
  /\ Walking(g) /\ Trusts(g) /\ g.last_ttl \in 1..SignedTtl
  /\ g.zone <= g.target + 1
  /\ g.zone > 0 => g.keys \in Names \X Nat /\ g.keys[1] < g.zone
  /\ g.pc = "ds" => g.zone \in 1..g.target
  /\ g.pc = "dnskey" => g.zone <= g.target /\ (g.zone = 0 => g.ds = 0)
  /\ g.good => /\ SecureAbove(g.zone - 1)
               /\ g.pc # "dnskey" /\ g.zone > 0 => g.keys = KeysOf(Apex(g.zone - 1))
               /\ g.pc = "dnskey" => Kind(g.zone) = "signed" /\ g.ds = Epoch(g.zone)

Further(f, g) ==
  \/ g.zone > f.zone
  \/ g.zone = f.zone /\ f.pc = "walk" /\ g.pc # "walk"
  \/ g.zone = f.zone /\ f.pc = "ds" /\ g.pc = "dnskey"

\* The rank of a walk, for its target, its zone and where in the loop it is.
LEMMA FurtherRank ==
  ASSUME NEW f \in Frame, NEW g \in Frame, Walking(f), Walking(g), g.target = f.target,
         g.zone <= g.target + 1, Further(f, g)
  PROVE  Rank(g) \in 0..Rank(f) - 1
<1> DEFINE T == f.target
           x == f.zone
           y == g.zone
<1>1. T \in Nat /\ x \in Nat /\ y \in Nat /\ y <= T + 1
  BY FrameFields, ZonesAssumption DEF Names
<1>2. \/ f.pc = "walk" /\ Rank(f) = 3 * (T + 1 - x) + 3
      \/ f.pc = "ds" /\ Rank(f) = 3 * (T + 1 - x) + 2
      \/ f.pc = "dnskey" /\ Rank(f) = 3 * (T + 1 - x) + 1
  BY Zenon DEF Rank, Walking
<1>3. \/ g.pc = "walk" /\ Rank(g) = 3 * (T + 1 - y) + 3
      \/ g.pc = "ds" /\ Rank(g) = 3 * (T + 1 - y) + 2
      \/ g.pc = "dnskey" /\ Rank(g) = 3 * (T + 1 - y) + 1
  BY Zenon DEF Rank, Walking
<1>4. \/ y > x
      \/ y = x /\ f.pc = "walk" /\ g.pc # "walk"
      \/ y = x /\ f.pc = "ds" /\ g.pc = "dnskey"
  BY ZenonT(20) DEF Further
<1> HIDE DEF T, x, y
<1> QED
  BY <1>1, <1>2, <1>3, <1>4

LEMMA GoesOnInv ==
  ASSUME NEW f, FrameInv(f), Walking(f),
         NEW g \in Frame, Continues(f, g), OnPath(g), Further(f, g)
  PROVE  FrameInv(g) /\ Less(g, f) /\ ~SaysUnsigned(g)
<1>1. /\ f \in Frame /\ Formed(f) /\ Pending(f) /\ Purposed(f, f.target, f.use)
      /\ f.good => Settled /\ Honest(f) /\ Promising(f, f.target, f.use)
  BY WalkingFacts, ZenonT(20)
<1>2. Walking(g) /\ Active(g) /\ g.pc \notin {"signed", "apex", "done"}
  BY Zenon DEF OnPath, Walking, Active
<1>3. Formed(g) /\ Pending(g) /\ Purposed(g, g.target, g.use)
  BY <1>1, Zenon DEF Continues, OnPath, Formed, Pending, Purposed
<1> USE <1>2
<1>4. Shape(g)
  BY <1>3, Zenon DEF OnPath, Shape
<1>5. g.good => Settled /\ Honest(g) /\ Promising(g, g.target, g.use)
  BY <1>1, Zenon DEF Continues, Honest, Promising
<1>6. Deserving(g)
  BY <1>5 DEF OnPath, Deserving
<1>7. g.target = f.target /\ g.links = f.links /\ g.zone <= g.target + 1
  BY Zenon DEF Continues, OnPath
<1>8. Rank(g) \in 0..Rank(f) - 1
  BY <1>1, <1>7, FurtherRank, Zenon
<1>9. Less(g, f) /\ ~SaysUnsigned(g)
  BY <1>7, <1>8, Zenon DEF Less, SaysUnsigned
<1> QED
  BY <1>4, <1>6, <1>9, ZenonT(20) DEF OnPath, FrameInv

\* Keys taken from the cache are fresh; when the zones have settled, they are
\* the zone's.
LEMMA CachedKeys ==
  ASSUME Typed, NEW z \in Names, KeysCached(z), key_trust_cache[z] # NoEntry
  PROVE  LET e == key_trust_cache[z] IN
         /\ <<z, e.epoch>> \in Names \X Nat
         /\ Keyed(<<z, e.epoch>>)
         /\ e.epoch < Epoch(z) => past[z][e.epoch + 1].age < DsTtl
         /\ Settled => e.epoch = Epoch(z) /\ Kind(z) = "signed"
<1> DEFINE e == key_trust_cache[z]
<1>1. e.epoch \in Nat /\ e.left \in Nat /\ e.left >= 1
  BY KeyEntry, Zenon
<1>2. Keyed(<<z, e.epoch>>) /\ (e.epoch < Epoch(z) => past[z][e.epoch + 1].age + e.left <= KeysTtl(z))
  BY Zenon DEF KeysCached
<1>3. e.epoch <= Epoch(z) /\ (e.epoch = Epoch(z) => Kind(z) = "signed") /\ Epoch(z) \in Nat
  BY <1>2, ZoneFacts DEF Keyed
<1>4. ASSUME e.epoch < Epoch(z)
      PROVE  /\ past[z][e.epoch + 1].age < DsTtl
             /\ past[z][e.epoch + 1].age < SignedTtl
             /\ z \in Zones /\ e.epoch + 1 \in 1..Len(past[z])
  <2>1. z # 0
    BY <1>1, <1>4, ZoneFacts
  <2>2. z \in Zones
    BY <2>1, ZonesAssumption DEF Zones, Names
  <2>3. e.epoch + 1 \in 1..Len(past[z]) /\ past[z][e.epoch + 1].age \in Nat
    <3> DEFINE i == e.epoch
               n == Len(past[z])
    <3>1. n \in 0..MaxChanges /\ i < n /\ i \in Nat
      BY <1>1, <1>4, <2>2, PastFacts, Zenon
    <3>2. i + 1 \in 1..n
      <4> HIDE DEF i, n
      <4> QED
        BY <3>1, BoundsAssumption
    <3>3. past[z][i + 1].age \in 0..Horizon
      BY <2>2, <3>2, PastFacts, Zenon
    <3>4. \A a \in 0..Horizon : a \in Nat
      BY BoundsAssumption
    <3> QED
      BY <3>2, <3>3, <3>4, Zenon
  <2>4. past[z][e.epoch + 1].age + e.left <= KeysTtl(z)
    BY <1>2, <1>4, Zenon
  <2>5. KeysTtl(z) \in 1..SignedTtl /\ KeysTtl(z) <= DsTtl /\ SignedTtl \in Nat /\ DsTtl \in Nat
    BY <2>1, Lifetimes, BoundsAssumption
  <2> DEFINE a == past[z][e.epoch + 1].age
             l == e.left
  <2>6. a \in Nat /\ l \in Nat /\ l >= 1 /\ a + l <= KeysTtl(z)
    BY <1>1, <2>3, <2>4, Zenon
  <2> HIDE DEF a, l
  <2>7. a < DsTtl /\ a < SignedTtl
    BY <2>5, <2>6
  <2> QED
    BY <2>2, <2>3, <2>7, Zenon DEF a
<1> USE <1>4
<1>5. ASSUME Settled PROVE ~(e.epoch < Epoch(z))
  <2>1. SUFFICES ASSUME e.epoch < Epoch(z) PROVE FALSE
    BY Zenon
  <2>2. past[z][e.epoch + 1].age \in Nat /\ past[z][e.epoch + 1].age >= DsTtl + SignedTtl - 1
    BY <1>5, <2>1, SettledFacts, Zenon
  <2> QED
    BY <2>1, <2>2, Lifetimes
<1> QED
  BY <1>1, <1>2, <1>3, <1>5

LEMMA WalkCachedInv ==
  ASSUME Typed, \A m \in Names : KeysCached(m),
         NEW f, FrameInv(f), f.pc = "walk", f.zone <= f.target
  PROVE  LET e == key_trust_cache[f.zone]
             g == IF e # NoEntry
                    THEN [f EXCEPT !.keys = <<f.zone, e.epoch>>, !.zone = @ + 1]
                  ELSE IF f.zone = 0 THEN [f EXCEPT !.pc = "dnskey", !.ds = 0, !.waited = 0]
                  ELSE [f EXCEPT !.pc = "ds", !.waited = 0]
         IN  FrameInv(g) /\ Less(g, f) /\ ~SaysUnsigned(g)
<1> DEFINE z == f.zone
           y == z + 1
           e == key_trust_cache[z]
           k == <<z, e.epoch>>
           a == [f EXCEPT !.keys = k, !.zone = y]
           b == [f EXCEPT !.pc = "dnskey", !.ds = 0, !.waited = 0]
           c == [f EXCEPT !.pc = "ds", !.waited = 0]
<1> HIDE DEF a, b, c
<1>1. Walking(f) /\ Trusts(f) /\ 0 \in 0..MaxFetch
  BY BoundsAssumption DEF Walking, FrameInv
<1>2. /\ f \in Frame /\ f.last_ttl \in 1..SignedTtl
      /\ f.target \in Names /\ f.target \in Nat /\ f.target <= Depth
      /\ z \in Nat /\ z <= f.target
      /\ z > 0 => f.keys \in Names \X Nat /\ f.keys[1] < z
      /\ f.good => /\ Settled /\ SecureAbove(z - 1)
                   /\ z > 0 => f.keys = KeysOf(Apex(z - 1))
  BY <1>1, WalkingFacts, Zenon DEF Formed
<1> HIDE DEF k, y, z
<1> USE <1>2
<1>3. z \in Names /\ y \in 0..Depth + 1 /\ y > 0 /\ y - 1 = z /\ y > z /\ Depth \in Nat
  BY ZonesAssumption DEF Names, y
<1>4. CASE e # NoEntry
  <2>1. /\ k \in Names \X Nat /\ k[1] = z /\ k[2] = e.epoch /\ Keyed(k)
        /\ k[2] < Epoch(z) => past[z][k[2] + 1].age < DsTtl
        /\ Settled => k = KeysOf(z) /\ Kind(z) = "signed"
    BY <1>3, <1>4, CachedKeys, Zenon DEF KeysOf, k
  <2> USE <2>1
  <2>2. f.good => SecureAbove(z) /\ k = KeysOf(Apex(z))
    <3>1. ASSUME f.good PROVE Settled /\ SecureAbove(z - 1) /\ Kind(z) = "signed"
      BY <3>1, Zenon
    <3>2. ASSUME f.good PROVE Apex(z) = z
      BY <1>3, <3>1, <3>2, ApexBelow, Zenon
    <3>3. ASSUME f.good PROVE SecureAbove(z)
      BY <3>1, <3>3 DEF SecureAbove
    <3> QED
      BY <3>2, <3>3, Zenon
  <2>3. a \in Frame /\ a.pc = "walk" /\ a.last_ttl = f.last_ttl /\ a.zone = y /\ a.keys = k
    <3>1. f \in Frame /\ y \in 0..Depth + 1 /\ k \in Names \X Nat
      BY <1>3, Zenon
    <3> QED
      BY <3>1, Zenon DEF Frame, a
  <2>4. Continues(f, a)
    BY Zenon DEF Frame, Continues, a
  <2> USE <2>3
  <2>5. Trusts(a) /\ Walking(a)
    BY <1>3 DEF Trusts, Walking
  <2> USE <2>4
  <2>6. a.zone <= a.target + 1 /\ a.keys[1] < a.zone /\ a.zone > f.zone
    BY <1>3 DEF Continues, z
  <2>7. OnPath(a)
    BY <1>3, <2>2, <2>5, <2>6, Zenon DEF OnPath, Continues
  <2>8. FrameInv(a) /\ Less(a, f) /\ ~SaysUnsigned(a)
    BY <1>1, <2>6, <2>7, GoesOnInv, Zenon DEF Further
  <2> QED
    BY <1>4, <2>8, Zenon DEF a, k, y, z
<1>5. CASE e = NoEntry /\ z = 0
  <2>1. b \in Frame /\ b.pc = "dnskey" /\ b.last_ttl = f.last_ttl /\ b.zone = z /\ b.ds = 0
    <3>1. f \in Frame /\ 0 \in 0..MaxFetch /\ 0 \in Nat
      BY <1>1, Zenon
    <3> QED
      BY <3>1, Zenon DEF Frame, b, z
  <2>2. Continues(f, b)
    BY Zenon DEF Frame, Continues, b
  <2> USE <2>1
  <2>3. Trusts(b) /\ Walking(b)
    BY Zenon DEF Trusts, Walking
  <2> USE <1>5, <2>2
  <2>4. b.good => SecureAbove(b.zone - 1) /\ Kind(b.zone) = "signed" /\ b.ds = Epoch(b.zone)
    BY ZoneFacts DEF Continues
  <2>5. b.zone = 0 /\ b.zone <= b.target
    BY ZenonT(20) DEF Continues
  <2>6. OnPath(b)
    BY <2>3, <2>4, <2>5 DEF OnPath, Continues
  <2>7. Further(f, b)
    BY ZenonT(20) DEF Further, z
  <2>8. FrameInv(b) /\ Less(b, f) /\ ~SaysUnsigned(b)
    BY <1>1, <2>6, <2>7, GoesOnInv, Zenon
  <2> QED
    BY <2>8, Zenon DEF b, z
<1>6. CASE e = NoEntry /\ z # 0
  <2>1. c \in Frame /\ c.pc = "ds" /\ c.last_ttl = f.last_ttl /\ c.zone = z /\ c.keys = f.keys
    <3>1. f \in Frame /\ 0 \in 0..MaxFetch
      BY <1>1, Zenon
    <3> QED
      BY <3>1, Zenon DEF Frame, c, z
  <2>2. Continues(f, c)
    BY Zenon DEF Frame, Continues, c
  <2>3. z > 0 /\ z \in 1..f.target /\ z <= f.target + 1
    BY <1>6
  <2> USE <2>1
  <2>4. Trusts(c) /\ Walking(c)
    BY <1>1, <2>3, ZenonT(20) DEF Trusts, Walking, z
  <2>5. OnPath(c)
    BY <2>2, <2>3, <2>4, Zenon DEF OnPath, Continues
  <2>6. Further(f, c)
    BY ZenonT(20) DEF Further, z
  <2>7. FrameInv(c) /\ Less(c, f) /\ ~SaysUnsigned(c)
    BY <1>1, <2>2, <2>5, <2>6, GoesOnInv, Zenon
  <2> QED
    BY <1>6, <2>7, Zenon DEF c, z
<1> QED
  BY <1>4, <1>5, <1>6, Zenon
=============================================================================
