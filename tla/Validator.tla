------------------------------ MODULE Validator ------------------------------
(***************************************************************************)
(* DNSSEC validation (src/dnssec): validate_message and the walk down the  *)
(* chain of trust it makes for every RRset, with the two caches that all   *)
(* validations share (zone keys, and which zones are signed) and the       *)
(* budget of signature checks each validation has to itself.               *)
(*                                                                         *)
(* The names are those of one branch of the tree, a name being its number  *)
(* of labels.  The zones along the branch are signed, unsigned, signed     *)
(* with nothing this validator supports, or no zones at all ("none"), and  *)
(* change now and then.  Each change begins a new epoch of the zone, with  *)
(* new keys; keys <<z, e>> verify exactly what zone z signed in epoch e.   *)
(* Cryptography, and the evaluation of NSEC and NSEC3 records that have    *)
(* been verified, are taken to work.                                       *)
(*                                                                         *)
(* A step ends where the code awaits the recursor; it may also end before, *)
(* since validations run on several threads.  Times are kept as ages and   *)
(* as the time a cache entry has left.                                     *)
(***************************************************************************)
EXTENDS Integers, Sequences

CONSTANTS
  Tasks,         \* concurrent calls of validate_message
  Depth,         \* labels of the deepest name
  Messages,      \* Messages[t]: the messages t may be called with
  Kinds,         \* Kinds[z]: what zone z may be
  DsTtl, KeyTtl, \* TTLs of DS, or of the denial of one, and of DNSKEY
  DefaultTtl,    \* last_ttl at first: 300
  MaxSigChecks,  \* PER_VALIDATION_MAX_SIG_CHECKS
  MaxTries,      \* keys with the tag of a signature: checks it may cost
  MaxFetch,      \* bound on the time the recursor takes
  MaxChanges,    \* bound on the changes of a zone
  Horizon,       \* where ages stop
  NoKeys, NoEntry

Names == 0..Depth
Zones == 1..Depth
ZoneKind == {"signed", "unsigned", "unsupported", "none"}
Insecure == {"unsigned", "unsupported"}
DnssecStatus == {"Secure", "InsecureUnsigned", "InsecureUnknown", "Bogus"}

\* A message: links, the aliases and the answer with their owners and what
\* became of their signatures on the way ("synthesized": the recursor made the
\* CNAME, from a DNAME, and nobody signed it); bare: no answer after the
\* aliases.  Of a negative one, NXDOMAIN or an empty answer section, links has
\* the SOA and then the aliases; name: how far down the branch the name asked
\* for goes, or the last alias's target if it goes further; proof: what the
\* denial shows of that target.  "loop": the aliases loop, or are too many.
Damage == {"genuine", "synthesized", "stripped", "broken", "unfit", "extra"}
Message ==
  [sort : {"answer", "loop", "negative", "no_soa", "other"},
   links : Seq([owner : Names, how : Damage]), name : Names,
   bare : BOOLEAN, wildcard : BOOLEAN, proof : DnssecStatus]

\* The RRsets of a message that are verified: not the aliases of a negative one.
Examined(m) == IF m.sort = "negative" THEN <<Head(m.links)>> ELSE m.links

\* validate_negative: the SOA is of no zone that the name asked for, or the last
\* alias's target, is in.
Foreign(m) == m.sort = "negative" /\ Head(m.links).owner > m.name

ASSUME MessagesAssumption ==
  \A t \in Tasks : \A m \in Messages[t] :
    m \in Message /\ (m.sort \in {"answer", "negative"} => m.links # <<>>)
ASSUME ZonesAssumption == Depth \in Nat /\ Kinds \in [Zones -> SUBSET ZoneKind]
ASSUME BoundsAssumption ==
  /\ DsTtl \in Nat \ {0} /\ KeyTtl \in Nat \ {0} /\ DefaultTtl \in Nat \ {0}
  /\ MaxSigChecks \in Nat /\ MaxTries \in Nat \ {0}
  /\ MaxFetch \in Nat /\ MaxChanges \in Nat /\ Horizon \in Nat
ASSUME SentinelAssumption ==
  /\ NoKeys \notin Names \X Nat
  /\ NoEntry \notin [epoch : Nat, left : Nat]
  /\ NoEntry \notin [signedness : {"Signed", "ProvenUnsigned"}, left : Nat]

VARIABLES
  kind,               \* kind[z]: what zone z is
  past,               \* past[z]: its past epochs, with the time since they ended
  key_trust_cache,    \* key_trust_cache[z]: the epoch of z's keys, time left
  signed_zone_cache,  \* signed_zone_cache[z]: Signed or ProvenUnsigned, time left
  frames              \* frames[t]: t's locals

vars == <<kind, past, key_trust_cache, signed_zone_cache, frames>>

Min2(a, b) == IF a < b THEN a ELSE b

\* How long Signed may be cached: last_ttl is the TTL of the last keys that
\* were fetched, which may be those of any zone above.
SignedTtl == IF DefaultTtl < KeyTtl THEN KeyTtl ELSE DefaultTtl

Epoch(z) == IF z = 0 THEN 0 ELSE Len(past[z])
Kind(z) == IF z = 0 THEN "signed" ELSE kind[z]
\* The apex of the zone that name n is in.
Apex(n) == CHOOSE a \in 0..n : Kind(a) # "none" /\ \A b \in (a + 1)..n : Kind(b) = "none"
KeysOf(z) == <<z, Epoch(z)>>

Sig == [keys : Names \X Nat, good : BOOLEAN]

\* The RRSIGs of an RRset that pass the first filter (validity period, signer,
\* labels) as they come with the message, and whether there were any.
Signatures(link) ==
  LET k == KeysOf(Apex(link.owner))
      s == [keys |-> k, good |-> TRUE]
      b == [keys |-> k, good |-> FALSE]
  IN  IF Kind(k[1]) \in {"unsigned", "none"} THEN <<>>
      ELSE CASE link.how = "genuine" -> <<s>>
             [] link.how = "broken" -> <<b>>
             [] link.how = "extra" -> <<b, s>>
             [] OTHER -> <<>>
Bare(link) == link.how \in {"stripped", "synthesized"} \/ Kind(Apex(link.owner)) \in {"unsigned", "none"}

RRset == [owner : Names, bare : BOOLEAN, sigs : Seq(Sig)]

Signed == {"Signed", "ProvenUnsigned"}

\* pc: where the task is; links: RRsets still to validate; use: what the walk
\* is for, target: where it leads, zone: the next one on the path, keys:
\* trusted_parent_keys, ds: the epoch of the DS; used: sig_checks.  The last
\* four are history: refused: the budget ran out; good: all that is examined
\* has come with its zone's signatures, the zones have been as they are for a
\* while, and the recursor has not failed; todo: RRsets examined and not
\* verified; waited: time since the query.
Frame ==
  [pc : {"idle", "rrset", "signed", "apex", "walk", "ds", "dnskey", "done"},
   links : Seq(RRset), bare : BOOLEAN, wildcard : BOOLEAN, proof : DnssecStatus,
   use : {"rrset", "signed", "negative"}, any_trusted : BOOLEAN,
   target : Names, zone : 0..Depth + 1, keys : (Names \X Nat) \cup {NoKeys},
   ds : Nat, last_ttl : Nat, used : 0..MaxSigChecks,
   verdict : DnssecStatus, refused : BOOLEAN, good : BOOLEAN,
   todo : Int, waited : 0..MaxFetch]

Idle ==
  [pc |-> "idle", links |-> <<>>, bare |-> FALSE, wildcard |-> FALSE,
   proof |-> "Bogus", use |-> "rrset", any_trusted |-> FALSE, target |-> 0,
   zone |-> 0, keys |-> NoKeys, ds |-> 0, last_ttl |-> DefaultTtl, used |-> 0,
   verdict |-> "Bogus", refused |-> FALSE, good |-> FALSE,
   todo |-> 0, waited |-> 0]

TypeOK ==
  /\ kind \in [Zones -> ZoneKind] /\ \A z \in Zones : kind[z] \in Kinds[z]
  /\ past \in [Zones -> Seq([kind : ZoneKind, age : 0..Horizon])]
  /\ \A z \in Zones : Len(past[z]) <= MaxChanges
  /\ key_trust_cache \in
       [Names -> [epoch : 0..MaxChanges, left : 1..KeyTtl] \cup {NoEntry}]
  /\ signed_zone_cache \in
       [Names -> [signedness : Signed, left : 1..(DsTtl + SignedTtl)] \cup {NoEntry}]
  /\ frames \in [Tasks -> Frame]

Init ==
  /\ kind \in {k \in [Zones -> ZoneKind] : \A z \in Zones : k[z] \in Kinds[z]}
  /\ past = [z \in Zones |-> <<>>]
  /\ key_trust_cache = [n \in Names |-> NoEntry]
  /\ signed_zone_cache = [n \in Names |-> NoEntry]
  /\ frames = [t \in Tasks |-> Idle]

(***************************************************************************)
(* What the synchronous code makes of a frame f.                           *)
(***************************************************************************)
\* The verdict; what is only history remains.
Done(f, status) ==
  [Idle EXCEPT !.pc = "done", !.verdict = status, !.refused = f.refused,
               !.good = f.good, !.todo = Min2(f.todo, 1)]

\* can_check_sig, n times.
CanCheck(f, n) == f.used + n <= MaxSigChecks
Spend(f, n) ==
  [f EXCEPT !.used = Min2(@ + n, MaxSigChecks), !.refused = @ \/ ~CanCheck(f, n)]

Walk(f, target, use) ==
  [f EXCEPT !.pc = "walk", !.target = target, !.use = use, !.zone = 0,
            !.keys = NoKeys, !.last_ttl = DefaultTtl, !.waited = 0]

\* What remains of Secure when the answer is an expanded wildcard of a zone
\* with NSEC3: the proof that goes with it is not looked at.
wildcard_optout_check(f) == IF f.wildcard THEN "InsecureUnknown" ELSE "Secure"

\* Variant of Verified: the aliases before the answer are not looked at.
VerifiedOnce(f) ==
  LET g == [f EXCEPT !.links = <<>>, !.todo = @ - 1]
  IN  Done(g, IF g.bare THEN "InsecureUnknown" ELSE wildcard_optout_check(g))

\* The first RRset is Secure: validate_answer goes on.
Verified(f) ==
  LET g == [f EXCEPT !.links = Tail(@), !.any_trusted = FALSE, !.todo = @ - 1]
  IN  IF g.links # <<>> THEN [g EXCEPT !.pc = "rrset"]
      ELSE Done(g, IF g.bare THEN "InsecureUnknown" ELSE wildcard_optout_check(g))

\* Variant of NextSig: the same signature again.
NextSigAgain(f) ==
  IF f.any_trusted THEN Done(f, "Bogus") ELSE Walk(f, f.links[1].sigs[1].keys[1], "rrset")

\* The first signature did not verify: the next one, or none is left.
NextSig(f) ==
  LET g == [f EXCEPT !.links[1].sigs = Tail(@)]
  IN  IF g.links[1].sigs # <<>> THEN Walk(g, g.links[1].sigs[1].keys[1], "rrset")
      ELSE IF g.any_trusted THEN Done(g, "Bogus")
      ELSE Done(g, "InsecureUnsigned")

\* Variant of ChainBogus: for is_zone_signed, no chain means no signatures.
ChainBogusUnsigned(f) ==
  IF f.use = "signed" THEN Done(f, "InsecureUnsigned") ELSE Done(f, "Bogus")

\* ChainResult::Bogus.
ChainBogus(f) ==
  IF f.use = "signed" THEN Done(f, "InsecureUnknown") ELSE Done(f, "Bogus")

\* ChainResult::Unsigned.
ChainUnsigned(f) ==
  IF f.use = "rrset" THEN NextSig(f) ELSE Done(f, "InsecureUnsigned")

\* ChainResult::Trusted, for validate_rrset: the signature and the keys.
RrsetTrusted(f, n) ==
  LET s == f.links[1].sigs[1]
      g == Spend([f EXCEPT !.any_trusted = TRUE], n)
  IN  IF s.keys # f.keys THEN NextSig([f EXCEPT !.any_trusted = TRUE])
      ELSE IF ~CanCheck(f, n) THEN Done(g, "Bogus")
      ELSE IF s.good THEN Verified(g) ELSE NextSig(g)

\* validate_nsec and validate_nsec3: what the records prove counts once their
\* signatures have been checked, unless their hash is one not looked at.
Denial(f, n) ==
  LET g == Spend(f, n)
  IN  IF f.proof = "InsecureUnknown" THEN Done([f EXCEPT !.todo = 0], f.proof)
      ELSE IF ~CanCheck(f, n) THEN Done(g, "Bogus")
      ELSE Done([g EXCEPT !.todo = 0], f.proof)

\* The checks it takes until a signature verifies, or none is left.
Checks(sigs) ==
  CHOOSE c \in 1..Len(sigs) :
    (sigs[c].good \/ c = Len(sigs)) /\ \A i \in 1..c - 1 : ~sigs[i].good

\* For validate_negative: the SOA's signatures in turn, then the proof.
NegativeTrusted(f, n) ==
  LET s == f.links[1].sigs
      c == Checks(s)
      g == Spend(f, c)
  IN  IF s = <<>> \/ s[1].keys # f.keys THEN Done(f, "Bogus")
      ELSE IF ~CanCheck(f, c) \/ ~s[c].good THEN Done(g, "Bogus")
      ELSE Denial(g, n)

(***************************************************************************)
(* Actions                                                                 *)
(***************************************************************************)
\* No zone has changed for as long as the caches may hold what was before.
Settled ==
  \A z \in Zones : \A i \in 1..Len(past[z]) : past[z][i].age >= DsTtl + SignedTtl - 1

Set(t, f) == frames' = [frames EXCEPT ![t] = f]

zones == <<kind, past>>
caches == <<key_trust_cache, signed_zone_cache>>

\* validate_message_with_budget: a new budget, and by the response code.
Start(t, m) ==
  /\ frames[t].pc \in {"idle", "done"}
  /\ LET links == Examined(m)
         f == [Idle EXCEPT
                 !.links = [i \in 1..Len(links) |->
                              [owner |-> links[i].owner, bare |-> Bare(links[i]),
                               sigs |-> Signatures(links[i])]],
                 !.bare = m.bare, !.wildcard = m.wildcard, !.proof = m.proof,
                 !.good = /\ \A i \in 1..Len(links) : links[i].how \in {"genuine", "extra"}
                          /\ m.sort = "negative" => m.proof # "Bogus"
                          /\ Settled,
                 !.todo = Len(links)]
     IN  Set(t, CASE m.sort = "answer" -> [f EXCEPT !.pc = "rrset"]
                  [] m.sort = "loop" \/ Foreign(m) -> Done([f EXCEPT !.good = FALSE], "Bogus")
                  [] m.sort = "negative" /\ ~Foreign(m) -> Walk(f, links[1].owner, "negative")
                  [] OTHER -> Done(f, "InsecureUnknown"))
  /\ UNCHANGED <<zones, caches>>

\* validate_rrset, until it walks a chain or asks is_zone_signed.
Rrset(t) ==
  /\ frames[t].pc = "rrset"
  /\ LET f == frames[t]
         r == f.links[1]
     IN  Set(t, IF r.bare THEN [f EXCEPT !.pc = "signed"]
                ELSE IF r.sigs = <<>> THEN Done(f, "Bogus")
                ELSE Walk(f, r.sigs[1].keys[1], "rrset"))
  /\ UNCHANGED <<zones, caches>>

Cached(n, s) == signed_zone_cache[n] # NoEntry /\ signed_zone_cache[n].signedness = s

\* is_zone_signed, what the cache says of the name and of those above it.
SignedCached(t) ==
  /\ frames[t].pc = "signed"
  /\ LET f == frames[t]
         n == f.links[1].owner
     IN  Set(t, IF Cached(n, "Signed") THEN Done(f, "Bogus")
                ELSE IF \E c \in 0..n : Cached(c, "ProvenUnsigned")
                  THEN Done(f, "InsecureUnsigned")
                ELSE [f EXCEPT !.pc = "apex", !.waited = 0])
  /\ UNCHANGED <<zones, caches>>

\* find_zone_apex: the SOA of the name, or where that fails of one above it;
\* where all fail, the name above.
FindApex(t) ==
  /\ frames[t].pc = "apex"
  /\ LET f == frames[t]
         n == f.links[1].owner
     IN  \/ \E c \in 0..n :
              Set(t, Walk([f EXCEPT !.good = @ /\ c = n], Apex(c), "signed"))
         \/ Set(t, Walk([f EXCEPT !.good = FALSE], IF n = 0 THEN 0 ELSE n - 1, "signed"))
  /\ UNCHANGED <<zones, caches>>

\* build_trust_chain: keys the cache has.
WalkCached(t) ==
  /\ frames[t].pc = "walk" /\ frames[t].zone <= frames[t].target
  /\ LET f == frames[t]
         e == key_trust_cache[f.zone]
     IN  Set(t, IF e # NoEntry
                  THEN [f EXCEPT !.keys = <<f.zone, e.epoch>>, !.zone = @ + 1]
                ELSE IF f.zone = 0 THEN [f EXCEPT !.pc = "dnskey", !.ds = 0, !.waited = 0]
                ELSE [f EXCEPT !.pc = "ds", !.waited = 0])
  /\ UNCHANGED <<zones, caches>>

\* The end of the path: Trusted.
WalkDone(t, n) ==
  /\ frames[t].pc = "walk" /\ frames[t].zone > frames[t].target
  /\ LET f == frames[t]
     IN  /\ Set(t, CASE f.use = "rrset" -> RrsetTrusted(f, n)
                     [] f.use = "negative" -> NegativeTrusted(f, n)
                     [] f.use = "signed" -> Done(f, "Bogus"))
         /\ signed_zone_cache' =
              IF f.use # "signed" THEN signed_zone_cache
              ELSE [signed_zone_cache EXCEPT ![f.target] =
                      [signedness |-> "Signed", left |-> f.last_ttl]]
  /\ UNCHANGED <<zones, key_trust_cache>>

\* How long keys are cached: no longer than the DS they rest on.
KeysTtl(z) == IF z = 0 THEN KeyTtl ELSE Min2(KeyTtl, DsTtl)

\* Variant of ProvenNames: the zone that holds the denial.
ProvenNamesParent(f) == {f.zone - 1} \cup IF f.use = "signed" THEN {f.target} ELSE {}

\* The names a denial of DS proves unsigned.
ProvenNames(f) == {f.zone} \cup IF f.use = "signed" THEN {f.target} ELSE {}

ProvenUnsigned == [signedness |-> "ProvenUnsigned", left |-> DsTtl]

\* The DS query is answered as the parent zone has it.  Its signature, or the
\* denial's, is checked with the keys the walk came with.
Ds(t, n) ==
  LET f == frames[t]
      g == Spend(f, n)
      insecure == f.keys = KeysOf(Apex(f.zone - 1)) /\ CanCheck(f, n) /\ Kind(f.zone) \in Insecure
  IN  /\ f.pc = "ds"
      /\ Set(t, IF f.keys # KeysOf(Apex(f.zone - 1)) THEN ChainBogus(f)
                ELSE IF ~CanCheck(f, n) THEN ChainBogus(g)
                ELSE IF insecure THEN ChainUnsigned(g)
                ELSE IF Kind(f.zone) = "none" THEN [g EXCEPT !.pc = "walk", !.zone = @ + 1, !.waited = 0]
                ELSE [g EXCEPT !.pc = "dnskey", !.ds = Epoch(f.zone), !.waited = 0])
      /\ signed_zone_cache' =
           IF insecure THEN [m \in Names |-> IF m \in ProvenNames(f) THEN ProvenUnsigned
                                             ELSE signed_zone_cache[m]]
           ELSE signed_zone_cache
      /\ UNCHANGED <<zones, key_trust_cache>>

\* The DNSKEY query is answered; the keys are kept as long as the DS too.
Dnskey(t, n) ==
  LET f == frames[t]
      g == Spend(f, n)
      z == f.zone
      match == Kind(z) = "signed" /\ Epoch(z) = f.ds
      trusted == match /\ CanCheck(f, n)
  IN  /\ f.pc = "dnskey"
      /\ Set(t, IF ~match THEN ChainBogus(f)
                ELSE IF ~trusted THEN ChainBogus(g)
                ELSE [g EXCEPT !.pc = "walk", !.keys = KeysOf(z), !.zone = z + 1,
                               !.ds = 0, !.last_ttl = KeysTtl(z), !.waited = 0])
      /\ key_trust_cache' =
           IF trusted THEN [key_trust_cache EXCEPT ![z] = [epoch |-> f.ds, left |-> KeysTtl(z)]]
           ELSE key_trust_cache
      /\ UNCHANGED <<zones, signed_zone_cache>>

\* No answer to a DS or DNSKEY query, or one without what it takes: an RRSIG,
\* a signature that verifies, a proof that is complete.
FetchFails(t) ==
  /\ frames[t].pc \in {"ds", "dnskey"}
  /\ Set(t, ChainBogus([frames[t] EXCEPT !.good = FALSE]))
  /\ UNCHANGED <<zones, caches>>

\* A zone is signed, goes unsigned or rolls its keys.
Change(z) ==
  /\ \A y \in Zones : Len(past[y]) < MaxChanges
  /\ past' = [past EXCEPT ![z] = Append(@, [kind |-> kind[z], age |-> 0])]
  /\ \E k \in Kinds[z] : kind' = [kind EXCEPT ![z] = k]
  /\ frames' = [t \in Tasks |-> [frames[t] EXCEPT !.good = FALSE]]
  /\ UNCHANGED caches

\* What a validation may add to the caches for z (CacheGuarantee shows that
\* those modelled do): the keys z has; that z is unsigned, when it is; that z
\* is signed, when it is or a zone above it, or itself, has just changed.
Justified(z, keys, signed) ==
  /\ keys # key_trust_cache[z] =>
       Kind(z) = "signed" /\ keys = [epoch |-> Epoch(z), left |-> KeysTtl(z)]
  /\ signed # signed_zone_cache[z] =>
       \/ signed = ProvenUnsigned /\ \E y \in 1..z : Kind(y) \in Insecure
       \/ /\ signed.signedness = "Signed" /\ signed.left <= SignedTtl
          /\ \/ Kind(Apex(z)) = "signed"
             \/ \E y \in 1..z : \E i \in 1..Len(past[y]) : past[y][i].age < DsTtl

\* Another validation does.
Elsewhere(z) ==
  /\ \E keys \in {key_trust_cache[z], [epoch |-> Epoch(z), left |-> KeysTtl(z)]},
        signed \in {signed_zone_cache[z], ProvenUnsigned,
                   [signedness |-> "Signed", left |-> SignedTtl]} :
       /\ Justified(z, keys, signed)
       /\ key_trust_cache' = [key_trust_cache EXCEPT ![z] = keys]
       /\ signed_zone_cache' = [signed_zone_cache EXCEPT ![z] = signed]
  /\ UNCHANGED <<zones, frames>>

\* Variant of Aged: entries stay.
AgedNever(e) == e

\* Variant of Aged: an entry goes one unit after it has expired.
AgedLate(e) == IF e = NoEntry \/ e.left = 0 THEN NoEntry ELSE [e EXCEPT !.left = @ - 1]

\* An entry after a unit of time.
Aged(e) == IF e = NoEntry \/ e.left = 1 THEN NoEntry ELSE [e EXCEPT !.left = @ - 1]

Waiting == {"apex", "ds", "dnskey"}

Tick ==
  /\ \A t \in Tasks : \/ frames[t].pc \in {"idle", "done"}
                      \/ frames[t].pc \in Waiting /\ frames[t].waited < MaxFetch
  /\ past' = [z \in Zones |-> [i \in 1..Len(past[z]) |->
                [past[z][i] EXCEPT !.age = Min2(@ + 1, Horizon)]]]
  /\ key_trust_cache' = [n \in Names |-> Aged(key_trust_cache[n])]
  /\ signed_zone_cache' = [n \in Names |-> Aged(signed_zone_cache[n])]
  /\ frames' = [t \in Tasks |-> IF frames[t].pc \in Waiting
                  THEN [frames[t] EXCEPT !.waited = @ + 1]
                  ELSE frames[t]]
  /\ UNCHANGED kind

Step(t) ==
  \/ Rrset(t) \/ SignedCached(t) \/ FindApex(t) \/ WalkCached(t)
  \/ \E n \in 1..MaxTries : WalkDone(t, n) \/ Ds(t, n) \/ Dnskey(t, n)
  \/ FetchFails(t)

Next ==
  \/ \E t \in Tasks : Step(t) \/ \E m \in Messages[t] : Start(t, m)
  \/ \E z \in Zones : Change(z) \/ Elsewhere(z)
  \/ Tick

Spec == Init /\ [][Next]_vars

(***************************************************************************)
(* Properties                                                              *)
(***************************************************************************)
Ends(t) == frames[t].pc # "done" /\ frames'[t].pc = "done"

\* An RRset is found Secure only with keys its zone has, or had less than the
\* TTL of its DS ago, however long the walk took: cached trust does not
\* outlive its proof.
SecureIsFresh ==
  [][\A t \in Tasks :
       frames[t].pc = "walk" /\ frames'[t].todo < frames[t].todo =>
         LET k == frames[t].keys
         IN  \/ k = KeysOf(k[1]) /\ Kind(k[1]) = "signed"
             \/ /\ k[2] < Epoch(k[1])
                /\ LET e == past[k[1]][k[2] + 1]
                   IN  e.kind = "signed" /\ e.age < DsTtl]_vars

\* A message is InsecureUnsigned only if a zone at or above the RRset it ended
\* with, the SOA of a negative one, is provably unsigned, or was within the TTL
\* of the proof: what the recursor fails to deliver
\* never makes a signed zone look unsigned.
UnsignedIsProven ==
  [][\A t \in Tasks :
       Ends(t) /\ frames'[t].verdict = "InsecureUnsigned" /\ frames[t].proof # "InsecureUnsigned" =>
         \E z \in 1..frames[t].links[1].owner :
           \/ kind[z] \in Insecure
           \/ \E i \in 1..Len(past[z]) : past[z][i].kind \in Insecure /\ past[z][i].age < DsTtl]_vars

\* A message that comes with all the signatures its zones made is Bogus only if
\* the recursor failed this validation, its budget ran out, or a zone changed
\* recently: a rollover is over when the TTLs are.  (An answer through a DNAME is
\* no such message: the CNAME that recursor/mod.rs:212-224 adds, or the one the
\* server made, has no signature, is taken before the DNAME, and is Bogus in a
\* signed zone however settled.)
RolloverHeals ==
  \A t \in Tasks :
    frames[t].pc = "done" /\ frames[t].verdict = "Bogus" /\ frames[t].good =>
      frames[t].refused

\* Secure is said of an answer only when every alias and the answer itself have
\* been verified, of a negative message when its SOA has and the proof shows it
\* of the last alias's target (its aliases are not examined: negative.rs:45-56
\* reads the target and verifies nothing); and a validation that ran out of
\* signature checks never trusts: its result is Bogus, or Unknown (which is not
\* cached).
VerdictEarned ==
  \A t \in Tasks : frames[t].pc = "done" =>
    /\ frames[t].verdict = "Secure" => frames[t].todo = 0
    /\ frames[t].refused => frames[t].verdict \in {"Bogus", "InsecureUnknown"}

\* What a validation caches about a zone is Justified: keys and ProvenUnsigned
\* hold when they are cached, though the walk began earlier and zones change;
\* Signed does too, or a zone on the way changed less than the TTL of a DS ago.
CacheGuarantee ==
  [][caches' # caches /\ frames' # frames =>
       \A n \in Names :
         \/ /\ key_trust_cache'[n] \in {key_trust_cache[n], Aged(key_trust_cache[n])}
            /\ signed_zone_cache'[n] \in {signed_zone_cache[n], Aged(signed_zone_cache[n])}
         \/ Justified(n, key_trust_cache'[n], signed_zone_cache'[n])]_vars

\* What is left of the walk under way, and of what comes before one.
Rank(f) ==
  CASE f.pc = "rrset" -> 3 * Depth + 9
    [] f.pc = "signed" -> 3 * Depth + 8
    [] f.pc = "apex" -> 3 * Depth + 7
    [] f.pc = "walk" -> 3 * (f.target + 1 - f.zone) + 3
    [] f.pc = "ds" -> 3 * (f.target + 1 - f.zone) + 2
    [] f.pc = "dnskey" -> 3 * (f.target + 1 - f.zone) + 1
    [] OTHER -> 0

\* There is less to do in g than in f: fewer RRsets to look at, or fewer
\* signatures of the first one, or less of the walk.
Less(g, f) ==
  \/ Len(g.links) < Len(f.links)
  \/ /\ Len(g.links) = Len(f.links)
     /\ \/ Len(g.links[1].sigs) < Len(f.links[1].sigs)
        \/ Len(g.links[1].sigs) = Len(f.links[1].sigs) /\ Rank(g) \in 0..Rank(f) - 1

\* Every validation ends, whatever the recursor delivers and other validations
\* cache: each of its steps leaves less to do than there was.
WorkShrinks ==
  [][\A t \in Tasks :
       LET f == frames[t]
           g == frames'[t]
       IN  f.pc \notin {"idle", "done"} /\ <<f.pc, f.zone, f.links>> # <<g.pc, g.zone, g.links>>
             => Less(g, f)]_vars
=============================================================================
