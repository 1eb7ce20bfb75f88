----------------------------- MODULE MCResolver -----------------------------
(***************************************************************************)
(* Instances of Resolver for TLC.  The outcomes are the verdicts that the  *)
(* engine tells apart, with signatures that run out before, with and after *)
(* the TTL.                                                                *)
(***************************************************************************)
EXTENDS Resolver, TLC

Outcome(rc, st, t, s) == [rcode |-> rc, status |-> st, ttl |-> t, sigexp |-> s]

SecureShort == Outcome("NoError", "Secure", 2, 2)
SecureLong == Outcome("NXDomain", "Secure", 2, 9)
Unsigned == Outcome("NoError", "InsecureUnsigned", 1, 0)
Unknown == Outcome("NoError", "InsecureUnknown", 1, 0)
Bogus == Outcome("NoError", "Bogus", 1, 0)
NotCacheable == Outcome("YXDomain", "InsecureUnsigned", 1, 0)

SafetyOutcomes == {SecureShort, Unsigned, Unknown, Bogus, NotCacheable}
LiveOutcomes == {Unsigned, Unknown, SecureLong}
LiveUnreadable == {SecureLong}

SomeFlags == {[cd |-> FALSE, ad |-> TRUE], [cd |-> TRUE, ad |-> TRUE]}
AdFlags == {[cd |-> FALSE, ad |-> TRUE]}

ActorSymmetry == Permutations(Requests) \cup Permutations(Revalidations)
=============================================================================
