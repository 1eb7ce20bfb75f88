--------------------------- MODULE MCRateLimiter ---------------------------
(***************************************************************************)
(* RateLimiter for TLC: one key over time, three keys at one moment.       *)
(***************************************************************************)
EXTENDS RateLimiter, TLC

CONSTANTS s1, s2, n1, n2

MCWorkloads ==
  { [keys |-> {<<s1, n1>>}, until |-> 11],
    [keys |-> {<<s1, n1>>, <<s2, n1>>, <<s2, n2>>}, until |-> 0] }

WorkerSymmetry == Permutations(Workers)
=============================================================================
