---------------------------- MODULE MCValidator ----------------------------
(***************************************************************************)
(* Validator for TLC: a branch of two zones below the root.                *)
(***************************************************************************)
EXTENDS Validator, TLC

L(owner, how) == [owner |-> owner, how |-> how]
M(sort, links) ==
  [sort |-> sort, links |-> links, name |-> 1, bare |-> FALSE, wildcard |-> FALSE, proof |-> "Bogus"]

CONSTANT t1

MCMessages ==
  t1 :> { M("answer", <<L(2, "synthesized"), L(1, "genuine")>>),
          M("answer", <<L(1, "genuine"), L(2, "extra")>>),
          [M("answer", <<L(1, "genuine")>>) EXCEPT !.bare = TRUE],
          [M("negative", <<L(1, "extra"), L(2, "stripped")>>) EXCEPT !.proof = "Secure"],
          [M("negative", <<L(2, "genuine")>>) EXCEPT !.proof = "Secure"],
          M("answer", <<L(1, "unfit")>>), M("loop", <<>>), M("other", <<>>) }

MCKinds == <<{"signed", "unsigned"}, {"signed", "none", "unsupported"}>>
=============================================================================
