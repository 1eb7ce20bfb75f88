----------------------------- MODULE MCRecursor -----------------------------
(***************************************************************************)
(* Recursor for TLC: names of up to two labels, and servers that answer,   *)
(* redirect in circles, refer up, down and sideways, with glue and without.*)
(* MaxSteps is above the bound of StepsBoundedByLabels for every name, so  *)
(* that it is the referrals and not the limit that keep a call within it.  *)
(***************************************************************************)
EXTENDS Recursor, TLC

MCNames == {<<>>, <<"a">>, <<"a", "a">>, <<"b">>}
MCTlds == {<<"a">>}

Quiet == [answer |-> "none", owner |-> <<>>, target |-> <<>>, terminal |-> FALSE,
          authority |-> "empty", zone |-> <<>>, servers |-> <<>>, glue |-> 0, ttl |-> 1]

Alias(kind, o, n) == [Quiet EXCEPT !.answer = kind, !.owner = o, !.target = n]
Refer(z, s, g) ==
  [Quiet EXCEPT !.authority = "ns", !.zone = z, !.servers = s, !.glue = g]

All ==
  {Quiet, [Quiet EXCEPT !.answer = "target"], [Quiet EXCEPT !.answer = "loop"],
   [Quiet EXCEPT !.terminal = TRUE],
   Alias("cname", <<>>, <<"b">>), Alias("dname", <<"a">>, <<"b">>),
   Alias("dname", <<"a">>, <<"a">>),
   Refer(<<>>, << <<"b">> >>, 1), Refer(<<"a", "a">>, << <<"b">> >>, 1),
   Refer(<<"a">>, << <<"b">> >>, 0), Refer(<<"b">>, << <<"b">>, <<"a", "a">> >>, 0)}

CONSTANTS t1, t2
MCQuestions == (t1 :> {<< <<"a", "a">>, "A">>}) @@
               (t2 :> {<< <<"a", "a">>, "DS">>, << <<>>, "DS">>})
MCResponses == (t1 :> All) @@ (t2 :> {Refer(<<>>, << <<"b">> >>, 1)})
=============================================================================
