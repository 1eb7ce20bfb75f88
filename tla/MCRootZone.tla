----------------------------- MODULE MCRootZone -----------------------------
(***************************************************************************)
(* RootZone for TLC: a zone, its successor, in which a top-level domain is *)
(* replaced by another one, and a zone too small to be installed.          *)
(***************************************************************************)
EXTENDS RootZone

NS(o, n) == [rtype |-> "NS", owner |-> o, ns |-> n]
A(n) == [rtype |-> "A", owner |-> n]

MCTlds == {"ca", "fr", "org"}
MCPublished ==
  << <<NS("ca", "x"), NS("fr", "y"), A("x"), A("y")>>,
     <<NS("ca", "x"), NS("org", "y"), A("x"), A("y")>>,
     <<NS("ca", "x"), NS("fr", "y"), A("x")>> >>
=============================================================================
