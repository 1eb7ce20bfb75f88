----------------------------- MODULE MCPrefetch -----------------------------
(***************************************************************************)
(* Prefetch for TLC, with its symmetries.                                  *)
(***************************************************************************)
EXTENDS Prefetch, TLC

Symmetry == Permutations(Keys) \cup Permutations(Workers) \cup Permutations(Slots)
=============================================================================
