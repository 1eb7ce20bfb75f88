--------------------------- MODULE MCCachePersist ---------------------------
(***************************************************************************)
(* Instances of CachePersist for TLC.                                      *)
(***************************************************************************)
EXTENDS CachePersist, TLC

InodeSymmetry == Permutations(Inodes)
=============================================================================
