--------------------------- MODULE MCSingleFlight ---------------------------
(* Calls of run on two keys, small enough to let every call join, lead,     *)
(* run the closure of an orphaned cell or be dropped.                       *)
EXTENDS SingleFlight
=============================================================================
