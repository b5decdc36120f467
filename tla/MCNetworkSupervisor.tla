------------------------ MODULE MCNetworkSupervisor ------------------------
(***************************************************************************)
(* A small instance of the reducer: one saved profile, at most two leases. *)
(* Two leases are enough to tell an empty table from a non-empty one and   *)
(* to let the retained count change between two timeouts.                  *)
(***************************************************************************)
EXTENDS NetworkSupervisor

MCProfiles == {1}
=============================================================================
