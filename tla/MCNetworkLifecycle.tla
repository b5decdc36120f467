------------------------- MODULE MCNetworkLifecycle -------------------------
(***************************************************************************)
(* A small instance of the network frontend.                               *)
(***************************************************************************)
EXTENDS NetworkLifecycle

CONSTANTS s1, s2

MCProfiles == {1}
OneSlot == {s1}
TwoSlots == {s1, s2}
=============================================================================
