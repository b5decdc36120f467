-------------------------- MODULE MCTransportSlot ---------------------------
(***************************************************************************)
(* TransportSlot with a response of three units published in twos: a full  *)
(* chunk, a remainder and a partial take of each.                          *)
(***************************************************************************)
EXTENDS TransportSlot

ThreeUnits == 3
TwoUnits == 2
=============================================================================
