-------------------------- MODULE MCFetchScheduler --------------------------
(***************************************************************************)
(* FetchScheduler for TLC: a view of two slots and one of a single slot    *)
(* share a domain of two requests and one lane.                            *)
(***************************************************************************)
EXTENDS FetchScheduler

CONSTANTS page, frame

Pair == {page, frame}
TwoAndOne == [v \in Pair |-> IF v = page THEN 2 ELSE 1]
=============================================================================
