---------------------------- MODULE MCUpdateTrial ----------------------------
(***************************************************************************)
(* Two signed releases and the Developer channel, on a card that was       *)
(* delivered with a journal or without one.                                *)
(***************************************************************************)
EXTENDS UpdateTrial

MCReleases == {1, 2}
MCDeveloperSequence == 3
=============================================================================
