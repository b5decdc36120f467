------------------------- MODULE MCDecoderPipeline -------------------------
(***************************************************************************)
(* DecoderPipeline with two surfaces and two jobs in flight.  The picture  *)
(* half and the sound half of a muxed stream are taken one at a time.      *)
(***************************************************************************)
EXTENDS DecoderPipeline

PictureHalf ==
    [video |-> TRUE, audio |-> FALSE, muxed |-> TRUE, prebind |-> TRUE]
SoundHalf ==
    [video |-> FALSE, audio |-> TRUE, muxed |-> TRUE, prebind |-> FALSE]

Halves == {PictureHalf, SoundHalf}
=============================================================================
