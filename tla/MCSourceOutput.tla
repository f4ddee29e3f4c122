--------------------------- MODULE MCSourceOutput ---------------------------
(***************************************************************************)
(* Small instances of a source and its decoders.                           *)
(***************************************************************************)
EXTENDS SourceOutput, TLC

OnePort == {9000}
TwoSizes == {<<2, 2>>, <<4, 2>>}
AacRates == <<96000, 88200, 64000, 48000, 44100, 32000, 24000, 22050, 16000, 12000,
              11025, 8000>>
=============================================================================
