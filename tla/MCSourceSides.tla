--------------------------- MODULE MCSourceSides ---------------------------
(***************************************************************************)
(* A small instance of a source that is used from one side at a time.      *)
(***************************************************************************)
EXTENDS MCPhoneSource, SourceSides
=============================================================================
