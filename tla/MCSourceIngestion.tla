------------------------- MODULE MCSourceIngestion -------------------------
(* TLC instances of SourceIngestion. *)
EXTENDS SourceIngestion
=============================================================================
