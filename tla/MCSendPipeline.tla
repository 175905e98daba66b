--------------------------- MODULE MCSendPipeline ---------------------------
(* TLC instances of SendPipeline.                                          *)
EXTENDS SendPipeline
=============================================================================
