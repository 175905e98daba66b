----------------------------- MODULE MCRegistry -----------------------------
(* TLC instances of Registry.                                              *)
EXTENDS Registry, TLC

CONSTANTS s1, s2, s3
=============================================================================
