------------------------------ MODULE MCMatch -------------------------------
(* TLC instances of Match.                                                 *)
EXTENDS Match
=============================================================================
