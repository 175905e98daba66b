----------------------------- MODULE MCCommands -----------------------------
(* TLC instances of Commands.                                              *)
EXTENDS Commands, TLC

CONSTANTS s1, s2
=============================================================================
