------------------------------ MODULE MCLobby -------------------------------
(* TLC instances of Lobby.                                                 *)
EXTENDS Lobby, TLC

CONSTANTS s1, s2, s3

\* Sessions are interchangeable; UserIDs are numbers.
Symmetry == Permutations(Sessions)
=============================================================================
