----------------------------- MODULE MCFraming ------------------------------
(* TLC instances of Framing.                                               *)
EXTENDS Framing

\* No data, and data that looks like lengths and like commands.
SmallPayloads == {<<>>, <<1>>, <<0, 2>>}
=============================================================================
